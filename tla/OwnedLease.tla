------------------------------ MODULE OwnedLease ------------------------------
(***************************************************************************)
(* The owner-safe lease of src/core/locks.mjs (acquireOwnedViewLock): a    *)
(* lock directory published complete by an atomic rename, reclaimed from a *)
(* dead or silent owner by renaming it into a private quarantine, checking *)
(* there that it is the lock that was inspected, and deleting it or        *)
(* putting it back.  It guards the coordinator of a board and the start    *)
(* and the metadata of a view's host.                                      *)
(*                                                                         *)
(* The lock path holds nothing, an empty directory, a directory that lost  *)
(* its owner.json, or a complete lock: its owner, its token and whether    *)
(* its last heartbeat is too old.  A token is a random string; here it is  *)
(* the owner with a name no other token in sight has.                      *)
(***************************************************************************)
EXTENDS Naturals

CONSTANTS
    Procs,       \* processes, by pid: a dead one does not come back
    None,        \* no lock, no token, nothing in quarantine
    Empty,       \* an empty directory at the lock path
    Husk,        \* a directory at the lock path without owner.json
    Names,       \* enough names to tell the tokens in sight apart
    MaxRounds,   \* MAX_LEASE_RECLAIM_ATTEMPTS
    Declares,    \* whether the lease declares a heartbeat period
    Stalling,    \* processes that may miss their heartbeats while alive
    PidReused,   \* processes that look alive after their death
    MaxCrashes   \* bound: how many processes die

ASSUME LeaseAssumption ==
    /\ Names \subseteq Nat /\ MaxRounds \in Nat \ {0} /\ MaxCrashes \in Nat
    /\ Declares \in BOOLEAN /\ Stalling \subseteq Procs /\ PidReused \subseteq Procs

VARIABLES
    lock,        \* what is at the lock path
    aside,       \* the quarantine directory of each process
    pc,          \* where each process stands
    mine,        \* the token of the lease a process was granted last
    seen,        \* the token a process inspected
    rounds,      \* publish rounds of the acquire attempt
    crashes,
    stalled      \* history: who missed its heartbeats while alive

vars == <<lock, aside, pc, mine, seen, rounds, crashes, stalled>>

Token == [owner : Procs, name : Names]
Lock == [token : Token, stale : BOOLEAN]
Path == Lock \cup {None, Empty, Husk}

ASSUME PathAssumption == {None, Empty, Husk} \cap Lock = {}

TypeOK ==
    /\ lock \in Path
    /\ aside \in [Procs -> Path]
    /\ pc \in [Procs -> {"idle", "publish", "inspect", "reclaim", "verify",
                         "held", "unlink", "rmdir", "dead"}]
    /\ mine \in [Procs -> Token \cup {None}]
    /\ seen \in [Procs -> Token \cup {None}]
    /\ rounds \in [Procs -> 0..(MaxRounds - 1)]
    /\ crashes \in 0..MaxCrashes
    /\ stalled \subseteq Stalling

Init ==
    /\ lock = None
    /\ aside = [p \in Procs |-> None]
    /\ pc = [p \in Procs |-> "idle"]
    /\ mine = [p \in Procs |-> None]
    /\ seen = [p \in Procs |-> None]
    /\ rounds = [p \in Procs |-> 0]
    /\ crashes = 0
    /\ stalled = {}

Goto(p, label) == pc' = [pc EXCEPT ![p] = label]

\* The attempt or the lease is over, and what it remembered with it.
Finish(p) ==
    /\ Goto(p, "idle")
    /\ mine' = [mine EXCEPT ![p] = None]
    /\ seen' = [seen EXCEPT ![p] = None]
    /\ rounds' = [rounds EXCEPT ![p] = 0]

IsComplete(path) == path \notin {None, Empty, Husk}
Owns(p) == IsComplete(lock) /\ lock.token = mine[p]

\* Tokens that something may still be compared with.
InSight ==
    {mine[p] : p \in Procs} \cup {seen[p] : p \in Procs}
        \cup {d.token : d \in {x \in {lock} \cup {aside[p] : p \in Procs} : IsComplete(x)}}

FreshToken(p, token) ==
    /\ token.owner = p /\ token \notin InSight
    /\ \A name \in Names : name < token.name => [owner |-> p, name |-> name] \in InSight

----------------------------------------------------------------------------
(* Acquiring: publish a complete candidate, or decide about the lock there. *)

Attempt(p) ==
    /\ pc[p] = "idle"
    /\ Goto(p, "publish")
    /\ UNCHANGED <<lock, aside, mine, seen, rounds, crashes, stalled>>

\* renaming onto nothing or onto an empty directory succeeds.
Publish(p) ==
    /\ pc[p] = "publish"
    /\ lock \in {None, Empty}
    /\ \E token \in Token :
          /\ FreshToken(p, token)
          /\ lock' = [token |-> token, stale |-> FALSE]
          /\ mine' = [mine EXCEPT ![p] = token]
    /\ Goto(p, "held")
    /\ rounds' = [rounds EXCEPT ![p] = 0]
    /\ UNCHANGED <<aside, seen, crashes, stalled>>

Conflict(p) ==
    /\ pc[p] = "publish"
    /\ lock \notin {None, Empty}
    /\ Goto(p, "inspect")
    /\ UNCHANGED <<lock, aside, mine, seen, rounds, crashes, stalled>>

LooksDead(p) == pc[p] = "dead" /\ p \notin PidReused

PidOnly_Reclaimable(path) == IsComplete(path) /\ LooksDead(path.token.owner)

\* classifyLeaseOwner of an owner with a full identity.
Reclaimable(path) ==
    /\ IsComplete(path)
    /\ (Declares /\ path.stale) \/ LooksDead(path.token.owner)

\* Busy, or blocked by an unreadable owner.json.
GiveUp(p) ==
    /\ pc[p] = "inspect"
    /\ ~Reclaimable(lock)
    /\ Finish(p)
    /\ UNCHANGED <<lock, aside, crashes, stalled>>

Inspect(p) ==
    /\ pc[p] = "inspect"
    /\ Reclaimable(lock)
    /\ seen' = [seen EXCEPT ![p] = lock.token]
    /\ Goto(p, "reclaim")
    /\ UNCHANGED <<lock, aside, mine, rounds, crashes, stalled>>

\* Move whatever is at the lock path now into quarantine.
Quarantine(p) ==
    /\ pc[p] = "reclaim"
    /\ lock # None
    /\ aside' = [aside EXCEPT ![p] = lock]
    /\ lock' = None
    /\ Goto(p, "verify")
    /\ UNCHANGED <<mine, seen, rounds, crashes, stalled>>

LostRace(p) ==
    /\ pc[p] = "reclaim"
    /\ lock = None
    /\ Finish(p)
    /\ UNCHANGED <<lock, aside, crashes, stalled>>

Unverified_IsInspected(p) == IsComplete(aside[p])

IsInspected(p) == IsComplete(aside[p]) /\ aside[p].token = seen[p]

\* The lock that was inspected: delete it and publish in the next round.
Discard(p) ==
    /\ pc[p] = "verify"
    /\ IsInspected(p)
    /\ aside' = [aside EXCEPT ![p] = None]
    /\ IF rounds[p] + 1 < MaxRounds
       THEN /\ Goto(p, "publish")
            /\ rounds' = [rounds EXCEPT ![p] = @ + 1]
            /\ seen' = [seen EXCEPT ![p] = None]
            /\ UNCHANGED mine
       ELSE Finish(p)
    /\ UNCHANGED <<lock, crashes, stalled>>

NoRestore_Restore(p) ==
    /\ pc[p] = "verify"
    /\ ~IsInspected(p)
    /\ aside' = [aside EXCEPT ![p] = None]
    /\ Finish(p)
    /\ UNCHANGED <<lock, crashes, stalled>>

\* Another lock: put it back if the path is still free.
Restore(p) ==
    /\ pc[p] = "verify"
    /\ ~IsInspected(p)
    /\ lock' = IF lock \in {None, Empty} THEN aside[p] ELSE lock
    /\ aside' = [aside EXCEPT ![p] = None]
    /\ Finish(p)
    /\ UNCHANGED <<crashes, stalled>>

----------------------------------------------------------------------------
(* Holding and releasing.                                                  *)

\* A heartbeat goes into a file named by the token.
Touch(p) ==
    /\ Declares
    /\ pc[p] = "held" /\ Owns(p)
    /\ lock' = [lock EXCEPT !.stale = FALSE]
    /\ UNCHANGED <<aside, pc, mine, seen, rounds, crashes, stalled>>

\* A dead owner's heartbeat ages, and that of a live one that stalls.
GrowStale ==
    /\ Declares
    /\ IsComplete(lock)
    /\ lock.token.owner \in Stalling \/ pc[lock.token.owner] = "dead"
    /\ lock' = [lock EXCEPT !.stale = TRUE]
    /\ stalled' = IF pc[lock.token.owner] = "dead" THEN stalled
                                              ELSE stalled \cup {lock.token.owner}
    /\ UNCHANGED <<aside, pc, mine, seen, rounds, crashes>>

\* The supervised tick of a holder that lost its lock vacates.
StepDown(p) ==
    /\ Declares
    /\ pc[p] = "held" /\ ~Owns(p)
    /\ Finish(p)
    /\ UNCHANGED <<lock, aside, crashes, stalled>>

Blind_Release(p) ==
    /\ pc[p] = "held"
    /\ Goto(p, "unlink")
    /\ UNCHANGED <<lock, aside, mine, seen, rounds, crashes, stalled>>

\* release() re-reads owner.json first.
Release(p) ==
    /\ pc[p] = "held"
    /\ IF Owns(p) THEN Goto(p, "unlink") /\ UNCHANGED <<mine, seen, rounds>>
                  ELSE Finish(p)
    /\ UNCHANGED <<lock, aside, crashes, stalled>>

\* The recursive removal works on the path: first the files in the directory
\* (a heartbeat file may be left when owner.json goes), then the directory.
Unlink(p) ==
    /\ pc[p] = "unlink"
    /\ IF lock = None THEN UNCHANGED lock
       ELSE lock' \in IF Declares THEN {Empty, Husk} ELSE {Empty}
    /\ Goto(p, "rmdir")
    /\ UNCHANGED <<aside, mine, seen, rounds, crashes, stalled>>

Rmdir(p) ==
    /\ pc[p] = "rmdir"
    /\ lock' = IF IsComplete(lock) THEN lock ELSE None
    /\ Finish(p)
    /\ UNCHANGED <<aside, crashes, stalled>>

Crash(p) ==
    /\ pc[p] # "dead"
    /\ crashes < MaxCrashes /\ crashes' = crashes + 1
    /\ Goto(p, "dead")
    /\ aside' = [aside EXCEPT ![p] = None]
    /\ mine' = [mine EXCEPT ![p] = None]
    /\ seen' = [seen EXCEPT ![p] = None]
    /\ rounds' = [rounds EXCEPT ![p] = 0]
    /\ UNCHANGED <<lock, stalled>>

Acquire(p) ==
    \/ Attempt(p) \/ Publish(p) \/ Conflict(p) \/ GiveUp(p) \/ Inspect(p)
    \/ Quarantine(p) \/ LostRace(p) \/ Discard(p) \/ Restore(p)

Next ==
    \/ \E p \in Procs : \/ Acquire(p) \/ Touch(p) \/ StepDown(p)
                        \/ Release(p) \/ Unlink(p) \/ Rmdir(p) \/ Crash(p)
    \/ GrowStale

Spec == Init /\ [][Next]_vars

\* Processes run, somebody keeps asking for the lease, holders tick, and time
\* passes.
Fairness ==
    /\ \A p \in Procs : WF_vars(Acquire(p)) /\ WF_vars(Unlink(p) \/ Rmdir(p))
                      /\ WF_vars(StepDown(p))
    /\ WF_vars(GrowStale /\ lock' # lock)

FairSpec == Spec /\ Fairness

----------------------------------------------------------------------------
(* Properties.                                                             *)

\* While no live owner stalls, at most one live process is in the section its
\* lease guards: one coordinator for a board, one host start or host metadata
\* update of a view at a time.
MutualExclusion ==
    stalled = {} =>
        \A p, q \in Procs : pc[p] = "held" /\ pc[q] = "held" => p = q

\* A reclaim never deletes the lock of a process that lives and kept its
\* heartbeat, whoever else dies or stalls: the lock is checked in quarantine and
\* put back if it is another one than was inspected.
LivingOwnerIsNotReclaimed ==
    [][\A p, q \in Procs :
          (pc[p] = "verify" /\ Discard(p) /\ aside[p].token.owner = q)
              => pc[q] = "dead" \/ q \in stalled]_vars

\* Who lost its lock for good - it is neither at the lock path nor in a quarantine
\* it may still be put back from - never removes a lock and never comes to own one
\* without a new attempt, whoever stalls, dies or publishes: its release finds
\* another token in owner.json and leaves the path alone.
Superseded(p) ==
    /\ pc[p] = "held"
    /\ \A path \in {lock} \cup {aside[q] : q \in Procs} :
          IsComplete(path) => path.token # mine[p]
SupersededLeavesTheLock ==
    [][\A p \in Procs :
          Superseded(p) => \/ Superseded(p)'
                           \/ pc'[p] \in {"idle", "dead"} /\ UNCHANGED lock]_vars

\* A lock whose owner died does not stay in the way, even when its pid looks
\* alive because it was reused: a declared heartbeat grows old.  (A directory that
\* lost its owner.json because its owner died while it removed it has no owner to
\* read: it is not counted here.)
OwnerIsDead == IsComplete(lock) /\ pc[lock.token.owner] = "dead"
DeadLockIsReclaimed == OwnerIsDead ~> ~OwnerIsDead
=============================================================================
