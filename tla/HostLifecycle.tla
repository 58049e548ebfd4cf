---------------------------- MODULE HostLifecycle ----------------------------
(***************************************************************************)
(* The PTY host of one view: the record host.json that boards and runners  *)
(* share, the board's transactions on it (claim and launch, adoption of a  *)
(* claim nobody spawned, revocation, recovery: src/runtime/service.mjs)    *)
(* and the runner process (ownedMain of runner/pty-runner.mjs): it takes   *)
(* the host-start lease, binds the endpoint of its instance, publishes     *)
(* itself, starts the agent as its child, publishes ready, and finishes    *)
(* once, whatever ends it.                                                 *)
(*                                                                         *)
(* A write of the record goes to the instance its writer believes in and   *)
(* is refused on any other (updateOwnedHost).  The host-start lease is     *)
(* exclusive and a dead holder's can be taken: see OwnedLease.  How long   *)
(* anything takes is left open, so every grace period may be over at any   *)
(* time; process identities are exact, or unreadable.  Hosts without an    *)
(* instance id, a runner's terminal model and its clients are left out.    *)
(***************************************************************************)
EXTENDS Naturals, FiniteSets

CONSTANTS
    Boards,         \* processes that start, attach to and stop hosts
    Runners,        \* runner processes; the agent of a runner has its name
    None,
    MaxInstances,   \* bound: how many hosts are claimed
    MaxBoardDeaths, \* bound: how many boards die in a transaction
    MaxRunnerDeaths,\* bound: how many runners are killed or throw
    MaxFaults       \* bound: contended writes and unreadable identities

Instances == 1..MaxInstances

ASSUME HostAssumption ==
    /\ MaxInstances \in Nat /\ MaxBoardDeaths \in Nat /\ MaxRunnerDeaths \in Nat
    /\ MaxFaults \in Nat
    /\ Boards \cap Runners = {} /\ None \notin Boards \cup Runners

VARIABLES
    host,       \* host.json
    lease,      \* the holder of the host-start lease
    endpoint,   \* who bound the endpoint of an instance, dead or alive
    board,      \* where each board stands, and the instance it is at
    runner,     \* where each runner stands
    agent,      \* the child of each runner
    term,       \* runners and agents with a SIGTERM on its way
    deaths, faults

vars == <<host, lease, endpoint, board, runner, agent, term, deaths, faults>>

Active == {"starting", "alive", "stopping"}
Terminal == {"exited", "failed"}

Record ==
    [inst : 0..MaxInstances, state : Active \cup Terminal, spawned : BOOLEAN,
     runner : Runners \cup {None}, agent : Runners \cup {None},
     ready : BOOLEAN, stop : BOOLEAN]

Board == [pc : {"idle", "lock", "claim", "spawn", "record", "gate", "revoke", "watch", "reclaim",
                "replace", "dead"},
          inst : 0..MaxInstances, made : Runners \cup {None}]

Runner == [pc : {"unborn", "boot", "bind", "publish", "start", "ready", "serve", "gone"},
           fin : {"no", "kill", "reap"},
           inst : 0..MaxInstances, claimed : BOOLEAN,
           why : {"none", "owner_lost", "failed", "stopped"}]

TypeOK ==
    /\ host \in Record
    /\ lease \in Boards \cup Runners \cup {None}
    /\ endpoint \in [Instances -> Runners \cup {None}]
    /\ board \in [Boards -> Board]
    /\ runner \in [Runners -> Runner]
    /\ agent \in [Runners -> {"none", "runs", "gone"}]
    /\ term \subseteq Runners
    /\ deaths \in [boards : 0..MaxBoardDeaths, runners : 0..MaxRunnerDeaths]
    /\ faults \in 0..MaxFaults

NoHost == [inst |-> 0, state |-> "exited", spawned |-> FALSE, runner |-> None,
           agent |-> None, ready |-> FALSE, stop |-> FALSE]

Init ==
    /\ host = NoHost
    /\ lease = None
    /\ endpoint = [i \in Instances |-> None]
    /\ board = [b \in Boards |-> [pc |-> "idle", inst |-> 0, made |-> None]]
    /\ runner = [r \in Runners |-> [pc |-> "unborn", fin |-> "no", inst |-> 0,
                                    claimed |-> FALSE, why |-> "none"]]
    /\ agent = [r \in Runners |-> "none"]
    /\ term = {}
    /\ deaths = [boards |-> 0, runners |-> 0]
    /\ faults = 0

----------------------------------------------------------------------------
(* The record and the lease.                                               *)

Dead(p) == IF p \in Runners THEN runner[p].pc = "gone"
           ELSE p # None => board[p].pc = "dead"

LeaseFree == Dead(lease)
DropLease(p) == lease' = IF lease = p THEN None ELSE lease

\* A write that only the record of instance i accepts.  It also fails when
\* the metadata lock stays contended.
Write(i, record) == host.inst = i /\ host' = record /\ UNCHANGED faults
Miss(i) ==
    /\ UNCHANGED host
    /\ \/ host.inst # i /\ UNCHANGED faults
       \/ host.inst = i /\ faults < MaxFaults /\ faults' = faults + 1
TryWrite(i, record) == Write(i, record) \/ Miss(i)

FreshClaim(i) == [NoHost EXCEPT !.inst = i, !.state = "starting"]

\* A process the record names: never started, dead, or still this one.
RunnerEnded == Dead(host.runner)
AgentEnded == host.agent # None => agent[host.agent] # "runs"

Replaceable == host.state \in Terminal /\ RunnerEnded /\ AgentEnded

----------------------------------------------------------------------------
(* The board's transactions.                                               *)

At(b, pc, inst) == board' = [board EXCEPT ![b] = [pc |-> pc, inst |-> inst, made |-> None]]
Leave(b) == At(b, "idle", 0)
BoardOnly == UNCHANGED <<endpoint, runner, agent, term, deaths>>

\* launchHost and ensureHost: for a view without an active host, under the
\* lease.
Launch(b) ==
    /\ board[b].pc = "idle"
    /\ host.state \in Terminal /\ host.inst < MaxInstances
    /\ At(b, "lock", 0)
    /\ UNCHANGED <<host, lease, faults>> /\ BoardOnly

LockStart(b) ==
    /\ board[b].pc = "lock"
    /\ IF LeaseFree THEN lease' = b /\ At(b, "claim", 0) ELSE UNCHANGED lease /\ Leave(b)
    /\ UNCHANGED <<host, faults>> /\ BoardOnly

ClaimHost(b) ==
    /\ board[b].pc = "claim"
    /\ \/ /\ Replaceable /\ host.inst < MaxInstances
          /\ host' = FreshClaim(host.inst + 1)
          /\ At(b, "spawn", host.inst + 1)
          /\ UNCHANGED <<lease, faults>>
       \/ /\ ~Replaceable \/ host.inst = MaxInstances
          /\ Leave(b) /\ DropLease(b)
          /\ UNCHANGED <<host, faults>>
       \/ /\ Miss(host.inst)
          /\ Leave(b) /\ DropLease(b)
    /\ BoardOnly

\* An abandoned claim is taken over: its launcher is dead or overdue.
Adopt(b) ==
    /\ board[b].pc = "idle"
    /\ LeaseFree
    /\ host.inst # 0 /\ host.state = "starting" /\ ~host.spawned
    /\ lease' = b
    /\ At(b, "spawn", host.inst)
    /\ UNCHANGED <<host, faults>> /\ BoardOnly

SpawnRunner(b) ==
    /\ board[b].pc = "spawn"
    /\ \E r \in Runners :
        /\ runner[r].pc = "unborn"
        /\ runner' = [runner EXCEPT ![r].pc = "boot", ![r].inst = board[b].inst]
        /\ board' = [board EXCEPT ![b].pc = "record", ![b].made = r]
    /\ UNCHANGED <<host, lease, endpoint, agent, term, deaths, faults>>

SpawnFails(b) ==
    /\ board[b].pc = "spawn"
    /\ TryWrite(board[b].inst, [host EXCEPT !.state = "failed"])
    /\ Leave(b) /\ DropLease(b)
    /\ BoardOnly

RecordRunner(b) ==
    /\ board[b].pc = "record"
    /\ TryWrite(board[b].inst, [host EXCEPT !.runner = board[b].made, !.spawned = TRUE])
    /\ Leave(b) /\ DropLease(b)
    /\ BoardOnly

\* requestHostStop: an ended or stopping host is left as it is.
StopRequested ==
    IF host.state \in {"starting", "alive"}
    THEN [host EXCEPT !.state = "stopping", !.stop = TRUE] ELSE host

\* A user stops the host, or the warm pool is pruned.
RequestHostStop(b) ==
    /\ board[b].pc = "idle"
    /\ host.inst # 0 /\ host.state \in {"starting", "alive"}
    /\ TryWrite(host.inst, StopRequested)
    /\ UNCHANGED <<lease, board>> /\ BoardOnly

\* The attach resolver gives up on a host whose endpoint does not answer as
\* ready, or finds one that was to stop and whose processes are gone.  A claim
\* without a runner is recovered only if something is at its endpoint.
Suspect(b) ==
    /\ board[b].pc = "idle"
    /\ host.inst # 0 /\ host.state \in Active
    /\ host.state = "stopping" => RunnerEnded /\ AgentEnded
    /\ host.state = "starting" /\ ~host.spawned => endpoint[host.inst] # None
    /\ At(b, "gate", host.inst)
    /\ UNCHANGED <<host, lease, faults>> /\ BoardOnly

Gate(b) ==
    /\ board[b].pc = "gate"
    /\ IF LeaseFree /\ host.inst = board[b].inst /\ host.state \in Active
       THEN At(b, "revoke", host.inst) ELSE Leave(b)
    /\ UNCHANGED <<host, lease, faults>> /\ BoardOnly

Revoke(b) ==
    /\ board[b].pc = "revoke"
    /\ TryWrite(board[b].inst, StopRequested)
    /\ At(b, "watch", board[b].inst)
    /\ UNCHANGED lease /\ BoardOnly

Watching(b) == board[b].pc = "watch" /\ host.inst = board[b].inst

\* SIGTERM, then SIGKILL, and the agent only after its runner.
SignalRunner(b) ==
    /\ Watching(b) /\ ~RunnerEnded
    /\ \/ /\ host.runner \notin term
          /\ term' = term \cup {host.runner}
          /\ UNCHANGED runner
       \/ /\ host.runner \in term
          /\ runner' = [runner EXCEPT ![host.runner].pc = "gone"]
          /\ UNCHANGED term
    /\ UNCHANGED <<host, lease, endpoint, board, agent, deaths, faults>>

SignalAgent(b) ==
    /\ Watching(b) /\ RunnerEnded /\ ~AgentEnded
    /\ agent' = [agent EXCEPT ![host.agent] = "gone"]
    /\ UNCHANGED <<host, lease, endpoint, board, runner, term, deaths, faults>>

\* Recovery waits for nobody.
NoWait_BothEnded(b) ==
    /\ Watching(b)
    /\ At(b, "reclaim", board[b].inst)
    /\ UNCHANGED <<host, lease, faults>> /\ BoardOnly

BothEnded(b) ==
    /\ Watching(b) /\ RunnerEnded /\ AgentEnded
    /\ At(b, "reclaim", board[b].inst)
    /\ UNCHANGED <<host, lease, faults>> /\ BoardOnly

\* The record moved on, an identity cannot be read, or the lease stays busy.
GiveUp(b) ==
    /\ board[b].pc \in {"watch", "reclaim"}
    /\ \/ host.inst # board[b].inst /\ UNCHANGED faults
       \/ board[b].pc = "reclaim" /\ ~LeaseFree /\ UNCHANGED faults
       \/ board[b].pc = "watch" /\ faults < MaxFaults /\ faults' = faults + 1
    /\ Leave(b)
    /\ UNCHANGED <<host, lease>> /\ BoardOnly

FinalizeOld(b) ==
    /\ board[b].pc = "reclaim" /\ host.inst = board[b].inst /\ LeaseFree
    /\ \/ /\ Write(host.inst, [host EXCEPT !.state = "exited", !.spawned = FALSE,
                                           !.runner = None, !.agent = None])
          /\ lease' = b
          /\ At(b, "replace", host.inst)
       \/ Miss(host.inst) /\ Leave(b) /\ lease' = None
    /\ BoardOnly

\* Spawning is left to whoever adopts the claim.
ClaimReplacement(b) ==
    /\ board[b].pc = "replace"
    /\ \/ /\ host.state \in Terminal /\ host.inst < MaxInstances
          /\ host' = FreshClaim(host.inst + 1)
          /\ UNCHANGED faults
       \/ /\ host.state \in Active \/ host.inst = MaxInstances
          /\ UNCHANGED <<host, faults>>
       \/ Miss(host.inst)
    /\ Leave(b) /\ DropLease(b)
    /\ BoardOnly

BoardDies(b) ==
    /\ board[b].pc \notin {"idle", "dead"}
    /\ deaths.boards < MaxBoardDeaths
    /\ deaths' = [deaths EXCEPT !.boards = @ + 1]
    /\ At(b, "dead", 0)
    /\ UNCHANGED <<host, lease, endpoint, runner, agent, term, faults>>

----------------------------------------------------------------------------
(* The runner.  Its main flow and its finish run side by side.             *)

Step(r, pc) == [runner EXCEPT ![r].pc = pc]
Exit(r) == Step(r, "gone")
Is(r, pc) == runner[r].pc = pc
Owner(r) == host.inst = runner[r].inst

\* The lease and the decision whether this runner is still wanted.
TakeLease(r) ==
    /\ Is(r, "boot") /\ LeaseFree
    /\ IF Owner(r) /\ host.state \in {"starting", "alive"} /\ ~host.stop
       THEN lease' = r /\ runner' = Step(r, "bind")
       ELSE lease' = None /\ runner' = Exit(r)
    /\ UNCHANGED <<host, endpoint, board, agent, term, deaths, faults>>

LeaseTimeout(r) ==
    /\ Is(r, "boot") /\ ~LeaseFree
    /\ runner' = Exit(r)
    /\ UNCHANGED <<host, lease, endpoint, board, agent, term, deaths, faults>>

\* A runner unlinks what is in its way before it listens.
Unlinking_Bind(r) ==
    /\ Is(r, "bind")
    /\ endpoint' = [endpoint EXCEPT ![runner[r].inst] = r]
    /\ runner' = Step(r, "publish")
    /\ UNCHANGED <<host, lease, board, agent, term, deaths, faults>>

\* An occupied endpoint, even a dead one's, ends a runner that owns nothing.
Bind(r) ==
    /\ Is(r, "bind")
    /\ IF endpoint[runner[r].inst] = None
       THEN /\ endpoint' = [endpoint EXCEPT ![runner[r].inst] = r]
            /\ runner' = Step(r, "publish")
            /\ UNCHANGED lease
       ELSE /\ runner' = Exit(r)
            /\ DropLease(r)
            /\ UNCHANGED endpoint
    /\ UNCHANGED <<host, board, agent, term, deaths, faults>>

Stopping == [host EXCEPT !.state = "stopping"]

\* The synchronous part of finishHost: once, with a write only by a runner
\* that published itself, and the server closed with its endpoint.
MayWrite(r, why) == runner[r].claimed /\ why # "owner_lost"
Finishing(r, why) == [runner EXCEPT ![r].fin = "kill", ![r].why = why]
Unbound(r) == [i \in Instances |-> IF endpoint[i] = r THEN None ELSE endpoint[i]]
Finish(r, why, record) ==
    /\ runner[r].fin = "no"
    /\ runner' = Finishing(r, why)
    /\ endpoint' = Unbound(r)
    /\ IF MayWrite(r, why) THEN TryWrite(runner[r].inst, record)
       ELSE UNCHANGED <<host, faults>>
\* The runner publishes the record it read when it started.
Stale_Published(r) ==
    [host EXCEPT !.runner = r, !.spawned = TRUE, !.stop = FALSE,
                 !.state = IF @ = "alive" THEN "alive" ELSE "starting"]

Published(r) ==
    [host EXCEPT !.runner = r, !.spawned = TRUE,
                 !.state = IF @ = "alive" THEN "alive" ELSE "starting"]
PublishRunner(r) ==
    /\ Is(r, "publish")
    /\ \/ /\ Write(runner[r].inst, Published(r))
          /\ runner' = [runner EXCEPT ![r].pc = "start", ![r].claimed = TRUE]
          /\ UNCHANGED endpoint
       \/ /\ runner[r].fin # "no"
          /\ Miss(runner[r].inst)
          /\ runner' = Step(r, "ready")
          /\ UNCHANGED endpoint
       \/ /\ runner[r].fin = "no"
          /\ Miss(runner[r].inst)
          /\ runner' = [Finishing(r, "owner_lost") EXCEPT ![r].pc = "ready"]
          /\ endpoint' = Unbound(r)
    /\ UNCHANGED <<lease, board, agent, term, deaths>>

StartAgent(r) ==
    /\ Is(r, "start")
    /\ agent' = [agent EXCEPT ![r] = "runs"]
    /\ runner' = Step(r, "ready")
    /\ UNCHANGED <<host, lease, endpoint, board, term, deaths, faults>>

StartFails(r) ==
    /\ Is(r, "start") /\ runner[r].fin = "no"
    /\ TryWrite(runner[r].inst, Stopping)
    /\ runner' = [Finishing(r, "failed") EXCEPT ![r].pc = "ready"]
    /\ endpoint' = Unbound(r)
    /\ UNCHANGED <<lease, board, agent, term, deaths>>

PublishReady(r) ==
    /\ Is(r, "ready") /\ runner[r].fin = "no" /\ agent[r] = "runs"
    /\ \/ /\ Write(runner[r].inst, [host EXCEPT !.state = "alive", !.ready = TRUE, !.agent = r])
          /\ runner' = Step(r, "serve")
          /\ DropLease(r)
          /\ UNCHANGED endpoint
       \/ /\ Miss(runner[r].inst)
          /\ runner' = Finishing(r, IF host.stop THEN "stopped" ELSE "owner_lost")
          /\ endpoint' = Unbound(r)
          /\ UNCHANGED lease
    /\ UNCHANGED <<board, agent, term, deaths>>

\* The heartbeat only asks whether the record is still its own.
OwnerOnly_Heartbeat(r) ==
    /\ Is(r, "serve")
    /\ ~Owner(r) /\ Finish(r, "owner_lost", host)
    /\ UNCHANGED <<lease, board, agent, term, deaths>>

\* The heartbeat sees the record of another instance, or a stop request.
Heartbeat(r) ==
    /\ Is(r, "serve")
    /\ \/ ~Owner(r) /\ Finish(r, "owner_lost", host)
       \/ Owner(r) /\ host.stop /\ Finish(r, "stopped", Stopping)
    /\ UNCHANGED <<lease, board, agent, term, deaths>>

AgentExits(r) ==
    /\ agent[r] = "runs"
    /\ agent' = [agent EXCEPT ![r] = "gone"]
    /\ UNCHANGED <<host, lease, endpoint, board, runner, term, deaths, faults>>

NoticeExit(r) ==
    /\ runner[r].pc \in {"ready", "serve"} /\ agent[r] = "gone"
    /\ Finish(r, "stopped", Stopping)
    /\ UNCHANGED <<lease, board, agent, term, deaths>>

OnSignal(r) ==
    /\ r \in term /\ runner[r].pc \in {"publish", "ready", "serve"}
    /\ Finish(r, "stopped", Stopping)
    /\ UNCHANGED <<lease, board, agent, term, deaths>>

\* An exception nobody caught: the record says failed, and then, if the
\* runner has published itself, stopping.
Throw(r) ==
    /\ runner[r].pc \in {"publish", "ready", "serve"} /\ runner[r].fin = "no"
    /\ deaths.runners < MaxRunnerDeaths
    /\ deaths' = [deaths EXCEPT !.runners = @ + 1]
    /\ runner' = Finishing(r, "failed")
    /\ endpoint' = Unbound(r)
    /\ TryWrite(runner[r].inst,
                [host EXCEPT !.state = IF runner[r].claimed THEN "stopping" ELSE "failed"])
    /\ UNCHANGED <<lease, board, agent, term>>

\* SIGTERM, four seconds, SIGKILL.
KillAgent(r) ==
    /\ runner[r].pc # "gone" /\ agent[r] = "runs"
    /\ \/ /\ runner[r].fin = "kill"
          /\ runner' = [runner EXCEPT ![r].fin = "reap"]
          /\ UNCHANGED agent
       \/ /\ runner[r].fin = "reap"
          /\ agent' = [agent EXCEPT ![r] = "gone"]
          /\ UNCHANGED runner
    /\ UNCHANGED <<host, lease, endpoint, board, term, deaths, faults>>

Conclude(r) ==
    /\ runner[r].pc \notin {"start", "gone"} /\ runner[r].fin # "no" /\ agent[r] # "runs"
    /\ IF MayWrite(r, runner[r].why)
       THEN TryWrite(runner[r].inst,
                     [host EXCEPT !.state = IF runner[r].why = "failed" THEN "failed" ELSE "exited",
                                  !.ready = FALSE, !.stop = FALSE])
       ELSE UNCHANGED <<host, faults>>
    /\ runner' = Exit(r)
    /\ DropLease(r)
    /\ UNCHANGED <<endpoint, board, agent, term, deaths>>

RunnerDies(r) ==
    /\ runner[r].pc \notin {"unborn", "gone"}
    /\ deaths.runners < MaxRunnerDeaths
    /\ deaths' = [deaths EXCEPT !.runners = @ + 1]
    /\ runner' = Exit(r)
    /\ UNCHANGED <<host, lease, endpoint, board, agent, term, faults>>

----------------------------------------------------------------------------
Transaction(b) ==
    \/ LockStart(b) \/ ClaimHost(b) \/ SpawnRunner(b) \/ SpawnFails(b) \/ RecordRunner(b)
    \/ Gate(b) \/ Revoke(b) \/ SignalRunner(b) \/ SignalAgent(b) \/ BothEnded(b)
    \/ GiveUp(b) \/ FinalizeOld(b) \/ ClaimReplacement(b)

Run(r) ==
    \/ TakeLease(r) \/ LeaseTimeout(r) \/ Bind(r) \/ PublishRunner(r)
    \/ StartAgent(r) \/ StartFails(r) \/ PublishReady(r) \/ Heartbeat(r)
    \/ NoticeExit(r) \/ OnSignal(r) \/ KillAgent(r) \/ Conclude(r)

Next ==
    \/ \E b \in Boards :
        \/ Launch(b) \/ Adopt(b) \/ RequestHostStop(b) \/ Suspect(b)
        \/ Transaction(b) \/ BoardDies(b)
    \/ \E r \in Runners : Run(r) \/ AgentExits(r) \/ Throw(r) \/ RunnerDies(r)

Spec == Init /\ [][Next]_vars

\* Processes run, an agent does not outlive the terminal of its dead runner,
\* and a user who wants the view keeps attaching to it.
HangUp(r) == runner[r].pc = "gone" /\ AgentExits(r)
Attach(b) == Adopt(b) \/ Suspect(b)
FairSpec ==
    /\ Spec
    /\ \A b \in Boards : WF_vars(Transaction(b))
    /\ \A r \in Runners : WF_vars(Run(r)) /\ WF_vars(HangUp(r))
    /\ WF_vars(\E b \in Boards : Attach(b))

----------------------------------------------------------------------------
\* The agent of r runs and r means to keep it.
Keeps(r) == agent[r] = "runs" /\ runner[r].pc # "gone" /\ runner[r].fin = "no"

\* No two runners keep an agent on the view's session file, whether they are
\* runners of two instances (a host was replaced) or of one (a claim was
\* adopted although its first runner was on its way).
OneAgent == \A r, s \in Runners : Keeps(r) /\ Keeps(s) => r = s

\* A runner that serves is the one behind the endpoint of its instance: a
\* duplicate that failed to bind, or that finishes, does not take it away.
Served == \A r \in Runners :
    runner[r].pc = "serve" /\ runner[r].fin = "no" => endpoint[runner[r].inst] = r

\* A new instance is claimed only when no runner keeps an agent of the old one
\* ("only after runner and child are both confirmed ended", recoverHost).
ReplacedWhenEnded ==
    [][host'.inst # host.inst =>
        \A r \in Runners : runner[r].inst = host.inst => ~Keeps(r)]_host

\* A request to stop a host stays in its record until the host is over,
\* whatever the runner writes about itself meanwhile.
RevokeSticks ==
    [][host.stop /\ host'.inst = host.inst => host'.stop \/ host'.state \in Terminal]_host

\* Whatever dies, while somebody keeps attaching the view comes back to rest:
\* a ready host that nobody asked to stop, or none.
AlwaysSettles == []<>(host.state \in Terminal \/ (host.ready /\ ~host.stop))

=============================================================================
