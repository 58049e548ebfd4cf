--------------------------- MODULE OwnedLease_proofs ---------------------------
(***************************************************************************)
(* Theorems about the owner-safe lease: types, that a reclaim deletes only *)
(* the lock of an owner that is dead or stalled and that an owner which    *)
(* lost its lock leaves its successor's alone, for any number of           *)
(* processes, and that the lease is exclusive as long as nobody dies or    *)
(* there are no more than three processes.  A fourth process breaks the    *)
(* last one (see the README).                                              *)
(***************************************************************************)
EXTENDS OwnedLease, TLAPS

----------------------------------------------------------------------------
(* The inductive invariants.                                               *)

Doomed(q) == pc[q] = "dead" \/ q \in stalled
Reclaiming(q) == pc[q] \in {"reclaim", "verify"}
InSection(p) == pc[p] \in {"held", "unlink"}

\* A lock grows stale only under a dead or stalled owner, wherever the lock is by now,
\* and only such an owner's lock is inspected; nobody is dead before the first crash.
ReclaimInvariant ==
    /\ crashes = 0 => \A p \in Procs : pc[p] # "dead"
    /\ IsComplete(lock) /\ lock.stale => Doomed(lock.token.owner)
    /\ \A p \in Procs : IsComplete(aside[p]) /\ aside[p].stale => Doomed(aside[p].token.owner)
    /\ \A p \in Procs : Reclaiming(p) => seen[p] \in Token /\ Doomed(seen[p].owner)

\* Who is in the section its lease guards has its lock at the path, or sees it come
\* back from the one process that took it away, or is alone.
AtPath(p) == IsComplete(lock) /\ lock.token = mine[p]
TakenBy(q, p) ==
    /\ pc[q] = "verify" /\ IsComplete(aside[q]) /\ aside[q].token = mine[p]
    /\ lock = None
Alone(p) == lock = None /\ \A q \in Procs \ {p} : pc[q] = "dead"

SectionInvariant ==
    stalled = {} =>
        \A p \in Procs : InSection(p) =>
            /\ mine[p] \in Token /\ mine[p].owner = p
            /\ AtPath(p) \/ Alone(p) \/ \E q \in Procs : TakenBy(q, p)

\* At most three processes.
FewProcs == \A a, b, c, d \in Procs : a = b \/ a = c \/ a = d \/ b = c \/ b = d \/ c = d

----------------------------------------------------------------------------
LEMMA TypeStep ==
  ASSUME TypeOK, [Next]_vars PROVE TypeOK'
<1> USE LeaseAssumption DEF TypeOK, Path
<1>1. ASSUME NEW p \in Procs, Attempt(p) PROVE TypeOK'
  BY <1>1 DEF Attempt, Goto
<1>2. ASSUME NEW p \in Procs, Publish(p) PROVE TypeOK'
  BY <1>2 DEF Publish, Goto, Lock
<1>3. ASSUME NEW p \in Procs, Conflict(p) PROVE TypeOK'
  BY <1>3 DEF Conflict, Goto
<1>4. ASSUME NEW p \in Procs, GiveUp(p) PROVE TypeOK'
  BY <1>4 DEF GiveUp, Finish, Goto
<1>5. ASSUME NEW p \in Procs, Inspect(p) PROVE TypeOK'
  BY <1>5 DEF Inspect, Goto, Lock, IsComplete, Reclaimable
<1>6. ASSUME NEW p \in Procs, Quarantine(p) PROVE TypeOK'
  BY <1>6 DEF Quarantine, Goto
<1>7. ASSUME NEW p \in Procs, LostRace(p) PROVE TypeOK'
  BY <1>7 DEF LostRace, Finish, Goto
<1>8. ASSUME NEW p \in Procs, Discard(p) PROVE TypeOK'
  BY <1>8 DEF Discard, Finish, Goto
<1>9. ASSUME NEW p \in Procs, Restore(p) PROVE TypeOK'
  BY <1>9 DEF Restore, Finish, Goto
<1>10. ASSUME NEW p \in Procs, Touch(p) PROVE TypeOK'
  BY <1>10 DEF Touch, Goto, Owns, Lock, IsComplete
<1>11. ASSUME NEW p \in Procs, StepDown(p) PROVE TypeOK'
  BY <1>11 DEF StepDown, Finish, Goto
<1>12. ASSUME NEW p \in Procs, Release(p) PROVE TypeOK'
  BY <1>12 DEF Release, Finish, Goto
<1>13. ASSUME NEW p \in Procs, Unlink(p) PROVE TypeOK'
  BY <1>13 DEF Unlink, Goto
<1>14. ASSUME NEW p \in Procs, Rmdir(p) PROVE TypeOK'
  BY <1>14 DEF Rmdir, Finish, Goto
<1>15. ASSUME NEW p \in Procs, Crash(p) PROVE TypeOK'
  BY <1>15 DEF Crash, Goto
<1>16. ASSUME GrowStale PROVE TypeOK'
  BY <1>16 DEF GrowStale, IsComplete, Lock, Token
<1>17. CASE UNCHANGED vars
  BY <1>17 DEF vars
<1> QED
  BY <1>1, <1>2, <1>3, <1>4, <1>5, <1>6, <1>7, <1>8, <1>9, <1>10, <1>11, <1>12, <1>13,
     <1>14, <1>15, <1>16, <1>17
  DEF Next, Acquire

\* The dead stay dead and a stall is remembered.
LEMMA DoomedStays ==
  ASSUME TypeOK, [Next]_vars, NEW q \in Procs, Doomed(q)
  PROVE  Doomed(q)'
<1> USE DEF TypeOK, Doomed
<1>1. ASSUME NEW p \in Procs, Attempt(p) PROVE Doomed(q)'
  BY <1>1 DEF Attempt, Goto
<1>2. ASSUME NEW p \in Procs, Publish(p) PROVE Doomed(q)'
  BY <1>2 DEF Publish, Goto
<1>3. ASSUME NEW p \in Procs, Conflict(p) PROVE Doomed(q)'
  BY <1>3 DEF Conflict, Goto
<1>4. ASSUME NEW p \in Procs, GiveUp(p) PROVE Doomed(q)'
  BY <1>4 DEF GiveUp, Finish, Goto
<1>5. ASSUME NEW p \in Procs, Inspect(p) PROVE Doomed(q)'
  BY <1>5 DEF Inspect, Goto
<1>6. ASSUME NEW p \in Procs, Quarantine(p) PROVE Doomed(q)'
  BY <1>6 DEF Quarantine, Goto
<1>7. ASSUME NEW p \in Procs, LostRace(p) PROVE Doomed(q)'
  BY <1>7 DEF LostRace, Finish, Goto
<1>8. ASSUME NEW p \in Procs, Discard(p) PROVE Doomed(q)'
  BY <1>8 DEF Discard, Finish, Goto
<1>9. ASSUME NEW p \in Procs, Restore(p) PROVE Doomed(q)'
  BY <1>9 DEF Restore, Finish, Goto
<1>10. ASSUME NEW p \in Procs, Touch(p) PROVE Doomed(q)'
  BY <1>10 DEF Touch, Goto
<1>11. ASSUME NEW p \in Procs, StepDown(p) PROVE Doomed(q)'
  BY <1>11 DEF StepDown, Finish, Goto
<1>12. ASSUME NEW p \in Procs, Release(p) PROVE Doomed(q)'
  BY <1>12 DEF Release, Finish, Goto
<1>13. ASSUME NEW p \in Procs, Unlink(p) PROVE Doomed(q)'
  BY <1>13 DEF Unlink, Goto
<1>14. ASSUME NEW p \in Procs, Rmdir(p) PROVE Doomed(q)'
  BY <1>14 DEF Rmdir, Finish, Goto
<1>15. ASSUME NEW p \in Procs, Crash(p) PROVE Doomed(q)'
  BY <1>15 DEF Crash, Goto
<1>16. ASSUME GrowStale PROVE Doomed(q)'
  BY <1>16 DEF GrowStale
<1> QED
  BY <1>1, <1>2, <1>3, <1>4, <1>5, <1>6, <1>7, <1>8, <1>9, <1>10, <1>11, <1>12, <1>13,
     <1>14, <1>15, <1>16
  DEF Next, Acquire, vars

LEMMA ReclaimStep ==
  ASSUME TypeOK, ReclaimInvariant, [Next]_vars
  PROVE  ReclaimInvariant'
<1> USE DEF TypeOK
<1>d. \A q \in Procs : Doomed(q) => Doomed(q)'
  BY DoomedStays
<1>c. \A x \in Path : IsComplete(x) => x \in Lock /\ x.token \in Token /\ x.token.owner \in Procs
  BY DEF Path, IsComplete, Lock, Token
<1>t. \A x \in Token : x.owner \in Procs
  BY DEF Token
<1>1. ASSUME NEW p \in Procs, Attempt(p) PROVE ReclaimInvariant'
  BY <1>1, <1>d, <1>c, <1>t DEF Attempt, Goto, ReclaimInvariant, Reclaiming
<1>2. ASSUME NEW p \in Procs, Publish(p) PROVE ReclaimInvariant'
  BY <1>2, <1>d, <1>c, <1>t
  DEF Publish, Goto, ReclaimInvariant, Reclaiming, IsComplete, Lock
<1>3. ASSUME NEW p \in Procs, Conflict(p) PROVE ReclaimInvariant'
  BY <1>3, <1>d, <1>c, <1>t DEF Conflict, Goto, ReclaimInvariant, Reclaiming
<1>4. ASSUME NEW p \in Procs, GiveUp(p) PROVE ReclaimInvariant'
  BY <1>4, <1>d, <1>c, <1>t DEF GiveUp, Finish, Goto, ReclaimInvariant, Reclaiming
<1>5. ASSUME NEW p \in Procs, Inspect(p) PROVE ReclaimInvariant'
  BY <1>5, <1>d, <1>c, <1>t
  DEF Inspect, Goto, ReclaimInvariant, Reclaiming, Reclaimable, LooksDead, Doomed
<1>6. ASSUME NEW p \in Procs, Quarantine(p) PROVE ReclaimInvariant'
  BY <1>6, <1>d, <1>c, <1>t
  DEF Quarantine, Goto, ReclaimInvariant, Reclaiming, IsComplete
<1>7. ASSUME NEW p \in Procs, LostRace(p) PROVE ReclaimInvariant'
  BY <1>7, <1>d, <1>c, <1>t DEF LostRace, Finish, Goto, ReclaimInvariant, Reclaiming
<1>8. ASSUME NEW p \in Procs, Discard(p) PROVE ReclaimInvariant'
  BY <1>8, <1>d, <1>c, <1>t
  DEF Discard, Finish, Goto, ReclaimInvariant, Reclaiming, IsComplete
<1>9. ASSUME NEW p \in Procs, Restore(p) PROVE ReclaimInvariant'
  BY <1>9, <1>d, <1>c, <1>t
  DEF Restore, Finish, Goto, ReclaimInvariant, Reclaiming, IsComplete
<1>10. ASSUME NEW p \in Procs, Touch(p) PROVE ReclaimInvariant'
  BY <1>10, <1>d, <1>c, <1>t DEF Touch, Goto, Owns, ReclaimInvariant, Reclaiming, Lock
<1>11. ASSUME NEW p \in Procs, StepDown(p) PROVE ReclaimInvariant'
  BY <1>11, <1>d, <1>c, <1>t DEF StepDown, Finish, Goto, ReclaimInvariant, Reclaiming
<1>12. ASSUME NEW p \in Procs, Release(p) PROVE ReclaimInvariant'
  BY <1>12, <1>d, <1>c, <1>t DEF Release, Finish, Goto, ReclaimInvariant, Reclaiming
<1>13. ASSUME NEW p \in Procs, Unlink(p) PROVE ReclaimInvariant'
  BY <1>13, <1>d, <1>c, <1>t
  DEF Unlink, Goto, ReclaimInvariant, Reclaiming, IsComplete
<1>14. ASSUME NEW p \in Procs, Rmdir(p) PROVE ReclaimInvariant'
  BY <1>14, <1>d, <1>c, <1>t
  DEF Rmdir, Finish, Goto, ReclaimInvariant, Reclaiming, IsComplete
<1>15. ASSUME NEW p \in Procs, Crash(p) PROVE ReclaimInvariant'
  BY <1>15, <1>d, <1>c, <1>t DEF Crash, Goto, ReclaimInvariant, Reclaiming, IsComplete
<1>16. ASSUME GrowStale PROVE ReclaimInvariant'
  BY <1>16, <1>d, <1>c, <1>t DEF GrowStale, ReclaimInvariant, Reclaiming, Doomed
<1>17. CASE UNCHANGED vars
  BY <1>17 DEF vars, ReclaimInvariant, Reclaiming, Doomed
<1> QED
  BY <1>1, <1>2, <1>3, <1>4, <1>5, <1>6, <1>7, <1>8, <1>9, <1>10, <1>11, <1>12, <1>13,
     <1>14, <1>15, <1>16, <1>17
  DEF Next, Acquire

LEMMA ReclaimInvariance == Spec => [](TypeOK /\ ReclaimInvariant)
<1>1. Init => TypeOK /\ ReclaimInvariant
  BY LeaseAssumption DEF Init, TypeOK, Path, ReclaimInvariant, IsComplete, Reclaiming
<1>2. TypeOK /\ ReclaimInvariant /\ [Next]_vars => (TypeOK /\ ReclaimInvariant)'
  BY TypeStep, ReclaimStep
<1> QED
  BY <1>1, <1>2, PTL DEF Spec

\* Whatever the processes do, the lock path, the quarantines and the tokens have
\* their types.
THEOREM TypeCorrect == Spec => []TypeOK
  BY ReclaimInvariance, PTL

\* A reclaim deletes only the lock of a process that is dead or missed its heartbeats,
\* for any number of processes that die, stall and reclaim from each other
\* (quarantineAndVerify: the token in quarantine is the one that was inspected).
THEOREM LivingOwnersKeepTheirLock == Spec => LivingOwnerIsNotReclaimed
<1>1. ASSUME TypeOK, ReclaimInvariant, [Next]_vars, NEW p \in Procs, NEW q \in Procs,
             pc[p] = "verify", Discard(p), aside[p].token.owner = q
      PROVE  pc[q] = "dead" \/ q \in stalled
  BY <1>1 DEF ReclaimInvariant, Reclaiming, Doomed, Discard, IsInspected
<1>2. TypeOK /\ ReclaimInvariant /\ [Next]_vars =>
        [\A p, q \in Procs :
            (pc[p] = "verify" /\ Discard(p) /\ aside[p].token.owner = q)
                => pc[q] = "dead" \/ q \in stalled]_vars
  BY <1>1
<1> QED
  BY <1>2, ReclaimInvariance, PTL DEF Spec, LivingOwnerIsNotReclaimed

----------------------------------------------------------------------------
(* Exclusion, as long as nobody dies or there are at most three processes. *)

\* Reclaiming takes a dead owner, so that of three processes only one other lives.
LEMMA OneOtherLives ==
  ASSUME MaxCrashes = 0 \/ FewProcs, TypeOK, ReclaimInvariant, stalled = {},
         NEW q \in Procs, Reclaiming(q),
         NEW p \in Procs \ {q}, NEW r \in Procs \ {q}, pc[p] # "dead", pc[r] # "dead"
  PROVE  p = r
<1>1. seen[q] \in Token /\ pc[seen[q].owner] = "dead" /\ seen[q].owner \in Procs
  BY DEF ReclaimInvariant, Doomed, Token
<1>2. pc[q] # "dead"
  BY DEF Reclaiming
<1>3. FewProcs
  BY <1>1, LeaseAssumption DEF ReclaimInvariant, TypeOK
<1> QED
  BY <1>1, <1>2, <1>3 DEF FewProcs

LEMMA SectionIsExclusive ==
  ASSUME MaxCrashes = 0 \/ FewProcs, TypeOK, ReclaimInvariant, SectionInvariant, stalled = {},
         NEW p \in Procs, NEW s \in Procs, InSection(p), InSection(s)
  PROVE  p = s
<1>1. ~IsComplete(None)
  BY DEF IsComplete
<1>2. \A r \in Procs : InSection(r) => /\ mine[r].owner = r
                                       /\ AtPath(r) \/ Alone(r) \/ \E q \in Procs : TakenBy(q, r)
  BY DEF SectionInvariant
<1>3. CASE Alone(p) \/ Alone(s)
  BY <1>3 DEF Alone, InSection
<1>4. CASE AtPath(p) /\ AtPath(s)
  BY <1>2, <1>4 DEF AtPath
<1>5. ASSUME NEW q \in Procs, TakenBy(q, p), TakenBy(q, s) \/ \E r \in Procs : TakenBy(r, s)
      PROVE  p = s
  BY <1>5, OneOtherLives DEF TakenBy, InSection, Reclaiming
<1> QED
  BY <1>1, <1>2, <1>3, <1>4, <1>5 DEF AtPath, TakenBy

LEMMA SectionStep ==
  ASSUME MaxCrashes = 0 \/ FewProcs, TypeOK, ReclaimInvariant, SectionInvariant, [Next]_vars
  PROVE  SectionInvariant'
<1> DEFINE Fine(r) == /\ mine[r] \in Token /\ mine[r].owner = r
                      /\ AtPath(r) \/ Alone(r) \/ \E q \in Procs : TakenBy(q, r)
<1>1. stalled \subseteq stalled'
  BY
  DEF Next, Acquire, vars, Attempt, Publish, Conflict, GiveUp, Inspect, Quarantine,
      LostRace, Discard, Restore, Touch, StepDown, Release, Unlink, Rmdir, Crash,
      GrowStale
<1> SUFFICES ASSUME stalled' = {}, NEW s \in Procs, InSection(s)'
             PROVE  Fine(s)'
  BY DEF SectionInvariant
<1>2. stalled = {} /\ (InSection(s) => Fine(s))
  BY <1>1 DEF SectionInvariant
<1>3. ~IsComplete(None) /\ ~IsComplete(Empty)
  BY DEF IsComplete
<1> HIDE DEF Fine
<1> USE DEF TypeOK, Goto
<1>4. ASSUME NEW p \in Procs, Attempt(p) \/ Conflict(p) \/ Inspect(p) PROVE Fine(s)'
  <2>1. s # p /\ InSection(s)
    BY <1>4 DEF Attempt, Conflict, Inspect, InSection
  <2>2. Fine(s)
    BY <1>2, <2>1
  <2> QED
    BY <1>4, <2>1, <2>2 DEF Attempt, Conflict, Inspect, Fine, AtPath, Alone, TakenBy
<1>5. ASSUME NEW p \in Procs, GiveUp(p) \/ LostRace(p) \/ StepDown(p) PROVE Fine(s)'
  <2>1. s # p /\ InSection(s)
    BY <1>5 DEF GiveUp, LostRace, StepDown, Finish, InSection
  <2>2. Fine(s)
    BY <1>2, <2>1
  <2> QED
    BY <1>5, <2>1, <2>2
    DEF GiveUp, LostRace, StepDown, Finish, Fine, AtPath, Alone, TakenBy
<1>6. ASSUME NEW p \in Procs, Publish(p) PROVE Fine(s)'
  <2>1. CASE s = p
    <3>1. PICK token \in Token : /\ token.owner = p
                                 /\ lock' = [token |-> token, stale |-> FALSE]
                                 /\ mine' = [mine EXCEPT ![p] = token]
      BY <1>6 DEF Publish, FreshToken
    <3>2. lock' \in Lock /\ lock'.token = token /\ mine'[p] = token
      BY <3>1 DEF Lock
    <3>3. IsComplete(lock)'
      BY <3>2, PathAssumption DEF IsComplete
    <3> QED
      BY <2>1, <3>1, <3>2, <3>3 DEF Fine, AtPath
  <2>2. CASE s # p
    <3>1. InSection(s) /\ pc[p] = "publish" /\ ~IsComplete(lock)
      BY <1>3, <1>6, <2>2 DEF Publish, InSection
    <3>2. Fine(s) /\ ~AtPath(s) /\ ~Alone(s)
      BY <1>2, <2>2, <3>1 DEF AtPath, Alone
    <3>3. PICK q \in Procs : TakenBy(q, s)
      BY <3>2 DEF Fine
    <3> QED
      BY <1>2, <2>2, <3>1, <3>3, OneOtherLives DEF TakenBy, Reclaiming, InSection
  <2> QED
    BY <2>1, <2>2
<1>7. ASSUME NEW p \in Procs, Quarantine(p) PROVE Fine(s)'
  <2>1. s # p /\ InSection(s) /\ pc[p] = "reclaim" /\ lock # None
    BY <1>7 DEF Quarantine, InSection
  <2>2. Fine(s) /\ AtPath(s)
    BY <1>2, <2>1 DEF Fine, Alone, TakenBy
  <2>3. TakenBy(p, s)'
    BY <1>7, <2>1, <2>2 DEF Quarantine, AtPath, TakenBy
  <2> QED
    BY <1>7, <2>2, <2>3 DEF Quarantine, Fine
<1>8. ASSUME NEW p \in Procs, Discard(p) PROVE Fine(s)'
  <2>1. s # p /\ InSection(s) /\ pc[p] = "verify" /\ mine'[s] = mine[s] /\ UNCHANGED lock
    BY <1>8 DEF Discard, Finish, InSection
  <2>2. Fine(s) /\ ~Alone(s)
    BY <1>2, <2>1 DEF Alone
  <2>3. ASSUME NEW q \in Procs, TakenBy(q, s) PROVE FALSE
    <3>1. CASE q = p
      BY <1>2, <1>8, <2>1, <2>2, <2>3, <3>1
      DEF Discard, IsInspected, TakenBy, Fine, ReclaimInvariant, Reclaiming, Doomed,
          InSection
    <3>2. CASE q # p
      BY <1>2, <2>1, <2>3, <3>2, OneOtherLives DEF TakenBy, Reclaiming, InSection
    <3> QED
      BY <3>1, <3>2
  <2> QED
    BY <2>1, <2>2, <2>3 DEF Fine, AtPath
<1>9. ASSUME NEW p \in Procs, Restore(p) PROVE Fine(s)'
  <2>1. s # p /\ InSection(s) /\ pc[p] = "verify" /\ mine'[s] = mine[s]
    BY <1>9 DEF Restore, Finish, InSection
  <2>2. Fine(s) /\ ~Alone(s)
    BY <1>2, <2>1 DEF Alone
  <2>3. CASE AtPath(s)
    BY <1>3, <1>9, <2>1, <2>2, <2>3 DEF Restore, Fine, AtPath
  <2>4. ASSUME NEW q \in Procs, TakenBy(q, s) PROVE AtPath(s)'
    <3>1. q = p
      BY <1>2, <2>1, <2>4, OneOtherLives DEF TakenBy, Reclaiming, InSection
    <3> QED
      BY <1>9, <2>1, <2>4, <3>1 DEF Restore, TakenBy, AtPath
  <2> QED
    BY <2>1, <2>2, <2>3, <2>4 DEF Fine
<1>10. ASSUME NEW p \in Procs, Touch(p) PROVE Fine(s)'
  <2>1. InSection(s) /\ IsComplete(lock)
    BY <1>10 DEF Touch, Owns, InSection
  <2>2. Fine(s) /\ AtPath(s)
    BY <1>2, <1>3, <2>1 DEF Fine, Alone, TakenBy
  <2>3. lock \in Lock /\ lock' = [lock EXCEPT !.stale = FALSE]
    BY <1>10, <2>1 DEF Touch, IsComplete, Path
  <2>4. lock' \in Lock /\ lock'.token = lock.token
    BY <2>3 DEF Lock
  <2>5. IsComplete(lock)'
    BY <2>4, PathAssumption DEF IsComplete
  <2> QED
    BY <1>10, <2>2, <2>4, <2>5 DEF Touch, Fine, AtPath
<1>11. ASSUME NEW p \in Procs, Release(p) PROVE Fine(s)'
  <2>1. InSection(s) /\ pc[p] = "held" /\ mine'[s] = mine[s] /\ UNCHANGED <<lock, aside>>
    BY <1>11 DEF Release, Finish, InSection
  <2>2. Fine(s) /\ (s # p => ~Alone(s))
    BY <1>2, <2>1 DEF Alone
  <2>3. \A q \in Procs \ {p} : pc'[q] = pc[q]
    BY <1>11 DEF Release, Finish
  <2>4. \A q \in Procs : TakenBy(q, s) => TakenBy(q, s)'
    BY <2>1, <2>3 DEF TakenBy
  <2>5. Alone(s) => Alone(s)'
    BY <2>1, <2>2, <2>3 DEF Alone
  <2> QED
    BY <2>1, <2>2, <2>4, <2>5 DEF Fine, AtPath
<1>12. ASSUME NEW p \in Procs, Unlink(p) PROVE Fine(s)'
  <2>1. s # p /\ InSection(s) /\ InSection(p)
    BY <1>12 DEF Unlink, InSection
  <2> QED
    BY <1>2, <2>1, SectionIsExclusive
<1>13. ASSUME NEW p \in Procs, Rmdir(p) PROVE Fine(s)'
  <2>1. s # p /\ InSection(s) /\ pc[p] = "rmdir" /\ mine'[s] = mine[s] /\ UNCHANGED aside
    BY <1>13 DEF Rmdir, Finish, InSection
  <2>2. Fine(s) /\ ~Alone(s)
    BY <1>2, <2>1 DEF Alone
  <2>3. \A q \in Procs : pc[q] = "verify" => pc'[q] = "verify"
    BY <1>13 DEF Rmdir, Finish
  <2>4. lock' = IF IsComplete(lock) THEN lock ELSE None
    BY <1>13 DEF Rmdir
  <2> QED
    BY <1>3, <2>1, <2>2, <2>3, <2>4 DEF Fine, AtPath, TakenBy
<1>14. ASSUME NEW p \in Procs, Crash(p) PROVE Fine(s)'
  <2>1. s # p /\ InSection(s) /\ pc[p] # "dead" /\ mine'[s] = mine[s] /\ UNCHANGED lock
    BY <1>14 DEF Crash, InSection
  <2>2. Fine(s) /\ ~Alone(s)
    BY <1>2, <2>1 DEF Alone
  <2>3. ASSUME NEW q \in Procs, TakenBy(q, s) PROVE Alone(s)'
    <3>1. q = p
      BY <1>2, <2>1, <2>3, OneOtherLives DEF TakenBy, Reclaiming, InSection
    <3>2. \A r \in Procs \ {p, s} : pc[r] = "dead"
      BY <1>2, <2>1, <2>3, <3>1, OneOtherLives DEF TakenBy, Reclaiming, InSection
    <3> QED
      BY <1>14, <2>1, <2>3, <3>2 DEF Crash, TakenBy, Alone
  <2> QED
    BY <2>1, <2>2, <2>3 DEF Fine, AtPath
<1>15. ASSUME GrowStale PROVE Fine(s)'
  <2>1. InSection(s) /\ IsComplete(lock)
    BY <1>15 DEF GrowStale, InSection
  <2>2. Fine(s) /\ AtPath(s)
    BY <1>2, <1>3, <2>1 DEF Fine, Alone, TakenBy
  <2>3. lock \in Lock /\ lock' = [lock EXCEPT !.stale = TRUE]
    BY <1>15, <2>1 DEF GrowStale, IsComplete, Path
  <2>4. lock' \in Lock /\ lock'.token = lock.token
    BY <2>3 DEF Lock
  <2>5. IsComplete(lock)'
    BY <2>4, PathAssumption DEF IsComplete
  <2> QED
    BY <1>15, <2>2, <2>4, <2>5 DEF GrowStale, Fine, AtPath
<1>16. CASE UNCHANGED vars
  BY <1>2, <1>16 DEF vars, InSection, Fine, AtPath, Alone, TakenBy
<1> QED
  BY <1>4, <1>5, <1>6, <1>7, <1>8, <1>9, <1>10, <1>11, <1>12, <1>13, <1>14, <1>15, <1>16
  DEF Next, Acquire

LEMMA SectionInvariance ==
  ASSUME MaxCrashes = 0 \/ FewProcs
  PROVE  Spec => [](TypeOK /\ ReclaimInvariant /\ SectionInvariant)
<1>1. Init => SectionInvariant
  BY DEF Init, SectionInvariant, InSection
<1>2. TypeOK /\ ReclaimInvariant /\ SectionInvariant /\ [Next]_vars => SectionInvariant'
  BY SectionStep
<1> QED
  BY <1>1, <1>2, ReclaimInvariance, PTL DEF Spec

\* While no live owner stalls, at most one process is in the section its lease guards:
\* for any number of processes as long as none dies, and for three whoever dies and
\* reclaims (acquireOwnedViewLock, quarantineAndVerify).
THEOREM HeldByOne ==
  ASSUME MaxCrashes = 0 \/ FewProcs
  PROVE  Spec => []MutualExclusion
<1>1. TypeOK /\ ReclaimInvariant /\ SectionInvariant => MutualExclusion
  BY SectionIsExclusive DEF MutualExclusion, InSection
<1> QED
  BY <1>1, SectionInvariance, PTL

----------------------------------------------------------------------------
(* Owners that lost their lock for good.                                   *)

\* A step leaves a superseded owner superseded, or ends its lease and leaves the path
\* alone: no path gets a token but a fresh one, the one it had or another path's.
LEMMA SupersededStep ==
  ASSUME TypeOK, Next, NEW p \in Procs, Superseded(p)
  PROVE  Superseded(p)' \/ (pc'[p] \in {"idle", "dead"} /\ UNCHANGED lock)
<1> DEFINE Elsewhere(path) == IsComplete(path) => path.token # mine[p]
           Ended == pc'[p] \in {"idle", "dead"} /\ UNCHANGED lock
<1>1. pc[p] = "held" /\ pc \in [Procs -> {"idle", "publish", "inspect", "reclaim", "verify",
                                          "held", "unlink", "rmdir", "dead"}]
                     /\ aside \in [Procs -> Path] /\ mine \in [Procs -> Token \cup {None}]
  BY DEF Superseded, TypeOK
<1>2. Elsewhere(lock) /\ \A q \in Procs : Elsewhere(aside[q])
  BY DEF Superseded
<1>3. ~Owns(p)
  BY <1>2 DEF Owns
<1>4. SUFFICES ASSUME ~Ended
               PROVE  /\ pc'[p] = "held" /\ mine'[p] = mine[p]
                      /\ Elsewhere(lock') /\ \A q \in Procs : Elsewhere(aside'[q])
  BY DEF Superseded, IsComplete
<1>5. IsComplete(None) = FALSE
  BY DEF IsComplete
<1> HIDE DEF Elsewhere
<1>6. Elsewhere(None)
  BY <1>5 DEF Elsewhere
<1>7. \A q \in Procs : q = p \/ (\A l : Goto(q, l) => pc'[p] = pc[p])
  BY <1>1 DEF Goto
<1>8. ASSUME NEW q \in Procs, Attempt(q) \/ Conflict(q) \/ Inspect(q)
      PROVE  /\ pc'[p] = "held" /\ mine'[p] = mine[p]
             /\ Elsewhere(lock') /\ \A r \in Procs : Elsewhere(aside'[r])
  BY <1>1, <1>2, <1>8 DEF Attempt, Conflict, Inspect, Goto
<1>9. ASSUME NEW q \in Procs, Publish(q)
      PROVE  /\ pc'[p] = "held" /\ mine'[p] = mine[p]
             /\ Elsewhere(lock') /\ \A r \in Procs : Elsewhere(aside'[r])
  <2>1. PICK token \in Token : /\ FreshToken(q, token)
                               /\ lock' = [token |-> token, stale |-> FALSE]
                               /\ mine' = [mine EXCEPT ![q] = token]
    BY <1>9 DEF Publish
  <2>2. token # mine[p] /\ lock'.token = token
    BY <2>1 DEF FreshToken, InSight
  <2>3. q # p
    BY <1>1, <1>9 DEF Publish
  <2> QED
    BY <1>1, <1>2, <1>9, <2>1, <2>2, <2>3 DEF Publish, Goto, Elsewhere
<1>10. ASSUME NEW q \in Procs, GiveUp(q) \/ LostRace(q)
      PROVE  /\ pc'[p] = "held" /\ mine'[p] = mine[p]
             /\ Elsewhere(lock') /\ \A r \in Procs : Elsewhere(aside'[r])
  BY <1>1, <1>2, <1>10 DEF GiveUp, LostRace, Finish, Goto
<1>11. ASSUME NEW q \in Procs, Quarantine(q)
      PROVE  /\ pc'[p] = "held" /\ mine'[p] = mine[p]
             /\ Elsewhere(lock') /\ \A r \in Procs : Elsewhere(aside'[r])
  BY <1>1, <1>2, <1>6, <1>11 DEF Quarantine, Goto
<1>12. ASSUME NEW q \in Procs, Discard(q)
      PROVE  /\ pc'[p] = "held" /\ mine'[p] = mine[p]
             /\ Elsewhere(lock') /\ \A r \in Procs : Elsewhere(aside'[r])
  BY <1>1, <1>2, <1>6, <1>12 DEF Discard, Finish, Goto
<1>13. ASSUME NEW q \in Procs, Restore(q)
      PROVE  /\ pc'[p] = "held" /\ mine'[p] = mine[p]
             /\ Elsewhere(lock') /\ \A r \in Procs : Elsewhere(aside'[r])
  BY <1>1, <1>2, <1>6, <1>13 DEF Restore, Finish, Goto
<1>14. ASSUME Touch(p) PROVE FALSE
  BY <1>3, <1>14 DEF Touch
<1>15. ASSUME NEW q \in Procs, Touch(q)
      PROVE  /\ pc'[p] = "held" /\ mine'[p] = mine[p]
             /\ Elsewhere(lock') /\ \A r \in Procs : Elsewhere(aside'[r])
  <2>1. IsComplete(lock) /\ lock \in Lock /\ lock' = [lock EXCEPT !.stale = FALSE]
    BY <1>15 DEF Touch, Owns, IsComplete, TypeOK, Path
  <2>2. lock'.token = lock.token
    BY <2>1 DEF Lock
  <2> QED
    BY <1>1, <1>2, <1>15, <2>1, <2>2 DEF Touch, Elsewhere
<1>16. ASSUME GrowStale
      PROVE  /\ pc'[p] = "held" /\ mine'[p] = mine[p]
             /\ Elsewhere(lock') /\ \A r \in Procs : Elsewhere(aside'[r])
  <2>1. IsComplete(lock) /\ lock \in Lock /\ lock' = [lock EXCEPT !.stale = TRUE]
    BY <1>16 DEF GrowStale, IsComplete, TypeOK, Path
  <2>2. lock'.token = lock.token
    BY <2>1 DEF Lock
  <2> QED
    BY <1>1, <1>2, <1>16, <2>1, <2>2 DEF GrowStale, Elsewhere
<1>17. ASSUME NEW q \in Procs, StepDown(q) \/ Release(q) \/ Crash(q), q = p PROVE Ended
  BY <1>1, <1>3, <1>17 DEF StepDown, Release, Crash, Finish, Goto
<1>18. ASSUME NEW q \in Procs, StepDown(q) \/ Release(q) \/ Crash(q), q # p
      PROVE  /\ pc'[p] = "held" /\ mine'[p] = mine[p]
             /\ Elsewhere(lock') /\ \A r \in Procs : Elsewhere(aside'[r])
  BY <1>1, <1>2, <1>6, <1>18 DEF StepDown, Release, Crash, Finish, Goto
<1>19. ASSUME NEW q \in Procs, Unlink(q)
      PROVE  /\ pc'[p] = "held" /\ mine'[p] = mine[p]
             /\ Elsewhere(lock') /\ \A r \in Procs : Elsewhere(aside'[r])
  <2>1. Elsewhere(Empty) /\ Elsewhere(Husk)
    BY DEF Elsewhere, IsComplete
  <2>2. lock' \in {lock, Empty, Husk}
    BY <1>19 DEF Unlink
  <2> QED
    BY <1>1, <1>2, <1>19, <2>1, <2>2 DEF Unlink, Goto
<1>20. ASSUME NEW q \in Procs, Rmdir(q)
      PROVE  /\ pc'[p] = "held" /\ mine'[p] = mine[p]
             /\ Elsewhere(lock') /\ \A r \in Procs : Elsewhere(aside'[r])
  BY <1>1, <1>2, <1>6, <1>20 DEF Rmdir, Finish, Goto
<1> QED
  BY <1>4, <1>8, <1>9, <1>10, <1>11, <1>12, <1>13, <1>15, <1>16, <1>17, <1>18, <1>19, <1>20
  DEF Next, Acquire

\* Who lost its lock for good never removes a lock and never owns one without a new
\* attempt, for any number of processes, whoever stalls or dies (makeLease's release()
\* re-reads owner.json before it removes the directory).
THEOREM SupersededKeepsOff == Spec => SupersededLeavesTheLock
<1>1. TypeOK /\ [Next]_vars =>
        [\A p \in Procs :
            Superseded(p) => \/ Superseded(p)'
                             \/ pc'[p] \in {"idle", "dead"} /\ UNCHANGED lock]_vars
  BY SupersededStep
<1> QED
  BY <1>1, TypeCorrect, PTL DEF Spec, SupersededLeavesTheLock
=============================================================================
