------------------------ MODULE StateCoordinator_proofs ------------------------
(***************************************************************************)
(* Theorems about the View State Coordinator, for every set of views,      *)
(* runs, coordinators and commands: its types and the monotonic files, and *)
(* while no live holder is overtaken, that acknowledged revisions are on   *)
(* disk, that no revision is issued twice, that a user's verdict stands,   *)
(* that a command keeps its reply, that the coordinator implements the     *)
(* board that applies each command at once, and that files are paired.     *)
(***************************************************************************)
EXTENDS StateCoordinator, SequenceTheorems, FiniteSetTheorems, TLAPS

----------------------------------------------------------------------------
(* Decisions: every one carries a well-formed patch.                       *)

DecisionType ==
    [action : {"apply", "reject"}, reason : Reasons, row : RowPatch,
     status : StatusPatch \cup {NoPatch}]

\* What a decision relies on of a command that validateCommand accepted.
WellFormed(cmd) == cmd.kind \in Kinds /\ cmd.run \in RunRef /\ ValidCommand(cmd)

\* A rejection patches nothing.
LEMMA RejectType ==
    ASSUME NEW reason \in Reasons
    PROVE  Reject(reason) \in DecisionType
BY DEF Reject, DecisionType, KeepRow, RowPatch

\* An application carries the patches it is given.
LEMMA ApplyType ==
    ASSUME NEW p \in RowPatch, NEW q \in StatusPatch \cup {NoPatch}
    PROVE  Apply(p, q) \in DecisionType
BY DEF Apply, DecisionType, Reasons

\* diffFields yields a sparse patch.
LEMMA DiffRowType ==
    ASSUME NEW a \in Row, NEW b \in Row
    PROVE  DiffRow(a, b) \in RowPatch
BY DEF DiffRow, Changed, Row, RowPatch

\* The same for a status; against a missing status the patch is the status.
LEMMA DiffStatusType ==
    ASSUME NEW a \in Status \cup {Absent}, NEW b \in Status
    PROVE  DiffStatus(a, b) \in StatusPatch
BY DEF DiffStatus, Changed, Status, StatusPatch

\* Classifying keeps rows and statuses well formed.
LEMMA AutoStateType ==
    ASSUME NEW cls \in Classification
    PROVE  /\ \A row \in Row : ApplyAutoStateToViewState(row, cls) \in Row
           /\ \A st \in Status : ApplyAutoStateToStatus(st, cls) \in Status
<1>1. SemanticStateForAutoKind(cls.kind) \in SemanticState
  BY DEF SemanticStateForAutoKind, SemanticState, Classification, AutoKind
<1>2. cls \in AutoRef
  BY DEF AutoRef
<1>3. ASSUME NEW row \in Row PROVE ApplyAutoStateToViewState(row, cls) \in Row
  BY <1>1, <1>2 DEF ApplyAutoStateToViewState, Row
<1>4. ASSUME NEW st \in Status PROVE ApplyAutoStateToStatus(st, cls) \in Status
  BY <1>1, <1>2 DEF ApplyAutoStateToStatus, Status
<1> QED BY <1>3, <1>4

\* A finished status and the row projected from a status are well formed.
LEMMA ProjectionType ==
    /\ \A st \in Status, run \in RunRef, facts \in Payload("run_finalized") :
          FinalizeRun(st, run, facts) \in Status
    /\ \A st \in Status, run \in RunRef, row \in Row :
          ProjectViewState(st, run, row) \in Row
<1>1. ASSUME NEW st \in Status, NEW run \in RunRef, NEW facts \in Payload("run_finalized")
      PROVE  FinalizeRun(st, run, facts) \in Status
  <2>1. facts.asks \in BOOLEAN
    BY DEF Payload
  <2>2. (facts.asks \/ st.asks) \in BOOLEAN
    OBVIOUS
  <2>3. FinalizeSemanticState(facts, facts.asks \/ st.asks) \in SemanticState
    BY DEF FinalizeSemanticState, SemanticState
  <2> QED BY <2>2, <2>3 DEF FinalizeRun, Status, ProcessState
<1>2. ASSUME NEW st \in Status, NEW run \in RunRef, NEW row \in Row
      PROVE  ProjectViewState(st, run, row) \in Row
  BY DEF ProjectViewState, Status, Row
<1> QED BY <1>1, <1>2

\* The run a command is bound to is a run or none.
LEMMA StatusRunType ==
    ASSUME NEW cmd, WellFormed(cmd), NEW row \in Row
    PROVE  StatusRun(cmd, row) \in RunRef
<1>1. cmd.run \in RunRef /\ row.run \in RunRef
  BY DEF WellFormed, Row
<1>2. cmd.kind = "followup_started" => cmd.payload.newRunId \in RunRef
  BY DEF WellFormed, ValidCommand, Payload, RunRef
<1> QED BY <1>1, <1>2 DEF StatusRun

\* Every decision carries well-formed patches.
LEMMA DecisionTyped ==
    ASSUME NEW cmd, WellFormed(cmd), NEW row \in Row, NEW rev,
           NEW st \in Status \cup {Absent}
    PROVE  DecideStateTransition(cmd, row, rev, st) \in DecisionType
<1> DEFINE Good(d) == d \in DecisionType
<1>p. cmd.payload \in Payload(cmd.kind) /\ cmd.kind \in Kinds /\ cmd.run \in RunRef
  BY DEF WellFormed, ValidCommand
<1>n. None \in RunRef /\ None \in AutoRef
  BY DEF RunRef, AutoRef
<1>c. ClearAutoState \in StatusPatch
  BY <1>n DEF ClearAutoState, KeepStatus, StatusPatch
<1>v. \A sem \in SemanticState : Verdict(sem) \in RowPatch
  BY <1>n DEF Verdict, KeepRow, RowPatch, ProcessState
<1>r. \A run \in RunRef : [row EXCEPT !.run = run] \in Row
  BY DEF Row
<1>1. ASSUME cmd.kind = "mark_completed" PROVE Good(DecideMarkCompleted(row))
  BY <1>c, <1>v, RejectType, ApplyType DEF DecideMarkCompleted, Reasons, SemanticState
<1>2. ASSUME cmd.kind = "mark_holding" PROVE Good(DecideMarkHolding(cmd, row))
  BY <1>c, <1>v, RejectType, ApplyType DEF DecideMarkHolding, Reasons, SemanticState
<1>3. ASSUME cmd.kind = "clear_holding" PROVE Good(DecideClearHolding(cmd, row))
  BY <1>c, <1>v, RejectType, ApplyType DEF DecideClearHolding, Reasons, SemanticState
<1>4. ASSUME cmd.kind = "auto_state_classified" PROVE Good(DecideAutoState(cmd, row, st))
  <2>1. cmd.payload.classification \in Classification
    BY <1>4, <1>p DEF Payload
  <2> DEFINE newRow == ApplyAutoStateToViewState(row, cmd.payload.classification)
             newStatus == IF st = Absent THEN Absent
                          ELSE ApplyAutoStateToStatus(st, cmd.payload.classification)
  <2>2. newRow \in Row /\ newStatus \in Status \cup {Absent}
    BY <2>1, AutoStateType
  <2>3. DiffRow(row, newRow) \in RowPatch
    BY <2>2, DiffRowType
  <2>4. newStatus # st => DiffStatus(st, newStatus) \in StatusPatch
    <3>1. newStatus # st => newStatus \in Status
      BY <2>1, AutoStateType
    <3> QED BY <3>1, DiffStatusType
  <2>5. Good(Reject("no_change"))
    BY RejectType DEF Reasons
  <2>6. Good(Apply(DiffRow(row, newRow),
                   IF newStatus = st THEN NoPatch ELSE DiffStatus(st, newStatus)))
    BY <2>3, <2>4, ApplyType
  <2> QED BY <2>5, <2>6 DEF DecideAutoState
<1>5. ASSUME cmd.kind = "run_finalized" PROVE Good(DecideRunFinalized(cmd, row, st))
  <2>1. Good(Reject("stale_run"))
    BY RejectType DEF Reasons
  <2>2. CASE st = Absent
    BY <2>1, <2>2 DEF DecideRunFinalized
  <2>3. CASE st # Absent
    <3> DEFINE final == FinalizeRun(st, cmd.run, cmd.payload)
    <3>1. final \in Status
      BY <1>5, <1>p, <2>3, ProjectionType
    <3>2. ProjectViewState(final, cmd.run, row) \in Row
      BY <3>1, <1>p, ProjectionType
    <3>3. Good(Apply(DiffRow(row, ProjectViewState(final, cmd.run, row)), DiffStatus(st, final)))
      BY <3>1, <3>2, DiffRowType, DiffStatusType, ApplyType
    <3> QED BY <2>1, <3>3 DEF DecideRunFinalized
  <2> QED BY <2>2, <2>3
<1>6. ASSUME cmd.kind = "mark_queued" PROVE Good(DecideMarkQueued(cmd))
  <2>1. cmd.payload.runId \in RunRef
    BY <1>6, <1>p DEF Payload
  <2>2. [sem |-> "queued", proc |-> "alive", run |-> cmd.payload.runId,
         auto |-> None, note |-> None] \in RowPatch
    BY <2>1, <1>n DEF RowPatch, SemanticState, ProcessState
  <2> QED BY <2>2, ApplyType DEF DecideMarkQueued
<1>7. ASSUME cmd.kind = "run_started" PROVE Good(DecideRunStarted(cmd, row, st))
  <2>1. cmd.payload.status \in Status
    BY <1>7, <1>p DEF Payload
  <2>2. [KeepRow EXCEPT !.sem = "working", !.proc = "alive", !.run = cmd.run] \in RowPatch
    BY <1>p DEF KeepRow, RowPatch, SemanticState, ProcessState
  <2>3. DiffStatus(st, cmd.payload.status) \in StatusPatch
    BY <2>1, DiffStatusType
  <2> QED BY <2>2, <2>3, RejectType, ApplyType DEF DecideRunStarted, Reasons
<1>8. ASSUME cmd.kind = "run_progress" PROVE Good(DecideRunProgress(cmd, row, st))
  <2>1. cmd.payload.status \in Status
    BY <1>8, <1>p DEF Payload
  <2>2. DiffRow(row, ProjectViewState(cmd.payload.status, cmd.run, row)) \in RowPatch
    BY <2>1, <1>p, ProjectionType, DiffRowType
  <2>3. DiffStatus(st, cmd.payload.status) \in StatusPatch
    BY <2>1, DiffStatusType
  <2> QED BY <2>2, <2>3, RejectType, ApplyType DEF DecideRunProgress, Reasons
<1>9. ASSUME cmd.kind = "followup_started" PROVE Good(DecideFollowupStarted(cmd, row, st))
  <2>1. cmd.payload.status \in Status /\ cmd.payload.newRunId \in RunRef
    BY <1>9, <1>p DEF Payload, RunRef
  <2> DEFINE diff == DiffRow(row, ProjectViewState(cmd.payload.status, cmd.payload.newRunId, row))
  <2>2. diff \in RowPatch
    BY <2>1, ProjectionType, DiffRowType
  <2>3. [diff EXCEPT !.run = cmd.payload.newRunId, !.proc = "alive"] \in RowPatch
    BY <2>1, <2>2 DEF RowPatch, ProcessState
  <2>4. DiffStatus(st, cmd.payload.status) \in StatusPatch
    BY <2>1, DiffStatusType
  <2> QED BY <2>3, <2>4, ApplyType DEF DecideFollowupStarted
<1>10. ASSUME cmd.kind = "reconcile_finalize" PROVE Good(DecideReconcileFinalize(cmd, row, st))
  <2>1. cmd.payload.sem \in SemanticState
    BY <1>10, <1>p DEF Payload, SemanticState
  <2>2. Good(Reject("no_change")) /\ Good(Reject("stale_run"))
    BY RejectType DEF Reasons
  <2>3. ASSUME st # Absent
        PROVE  Good(Apply(DiffRow(row, ProjectViewState(st, StatusRun(cmd, row), row)), NoPatch))
    <3>1. ProjectViewState(st, StatusRun(cmd, row), row) \in Row
      BY <2>3, StatusRunType, ProjectionType
    <3> QED BY <3>1, DiffRowType, ApplyType
  <2> DEFINE newRow == [row EXCEPT !.sem = cmd.payload.sem, !.proc = "exited", !.note = None]
             newStatus == [st EXCEPT !.sem = cmd.payload.sem, !.proc = "exited", !.ended = TRUE]
  <2>4. newRow \in Row
    BY <2>1, <1>n DEF Row, ProcessState
  <2>5. st # Absent => newStatus \in Status
    BY <2>1 DEF Status, ProcessState
  <2>6. DiffRow(row, newRow) \in RowPatch
    BY <2>4, DiffRowType
  <2>7. st # Absent => DiffStatus(st, newStatus) \in StatusPatch
    BY <2>5, DiffStatusType
  <2>8. Good(Apply(DiffRow(row, newRow),
                   IF st = Absent THEN NoPatch ELSE DiffStatus(st, newStatus)))
    BY <2>6, <2>7, ApplyType
  <2> QED BY <2>2, <2>3, <2>8 DEF DecideReconcileFinalize
<1>11. ASSUME cmd.kind = "host_run_failed" PROVE Good(DecideHostRunFailed(st))
  <2>1. [KeepRow EXCEPT !.sem = "failed", !.proc = "exited", !.note = None] \in RowPatch
    BY <1>n DEF KeepRow, RowPatch, SemanticState, ProcessState
  <2>2. [KeepStatus EXCEPT !.sem = "failed", !.proc = "exited"] \in StatusPatch
    BY DEF KeepStatus, StatusPatch, SemanticState, ProcessState
  <2> QED BY <2>1, <2>2, ApplyType DEF DecideHostRunFailed
<1>12. ASSUME cmd.kind = "archive_view" PROVE Good(DecideArchiveView)
  <2>1. [Verdict("stopped") EXCEPT !.note = None] \in RowPatch
    BY <1>v, <1>n DEF RowPatch, SemanticState
  <2> QED BY <2>1, ApplyType DEF DecideArchiveView
<1>13. ASSUME cmd.kind = "adopt_session" PROVE Good(DecideAdoptSession(row))
  <2>1. [KeepRow EXCEPT !.sem = "idle", !.proc = "exited", !.note = None] \in RowPatch
    BY <1>n DEF KeepRow, RowPatch, SemanticState, ProcessState
  <2> QED BY <2>1, RejectType, ApplyType DEF DecideAdoptSession, Reasons
<1>14. ASSUME cmd.kind = "sync_foreground" PROVE Good(DecideSyncForeground(cmd, row))
  <2>1. cmd.payload.projection \in Row
    BY <1>14, <1>p DEF Payload
  <2>2. [cmd.payload.projection EXCEPT !.run = None] \in Row
    BY <2>1, <1>n DEF Row
  <2> QED BY <2>2, DiffRowType, ApplyType DEF DecideSyncForeground
<1>15. ASSUME cmd.kind = "plan_ready" PROVE Good(DecidePlanReady(cmd, row))
  <2>1. cmd.payload.runId \in RunRef
    BY <1>15, <1>p DEF Payload, RunRef
  <2>2. [KeepRow EXCEPT !.sem = "needs_input", !.proc = "exited",
                        !.run = cmd.payload.runId, !.note = None] \in RowPatch
    BY <2>1, <1>n DEF KeepRow, RowPatch, SemanticState, ProcessState
  <2> QED BY <2>2, RejectType, ApplyType DEF DecidePlanReady, Reasons
<1>16. ASSUME cmd.kind = "patch_fields" PROVE Good(DecidePatchFields(cmd, row, st))
  <2>1. cmd.payload.note \in RunRef
    BY <1>16, <1>p DEF Payload
  <2> DEFINE newRow == IF "summary" \in cmd.payload.state
                       THEN [row EXCEPT !.note = cmd.payload.note] ELSE row
             newStatus == IF st # Absent /\ "summary" \in cmd.payload.status
                          THEN [st EXCEPT !.note = cmd.payload.note] ELSE st
             bound == st # Absent /\ cmd.payload.status # {}
  <2>2. newRow \in Row
    BY <2>1 DEF Row
  <2>3. bound => newStatus \in Status
    BY <2>1 DEF Status
  <2>4. DiffRow(row, newRow) \in RowPatch
    BY <2>2, DiffRowType
  <2>5. bound => DiffStatus(st, newStatus) \in StatusPatch
    BY <2>3, DiffStatusType
  <2>6. Good(Apply(DiffRow(row, newRow), IF bound THEN DiffStatus(st, newStatus) ELSE NoPatch))
    BY <2>4, <2>5, ApplyType
  <2>7. Good(Reject("field_not_allowed")) /\ Good(Reject("no_change"))
    BY RejectType DEF Reasons
  <2> QED BY <2>6, <2>7 DEF DecidePatchFields
<1>17. Good(DecideKind(cmd, row, st))
  BY <1>p, <1>1, <1>2, <1>3, <1>4, <1>5, <1>6, <1>7, <1>8, <1>9, <1>10, <1>11, <1>12,
     <1>13, <1>14, <1>15, <1>16 DEF DecideKind, Kinds
<1>18. Good(Reject("revision_conflict")) /\ Good(Reject("stale_run")) /\ Good(Reject("manual_fence"))
  BY RejectType DEF Reasons
<1> QED BY <1>17, <1>18 DEF DecideStateTransition
----------------------------------------------------------------------------
(* Materialization.                                                        *)

\* Merging a sparse patch keeps a row well formed.
LEMMA MergeRowType ==
    ASSUME NEW row \in Row, NEW patch \in RowPatch
    PROVE  MergeRow(row, patch) \in Row
BY DEF MergeRow, Patched, Row, RowPatch

\* Merging a sparse patch keeps a status well formed.
LEMMA MergeStatusType ==
    ASSUME NEW st \in Status, NEW patch \in StatusPatch
    PROVE  MergeStatus(st, patch) \in Status
BY DEF MergeStatus, Patched, Status, StatusPatch

\* undefined is not a value of any field.
LEMMA KeepIsNoValue ==
    Keep \notin SemanticState \cup ProcessState \cup BOOLEAN \cup RunRef \cup AutoRef
BY RunsAssumption, KeepAssumption DEF RunRef, AutoRef

\* Merging what diffFields found gives the row it was taken to.
LEMMA MergeDiffRow ==
    ASSUME NEW a \in Row, NEW b \in Row
    PROVE  MergeRow(a, DiffRow(a, b)) = b
<1>1. \A x, y : y # Keep => Patched(x, Changed(x, y)) = y
  BY DEF Patched, Changed
<1>2. b.sem # Keep /\ b.proc # Keep /\ b.run # Keep /\ b.auto # Keep /\ b.note # Keep
  BY KeepIsNoValue DEF Row
<1>3. MergeRow(a, DiffRow(a, b)) =
        [sem |-> b.sem, proc |-> b.proc, run |-> b.run, auto |-> b.auto, note |-> b.note]
  BY <1>1, <1>2 DEF MergeRow, DiffRow
<1> QED BY <1>3 DEF Row

\* The same for a status, and for the status a bootstrap creates.
LEMMA MergeDiffStatus ==
    ASSUME NEW b \in Status
    PROVE  /\ \A a \in Status : MergeStatus(a, DiffStatus(a, b)) = b
           /\ MergeStatus(BlankStatus, DiffStatus(Absent, b)) = b
<1>1. \A x, y : y # Keep => Patched(x, Changed(x, y)) = y /\ Patched(x, y) = y
  BY DEF Patched, Changed
<1>2. /\ b.sem # Keep /\ b.proc # Keep /\ b.auto # Keep /\ b.note # Keep
      /\ b.ended # Keep /\ b.asks # Keep
  BY KeepIsNoValue DEF Status
<1>3. b = [sem |-> b.sem, proc |-> b.proc, auto |-> b.auto, ended |-> b.ended,
           asks |-> b.asks, note |-> b.note]
  BY DEF Status
<1>4. ASSUME NEW a \in Status PROVE MergeStatus(a, DiffStatus(a, b)) = b
  <2>1. a # Absent
    BY AbsentAssumption
  <2> QED BY <1>1, <1>2, <1>3, <2>1 DEF MergeStatus, DiffStatus
<1>5. MergeStatus(BlankStatus, DiffStatus(Absent, b)) = b
  BY <1>1, <1>2, <1>3 DEF MergeStatus, DiffStatus
<1> QED BY <1>4, <1>5

\* A stamped state.json is well formed, not older than before, and not older
\* than the revision it was stamped with.
LEMMA StampStateType ==
    ASSUME NEW file \in StateFile, NEW patch \in RowPatch, NEW rev \in Nat
    PROVE  /\ StampState(file, patch, rev) \in StateFile
           /\ StampState(file, patch, rev).rev >= file.rev
           /\ StampState(file, patch, rev).rev >= rev
           /\ StampState(file, patch, rev).rev \in {file.rev, rev}
<1>1. file.row \in Row /\ file.rev \in Nat
  BY DEF StateFile
<1>2. MergeRow(file.row, patch) \in Row
  BY <1>1, MergeRowType
<1> QED BY <1>1, <1>2 DEF StampState, StateFile

\* The status a bootstrap starts from is well formed.
LEMMA BlankStatusType == BlankStatus \in Status
BY DEF BlankStatus, Status, SemanticState, ProcessState, AutoRef, RunRef

\* A stamped status.json is well formed and not older than before.
LEMMA StampStatusType ==
    ASSUME NEW file \in StatusFile, NEW kind, NEW patch \in StatusPatch \cup {NoPatch},
           NEW rev \in Nat
    PROVE  /\ StampStatus(file, kind, patch, rev) \in StatusFile
           /\ StampStatus(file, kind, patch, rev).rev >= file.rev
<1>0. file.st = Absent <=> file = NoStatus
  BY AbsentAssumption DEF StatusFile, NoStatus
<1>1. file.st \in Status \cup {Absent} /\ file.rev \in Nat
  BY DEF StatusFile, NoStatus
<1>2. CASE patch # NoPatch /\ file.st = Absent
  <2>1. MergeStatus(BlankStatus, patch) \in Status
    BY <1>2, BlankStatusType, MergeStatusType
  <2>2. file.rev = 0
    BY <1>0, <1>2 DEF NoStatus
  <2> QED BY <1>2, <2>1, <2>2 DEF StampStatus, StatusFile
<1>3. CASE ~(patch # NoPatch /\ file.st = Absent)
  <2>1. patch # NoPatch => MergeStatus(file.st, patch) \in Status
    BY <1>1, <1>3, MergeStatusType
  <2>2. file.st # Absent => file.st \in Status
    BY <1>1
  <2> QED BY <1>1, <1>3, <2>1, <2>2 DEF StampStatus, StatusFile
<1> QED BY <1>2, <1>3

\* Stamping one run's status keeps every status.json of the view well formed.
LEMMA StampRunsType ==
    ASSUME NEW files \in [Runs -> StatusFile], NEW run \in RunRef, NEW kind,
           NEW patch \in StatusPatch \cup {NoPatch}, NEW rev \in Nat
    PROVE  /\ StampRuns(files, run, kind, patch, rev) \in [Runs -> StatusFile]
           /\ \A r \in Runs : StampRuns(files, run, kind, patch, rev)[r].rev >= files[r].rev
<1>0. \A r \in Runs : files[r].rev \in Nat
  BY DEF StatusFile, NoStatus
<1>1. CASE run = None
  BY <1>0, <1>1 DEF StampRuns
<1>2. CASE run # None
  <2>1. run \in Runs
    BY <1>2 DEF RunRef
  <2>2. /\ StampStatus(files[run], kind, patch, rev) \in StatusFile
        /\ StampStatus(files[run], kind, patch, rev).rev >= files[run].rev
    BY <2>1, StampStatusType
  <2> QED BY <1>0, <1>2, <2>1, <2>2 DEF StampRuns
<1> QED BY <1>1, <1>2

\* Reading the status of a run or of no run.
LEMMA StatusOfType ==
    ASSUME NEW files \in [Runs -> StatusFile], NEW run \in RunRef
    PROVE  StatusOf(files, run) \in Status \cup {Absent}
BY DEF StatusOf, RunRef, StatusFile, NoStatus

\* The run a materialization binds is a run or none.
LEMMA BoundRunType ==
    ASSUME NEW cmd, cmd.run \in RunRef, NEW run \in RunRef, NEW row \in Row
    PROVE  BoundRun(cmd, run, row) \in RunRef
BY DEF BoundRun, Row

----------------------------------------------------------------------------
(* Sequences, by their elements.                                           *)

\* Appending adds one element and keeps the others.
LEMMA AppendElements ==
    ASSUME NEW S, NEW s \in Seq(S), NEW e \in S
    PROVE  /\ Append(s, e) \in Seq(S)
           /\ \A i \in DOMAIN Append(s, e) :
                 Append(s, e)[i] = e \/ \E j \in DOMAIN s : Append(s, e)[i] = s[j]
           /\ \A j \in DOMAIN s : \E i \in DOMAIN Append(s, e) : Append(s, e)[i] = s[j]
<1>1. /\ Append(s, e) \in Seq(S) /\ Len(Append(s, e)) = Len(s) + 1
      /\ \A i \in 1..Len(s) : Append(s, e)[i] = s[i]
      /\ Append(s, e)[Len(s) + 1] = e
  BY AppendProperties
<1>2. Len(s) \in Nat /\ DOMAIN s = 1..Len(s) /\ DOMAIN Append(s, e) = 1..(Len(s) + 1)
  BY <1>1, LenProperties
<1> QED BY <1>1, <1>2

\* The tail of a sequence has its elements but the head.
LEMMA TailElements ==
    ASSUME NEW S, NEW s \in Seq(S), s # <<>>
    PROVE  /\ Head(s) \in S /\ Tail(s) \in Seq(S)
           /\ \E j \in DOMAIN s : Head(s) = s[j]
           /\ \A i \in DOMAIN Tail(s) : \E j \in DOMAIN s : Tail(s)[i] = s[j]
           /\ \A j \in DOMAIN s : s[j] = Head(s) \/ \E i \in DOMAIN Tail(s) : Tail(s)[i] = s[j]
<1>1. /\ Head(s) \in S /\ Tail(s) \in Seq(S) /\ Len(Tail(s)) = Len(s) - 1
      /\ \A i \in 1..Len(Tail(s)) : Tail(s)[i] = s[i + 1]
  BY HeadTailProperties
<1>2. Len(s) \in Nat /\ DOMAIN s = 1..Len(s)
  BY LenProperties
<1>3. Len(s) # 0
  BY EmptySeq, <1>2
<1>4. DOMAIN Tail(s) = 1..(Len(s) - 1)
  BY <1>1, LenProperties
<1>5. Head(s) = s[1] /\ 1 \in DOMAIN s
  BY <1>2, <1>3, HeadTailProperties
<1>6. ASSUME NEW i \in DOMAIN Tail(s) PROVE \E j \in DOMAIN s : Tail(s)[i] = s[j]
  <2>1. i + 1 \in DOMAIN s /\ Tail(s)[i] = s[i + 1]
    BY <1>1, <1>2, <1>4
  <2> QED BY <2>1
<1>7. ASSUME NEW j \in DOMAIN s
      PROVE  s[j] = Head(s) \/ \E i \in DOMAIN Tail(s) : Tail(s)[i] = s[j]
  <2>1. CASE j = 1
    BY <2>1, <1>5
  <2>2. CASE j # 1
    <3>1. j - 1 \in DOMAIN Tail(s) /\ Tail(s)[j - 1] = s[j]
      BY <2>2, <1>1, <1>2, <1>4
    <3> QED BY <3>1
  <2> QED BY <2>1, <2>2
<1> QED BY <1>1, <1>5, <1>6, <1>7

\* A final part of a sequence has only elements of the sequence.
LEMMA SuffixElements ==
    ASSUME NEW S, NEW s \in Seq(S), NEW m \in Nat \ {0}
    PROVE  /\ SubSeq(s, m, Len(s)) \in Seq(S)
           /\ \A i \in DOMAIN SubSeq(s, m, Len(s)) :
                 \E j \in DOMAIN s : SubSeq(s, m, Len(s))[i] = s[j]
<1>1. Len(s) \in Nat /\ DOMAIN s = 1..Len(s)
  BY LenProperties
<1>2. \A i \in m..Len(s) : s[i] \in S
  BY <1>1, ElementOfSeq
<1>3. /\ SubSeq(s, m, Len(s)) \in Seq(S)
      /\ Len(SubSeq(s, m, Len(s))) = IF m <= Len(s) THEN Len(s) - m + 1 ELSE 0
      /\ \A i \in 1..(Len(s) - m + 1) : SubSeq(s, m, Len(s))[i] = s[m + i - 1]
  BY <1>1, <1>2, SubSeqProperties
<1>4. DOMAIN SubSeq(s, m, Len(s)) = 1..Len(SubSeq(s, m, Len(s)))
  BY <1>3, LenProperties
<1>5. ASSUME NEW i \in DOMAIN SubSeq(s, m, Len(s))
      PROVE  \E j \in DOMAIN s : SubSeq(s, m, Len(s))[i] = s[j]
  <2>1. m <= Len(s)
    BY <1>3, <1>4, <1>1
  <2>2. i \in 1..(Len(s) - m + 1) /\ m + i - 1 \in DOMAIN s
    BY <2>1, <1>1, <1>3, <1>4
  <2> QED BY <2>2, <1>3
<1> QED BY <1>3, <1>5

\* The ring keeps only elements it had or was given.
LEMMA KeepLastElements ==
    ASSUME NEW S, NEW s \in Seq(S), NEW n \in Nat \ {0}
    PROVE  /\ KeepLast(s, n) \in Seq(S)
           /\ \A i \in DOMAIN KeepLast(s, n) : \E j \in DOMAIN s : KeepLast(s, n)[i] = s[j]
<1>1. Len(s) \in Nat
  BY LenProperties
<1>2. CASE Len(s) <= n
  BY <1>2 DEF KeepLast
<1>3. CASE ~(Len(s) <= n)
  <2>1. Len(s) - n + 1 \in Nat \ {0}
    BY <1>1, <1>3
  <2> QED BY <2>1, <1>3, SuffixElements DEF KeepLast
<1> QED BY <1>2, <1>3

----------------------------------------------------------------------------
(* Commands and records.                                                   *)

\* What the clients send is what validateCommand accepts.
LEMMA CommandFacts ==
    ASSUME NEW cmd \in Commands
    PROVE  /\ WellFormed(cmd)
           /\ cmd.view \in Views /\ cmd.run \in RunRef /\ cmd.id \in Ids /\ cmd.kind \in Kinds
BY CommandsAssumption DEF WellFormed, Envelope

\* The parts of a record, and the reply it gives.
LEMMA RecordFacts ==
    ASSUME NEW rec \in Record
    PROVE  /\ rec.cmd \in Commands /\ rec.cmd.view \in Views /\ rec.cmd.run \in RunRef
           /\ rec.rev \in Nat /\ rec.row \in RowPatch /\ rec.run \in RunRef
           /\ rec.patch \in StatusPatch \cup {NoPatch}
           /\ rec.status \in Outcome /\ ReplyTo(rec) \in Reply
BY CommandFacts DEF Record, ReplyTo, Reply

\* The checkpoint marks a place in the journal, from which the collector keeps it.
LEMMA JournalType ==
    ASSUME TypeOK
    PROVE  checkpoint.bytes + 1 \in Nat \ {0} /\ journal \in Seq(Record)
<1>1. checkpoint \in [rev : Nat, bytes : Nat] /\ journal \in Seq(Record)
  BY DEF TypeOK
<1> QED BY <1>1

\* Collecting keeps only records the journal had.
LEMMA CollectedElements ==
    ASSUME TypeOK, NEW c \in Coords, CollectGarbage(c)
    PROVE  \A i \in DOMAIN journal' : \E j \in DOMAIN journal : journal'[i] = journal[j]
<1> DEFINE kept == SubSeq(journal, checkpoint.bytes + 1, Len(journal))
<1>1. checkpoint.bytes + 1 \in Nat \ {0} /\ journal \in Seq(Record)
  BY JournalType
<1>2. \A i \in DOMAIN kept : \E j \in DOMAIN journal : kept[i] = journal[j]
  BY <1>1, SuffixElements
<1>3. journal' = kept
  BY DEF CollectGarbage
<1> HIDE DEF kept
<1> QED BY <1>2, <1>3

\* A decided command makes a well-formed record.
LEMMA DecidedType ==
    ASSUME TypeOK, NEW c \in Coords, NEW cmd \in Commands
    PROVE  Decided(c, cmd) \in Record
<1> DEFINE v == cmd.view
           st == StatusOf(status[v], StatusRun(cmd, state[v].row))
<1>1. state[v] \in StateFile /\ status[v] \in [Runs -> StatusFile]
  BY CommandFacts DEF TypeOK
<1>2. state[v].row \in Row /\ state[v].rev \in Nat
  BY <1>1 DEF StateFile
<1>3. StatusRun(cmd, state[v].row) \in RunRef
  BY <1>2, CommandFacts, StatusRunType
<1>4. st \in Status \cup {Absent}
  BY <1>1, <1>3, StatusOfType
<1>5. Decision(cmd) \in DecisionType
  BY <1>2, <1>4, CommandFacts, DecisionTyped DEF Decision
<1>6. counter[c] + 1 \in Nat
  <2>1. counter \in [Coords -> Nat]
    BY DEF TypeOK
  <2> QED BY <2>1
<1>7. KeepRow \in RowPatch /\ None \in RunRef
  BY DEF KeepRow, RowPatch, RunRef
<1> QED BY <1>2, <1>3, <1>5, <1>6, <1>7 DEF Decided, Record, DecisionType, Outcome

----------------------------------------------------------------------------
(* Materialization in the files and in memory.                             *)

\* The state half of a record: typed, monotonic, and only for its view.
LEMMA MaterializeStateFacts ==
    ASSUME TypeOK, NEW c \in Coords, NEW rec \in Record, NEW bytes \in Nat,
           MaterializeState(c, rec, bytes)
    PROVE  /\ state' \in [Views -> StateFile]
           /\ \A v \in Views : state'[v].rev >= state[v].rev
           /\ \A v \in Views : state'[v].rev \in {state[v].rev, rec.rev}
           /\ state'[rec.cmd.view].rev >= rec.rev
           /\ job' \in [Coords -> Job \cup {None}]
           /\ job'[c] \in Job /\ job'[c].rec = rec
           /\ \A d \in Coords \ {c} : job'[d] = job[d]
<1> DEFINE v == rec.cmd.view
<1>1. state \in [Views -> StateFile] /\ v \in Views /\ state[v].row \in Row
  BY RecordFacts DEF TypeOK, StateFile
<1>2. \A w \in Views : state[w].rev \in Nat
  BY <1>1 DEF StateFile
<1>3. /\ StampState(state[v], rec.row, rec.rev) \in StateFile
      /\ StampState(state[v], rec.row, rec.rev).rev >= state[v].rev
      /\ StampState(state[v], rec.row, rec.rev).rev >= rec.rev
      /\ StampState(state[v], rec.row, rec.rev).rev \in {state[v].rev, rec.rev}
  BY <1>1, RecordFacts, StampStateType
<1>4. state' = [state EXCEPT ![v] = StampState(state[v], rec.row, rec.rev)]
  BY <1>1 DEF MaterializeState
<1>5. BoundRun(rec.cmd, rec.run, state[v].row) \in RunRef
  BY <1>1, RecordFacts, BoundRunType
<1>6. job' = [job EXCEPT ![c] = [rec |-> rec, bytes |-> bytes,
                                 bound |-> BoundRun(rec.cmd, rec.run, state[v].row)]]
  BY DEF MaterializeState
<1>7. [rec |-> rec, bytes |-> bytes, bound |-> BoundRun(rec.cmd, rec.run, state[v].row)] \in Job
  BY <1>5 DEF Job
<1>8. job \in [Coords -> Job \cup {None}]
  BY DEF TypeOK
<1>9. /\ job' \in [Coords -> Job \cup {None}]
      /\ job'[c] \in Job /\ job'[c].rec = rec
      /\ \A d \in Coords \ {c} : job'[d] = job[d]
  BY <1>6, <1>7, <1>8
<1>10. /\ state' \in [Views -> StateFile]
       /\ \A w \in Views : state'[w].rev >= state[w].rev
       /\ \A w \in Views : state'[w].rev \in {state[w].rev, rec.rev}
       /\ state'[v].rev >= rec.rev
  BY <1>1, <1>2, <1>3, <1>4
<1> QED BY <1>9, <1>10

\* The status half: typed and monotonic.
LEMMA MaterializeStatusFacts ==
    ASSUME TypeOK, NEW c \in Coords, job[c] \in Job, MaterializeStatus(c)
    PROVE  /\ status' \in [Views -> [Runs -> StatusFile]]
           /\ \A v \in Views, r \in Runs : status'[v][r].rev >= status[v][r].rev
<1> DEFINE rec == job[c].rec
           v == rec.cmd.view
           new == StampRuns(status[v], job[c].bound, rec.cmd.kind, rec.patch, rec.rev)
<1>1. rec \in Record /\ job[c].bound \in RunRef
  BY DEF Job
<1>2. v \in Views /\ rec.patch \in StatusPatch \cup {NoPatch} /\ rec.rev \in Nat
  BY <1>1, RecordFacts
<1>3. status \in [Views -> [Runs -> StatusFile]]
  BY DEF TypeOK
<1>4. new \in [Runs -> StatusFile] /\ \A r \in Runs : new[r].rev >= status[v][r].rev
  BY <1>1, <1>2, <1>3, StampRunsType
<1>5. status' = [status EXCEPT ![v] = new]
  BY <1>2, <1>3 DEF MaterializeStatus
<1>6. \A w \in Views, r \in Runs : status[w][r].rev \in Nat
  BY <1>3 DEF StatusFile, NoStatus
<1> HIDE DEF new, v
<1>7. \A w \in Views : status'[w] = IF w = v THEN new ELSE status[w]
  BY <1>2, <1>3, <1>5
<1>8. status' \in [Views -> [Runs -> StatusFile]]
  BY <1>2, <1>3, <1>4, <1>5
<1>9. \A w \in Views, r \in Runs : status'[w][r].rev >= status[w][r].rev
  BY <1>4, <1>6, <1>7
<1> QED BY <1>8, <1>9

----------------------------------------------------------------------------
(* Type correctness.                                                       *)

Labels == Serving \cup Booting \cup {"down"}

\* One process moves, the others stand.
LEMMA GotoFacts ==
    ASSUME TypeOK, NEW c \in Coords, NEW label \in Labels, Goto(c, label)
    PROVE  /\ pc' \in [Coords -> Labels] /\ pc'[c] = label
           /\ \A d \in Coords \ {c} : pc'[d] = pc[d]
BY DEF TypeOK, Goto, Labels

\* The reply of the record in hand is a reply.
LEMMA JobReply ==
    ASSUME TypeOK, NEW c \in Coords, job[c] \in Job
    PROVE  job[c].rec \in Record /\ ReplyTo(job[c].rec) \in Reply
BY RecordFacts DEF Job

\* Remembering keeps the rings well formed.
LEMMA RememberType ==
    ASSUME TypeOK, NEW c \in Coords, NEW reply \in Reply, Remember(c, reply)
    PROVE  /\ ring' \in [Coords -> Seq(Reply)]
           /\ \A d \in Coords \ {c} : ring'[d] = ring[d]
           /\ ring'[c] = KeepLast(Append(ring[c], reply), RingMax)
<1>1. ring \in [Coords -> Seq(Reply)] /\ RingMax \in Nat \ {0}
  BY CoordinatorAssumption DEF TypeOK
<1>2. Append(ring[c], reply) \in Seq(Reply)
  BY <1>1, AppendElements
<1>3. KeepLast(Append(ring[c], reply), RingMax) \in Seq(Reply)
  BY <1>1, <1>2, KeepLastElements
<1> QED BY <1>1, <1>3 DEF Remember

\* A ring remembers what it held and the reply it is given.
LEMMA RememberFacts ==
    ASSUME TypeOK, NEW c \in Coords, NEW reply \in Reply, Remember(c, reply)
    PROVE  /\ \A i \in DOMAIN ring'[c] :
                 ring'[c][i] = reply \/ \E j \in DOMAIN ring[c] : ring'[c][i] = ring[c][j]
           /\ \A d \in Coords \ {c} : ring'[d] = ring[d]
<1> DEFINE longer == Append(ring[c], reply)
<1>1. ring[c] \in Seq(Reply) /\ RingMax \in Nat \ {0}
  BY CoordinatorAssumption DEF TypeOK
<1>2. /\ longer \in Seq(Reply)
      /\ \A i \in DOMAIN longer :
            longer[i] = reply \/ \E j \in DOMAIN ring[c] : longer[i] = ring[c][j]
  BY <1>1, AppendElements
<1> HIDE DEF longer
<1>3. \A i \in DOMAIN KeepLast(longer, RingMax) :
         \E j \in DOMAIN longer : KeepLast(longer, RingMax)[i] = longer[j]
  BY <1>1, <1>2, KeepLastElements
<1>4. ring'[c] = KeepLast(longer, RingMax) /\ \A d \in Coords \ {c} : ring'[d] = ring[d]
  BY RememberType DEF longer
<1>5. \A i \in DOMAIN ring'[c] : \E j \in DOMAIN longer : ring'[c][i] = longer[j]
  BY <1>3, <1>4
<1> QED BY <1>2, <1>4, <1>5

\* What the next record to replay is, and what is left once it is taken up.
LEMMA NextRecord ==
    ASSUME TypeOK, NEW c \in Coords, todo[c] # <<>>
    PROVE  \E rec \in Record :
              /\ rec = Head(todo[c]) /\ Tail(todo[c]) \in Seq(Record)
              /\ \E j \in DOMAIN todo[c] : rec = todo[c][j]
              /\ \A i \in DOMAIN Tail(todo[c]) : \E j \in DOMAIN todo[c] : Tail(todo[c])[i] = todo[c][j]
              /\ \A j \in DOMAIN todo[c] :
                    todo[c][j] = rec \/ \E i \in DOMAIN Tail(todo[c]) : Tail(todo[c])[i] = todo[c][j]
<1>1. todo[c] \in Seq(Record)
  BY DEF TypeOK
<1>2. /\ Head(todo[c]) \in Record /\ Tail(todo[c]) \in Seq(Record)
      /\ \E j \in DOMAIN todo[c] : Head(todo[c]) = todo[c][j]
      /\ \A i \in DOMAIN Tail(todo[c]) : \E j \in DOMAIN todo[c] : Tail(todo[c])[i] = todo[c][j]
      /\ \A j \in DOMAIN todo[c] :
            \/ todo[c][j] = Head(todo[c])
            \/ \E i \in DOMAIN Tail(todo[c]) : Tail(todo[c])[i] = todo[c][j]
  BY <1>1, TailElements
<1> QED BY <1>2

\* Taking a record up keeps what boot collects well formed.
LEMMA TakeUpType ==
    ASSUME TypeOK, NEW c \in Coords, todo[c] # <<>>, TakeUp(c, Head(todo[c]))
    PROVE  /\ Head(todo[c]) \in Record
           /\ todo' \in [Coords -> Seq(Record)]
           /\ counter' \in [Coords -> Nat]
           /\ ring' \in [Coords -> Seq(Reply)]
           /\ todo'[c] = Tail(todo[c])
           /\ \A i \in DOMAIN ring'[c] :
                 \/ ring'[c][i] = ReplyTo(Head(todo[c]))
                 \/ \E j \in DOMAIN ring[c] : ring'[c][i] = ring[c][j]
           /\ \A d \in Coords \ {c} : ring'[d] = ring[d]
<1> DEFINE rec == Head(todo[c])
<1>1. todo[c] \in Seq(Record) /\ ring[c] \in Seq(Reply) /\ counter[c] \in Nat
  BY DEF TypeOK
<1>2. rec \in Record /\ Tail(todo[c]) \in Seq(Record)
  BY <1>1, TailElements
<1>3. rec.rev \in Nat /\ ReplyTo(rec) \in Reply
  BY <1>2, RecordFacts
<1> DEFINE longer == Append(ring[c], ReplyTo(rec))
<1>4. /\ longer \in Seq(Reply)
      /\ \A i \in DOMAIN longer :
            longer[i] = ReplyTo(rec) \/ \E j \in DOMAIN ring[c] : longer[i] = ring[c][j]
  BY <1>1, <1>3, AppendElements
<1>5. todo' \in [Coords -> Seq(Record)]
  BY <1>2 DEF TypeOK, TakeUp
<1>6. counter' \in [Coords -> Nat]
  BY <1>1, <1>3 DEF TypeOK, TakeUp, Larger
<1>7. ring' \in [Coords -> Seq(Reply)]
  BY <1>4 DEF TypeOK, TakeUp
<1>8. todo'[c] = Tail(todo[c]) /\ \A d \in Coords \ {c} : ring'[d] = ring[d]
  BY DEF TypeOK, TakeUp
<1>9. ring'[c] \in {ring[c], longer}
  BY DEF TypeOK, TakeUp
<1> HIDE DEF longer
<1>10. \A i \in DOMAIN ring'[c] :
          ring'[c][i] = ReplyTo(rec) \/ \E j \in DOMAIN ring[c] : ring'[c][i] = ring[c][j]
  BY <1>4, <1>9
<1> QED BY <1>2, <1>5, <1>6, <1>7, <1>8, <1>10

\* The initial files are well formed.
LEMMA InitTyped == Init => TypeOK
<1>1. NewState \in StateFile /\ NoStatus \in StatusFile
  BY DEF NewState, NewRow, StateFile, Row, SemanticState, ProcessState, RunRef, AutoRef,
         StatusFile
<1>2. <<>> \in Seq(Record) /\ <<>> \in Seq(Reply)
  OBVIOUS
<1> SUFFICES ASSUME Init PROVE TypeOK
  OBVIOUS
<1>3. state \in [Views -> StateFile] /\ status \in [Views -> [Runs -> StatusFile]]
  BY <1>1 DEF Init
<1>4. /\ journal \in Seq(Record) /\ torn \in BOOLEAN
      /\ checkpoint \in [rev : Nat, bytes : Nat]
      /\ todo \in [Coords -> Seq(Record)] /\ ring \in [Coords -> Seq(Reply)]
  BY <1>2 DEF Init
<1>5. /\ pc \in [Coords -> Serving \cup Booting \cup {"down"}]
      /\ job \in [Coords -> Job \cup {None}]
      /\ \A c \in Coords : pc[c] \in (Serving \ {"idle"}) \cup {"replayStatus"} => job[c] \in Job
  BY DEF Init, Serving, Booting
<1>6. /\ holder \in Coords \cup {NoCoord} /\ endpoint \in Coords \cup {NoCoord}
      /\ inflight \subseteq Commands \X Coords /\ sends \in [Commands -> Nat]
      /\ replies \subseteq Reply /\ counter \in [Coords -> Nat]
      /\ lastBytes \in [Coords -> Nat] /\ stops \in Nat
  BY DEF Init
<1> QED BY <1>3, <1>4, <1>5, <1>6 DEF TypeOK


\* Every step keeps the types.
LEMMA TypeStep == TypeOK /\ [Next]_vars => TypeOK'
<1> SUFFICES ASSUME TypeOK, [Next]_vars PROVE TypeOK'
  OBVIOUS
<1> USE DEF disk, net, memory, Labels, Serving, Booting
<1>1. ASSUME NEW cmd \in Commands, Send(cmd) PROVE TypeOK'
  <2>1. endpoint \in Coords
    BY <1>1 DEF Send, TypeOK
  <2>2. inflight' \subseteq Commands \X Coords
    BY <1>1, <2>1 DEF Send, TypeOK
  <2>3. sends' \in [Commands -> Nat]
    BY <1>1 DEF Send, TypeOK
  <2> QED BY <1>1, <2>2, <2>3 DEF Send, TypeOK
<1>2. ASSUME NEW c \in Coords, AcquireLease(c) PROVE TypeOK'
  <2>1. pc' \in [Coords -> Labels] /\ pc'[c] = "repair" /\ \A d \in Coords \ {c} : pc'[d] = pc[d]
    BY <1>2, GotoFacts DEF AcquireLease
  <2> QED BY <1>2, <2>1 DEF AcquireLease, TypeOK
<1>3. ASSUME NEW c \in Coords, Repair(c) PROVE TypeOK'
  <2>1. pc' \in [Coords -> Labels] /\ pc'[c] = "replay" /\ \A d \in Coords \ {c} : pc'[d] = pc[d]
    BY <1>3, GotoFacts DEF Repair
  <2>2. counter' \in [Coords -> Nat] /\ lastBytes' \in [Coords -> Nat] /\ torn' \in BOOLEAN
    BY <1>3 DEF Repair, TypeOK
  <2>3. todo' \in [Coords -> Seq(Record)]
    BY <1>3 DEF Repair, TypeOK
  <2>4. <<>> \in Seq(Reply)
    OBVIOUS
  <2>5. ring' \in [Coords -> Seq(Reply)]
    BY <1>3, <2>4 DEF Repair, TypeOK
  <2> QED BY <1>3, <2>1, <2>2, <2>3, <2>5 DEF Repair, TypeOK
<1>4. ASSUME NEW c \in Coords, ReplayRejected(c) PROVE TypeOK'
  BY <1>4, TakeUpType DEF ReplayRejected, TypeOK
<1>5. ASSUME NEW c \in Coords, ReplayState(c) PROVE TypeOK'
  <2>1. /\ Head(todo[c]) \in Record /\ todo' \in [Coords -> Seq(Record)]
        /\ counter' \in [Coords -> Nat] /\ ring' \in [Coords -> Seq(Reply)]
    BY <1>5, TakeUpType DEF ReplayState
  <2>2. /\ state' \in [Views -> StateFile] /\ job' \in [Coords -> Job \cup {None}]
        /\ job'[c] \in Job /\ \A d \in Coords \ {c} : job'[d] = job[d]
    BY <1>5, <2>1, MaterializeStateFacts DEF ReplayState
  <2>3. /\ pc' \in [Coords -> Labels] /\ pc'[c] = "replayStatus"
        /\ \A d \in Coords \ {c} : pc'[d] = pc[d]
    BY <1>5, GotoFacts DEF ReplayState
  <2> QED BY <1>5, <2>1, <2>2, <2>3 DEF ReplayState, TypeOK
<1>6. ASSUME NEW c \in Coords, ReplayStatus(c) PROVE TypeOK'
  <2>1. job[c] \in Job
    BY <1>6 DEF ReplayStatus, TypeOK
  <2>2. status' \in [Views -> [Runs -> StatusFile]]
    BY <1>6, <2>1, MaterializeStatusFacts DEF ReplayStatus
  <2>3. pc' \in [Coords -> Labels] /\ pc'[c] = "replay" /\ \A d \in Coords \ {c} : pc'[d] = pc[d]
    BY <1>6, GotoFacts DEF ReplayStatus
  <2> QED BY <1>6, <2>2, <2>3 DEF ReplayStatus, TypeOK
<1>7. ASSUME NEW c \in Coords, FinishBoot(c) PROVE TypeOK'
  <2>1. \A v \in Views : state[v].rev \in Nat
    BY DEF TypeOK, StateFile
  <2>2. counter' \in [Coords -> Nat]
    BY <1>7, <2>1 DEF FinishBoot, TypeOK
  <2>3. pc' \in [Coords -> Labels] /\ pc'[c] = "idle" /\ \A d \in Coords \ {c} : pc'[d] = pc[d]
    BY <1>7, GotoFacts DEF FinishBoot
  <2> QED BY <1>7, <2>2, <2>3 DEF FinishBoot, TypeOK
<1>8. ASSUME NEW c \in Coords, NEW cmd \in Commands, AnswerDuplicate(c, cmd) PROVE TypeOK'
  <2>1. inflight' \subseteq Commands \X Coords
    BY <1>8 DEF AnswerDuplicate, Receive, TypeOK
  <2>2. replies' \subseteq Reply /\ ring' \in [Coords -> Seq(Reply)]
    <3>1. \A i \in DOMAIN ring[c] : ring[c][i] \in Reply
      BY DEF TypeOK
    <3>2. \A i \in DOMAIN journal : ReplyTo(journal[i]) \in Reply
      BY RecordFacts DEF TypeOK
    <3>3. CASE UNCHANGED ring
      BY <1>8, <3>1, <3>2, <3>3 DEF AnswerDuplicate, TypeOK
    <3>4. ASSUME NEW i \in DOMAIN journal, Remember(c, ReplyTo(journal[i])),
                 replies' = replies \cup {ReplyTo(journal[i])}
          PROVE  replies' \subseteq Reply /\ ring' \in [Coords -> Seq(Reply)]
      BY <3>2, <3>4, RememberType DEF TypeOK
    <3> QED BY <1>8, <3>3, <3>4 DEF AnswerDuplicate
  <2> QED BY <1>8, <2>1, <2>2 DEF AnswerDuplicate, TypeOK
<1>9. ASSUME NEW c \in Coords, NEW cmd \in Commands, RejectBeat(c, cmd) PROVE TypeOK'
  <2>1. inflight' \subseteq Commands \X Coords
    BY <1>9 DEF RejectBeat, Receive, TypeOK
  <2>2. ReplyTo(Decided(c, cmd)) \in Reply
    BY DecidedType, RecordFacts
  <2> QED BY <1>9, <2>1, <2>2 DEF RejectBeat, TypeOK
<1>10. ASSUME NEW c \in Coords, NEW cmd \in Commands, Decide(c, cmd) PROVE TypeOK'
  <2>1. inflight' \subseteq Commands \X Coords
    BY <1>10 DEF Decide, Receive, TypeOK
  <2>2. [rec |-> Decided(c, cmd), bound |-> None, bytes |-> 0] \in Job
    BY DecidedType DEF Job, RunRef
  <2>3. /\ job' \in [Coords -> Job \cup {None}] /\ job'[c] \in Job
        /\ \A d \in Coords \ {c} : job'[d] = job[d]
    BY <1>10, <2>2 DEF Decide, TypeOK
  <2>4. pc' \in [Coords -> Labels] /\ \A d \in Coords \ {c} : pc'[d] = pc[d]
    BY <1>10, GotoFacts DEF Decide
  <2> QED BY <1>10, <2>1, <2>3, <2>4 DEF Decide, TypeOK
<1>11. ASSUME NEW c \in Coords, AppendRecord(c) PROVE TypeOK'
  <2>1. job[c] \in Job /\ job[c].rec \in Record /\ ReplyTo(job[c].rec) \in Reply
    BY <1>11, JobReply DEF AppendRecord, TypeOK
  <2>2. journal' \in Seq(Record) /\ Len(journal') \in Nat
    <3>1. Append(journal, job[c].rec) \in Seq(Record)
      BY <2>1, AppendElements DEF TypeOK
    <3>2. journal' \in Seq(Record)
      BY <1>11, <3>1 DEF AppendRecord, TypeOK
    <3> QED BY <3>2, LenProperties
  <2>3. [job[c] EXCEPT !.bytes = Len(journal')] \in Job
    BY <2>1, <2>2 DEF Job
  <2>4. /\ job' \in [Coords -> Job \cup {None}] /\ job'[c] \in Job
        /\ \A d \in Coords \ {c} : job'[d] = job[d]
    BY <1>11, <2>3 DEF AppendRecord, TypeOK
  <2>5. pc' \in [Coords -> Labels] /\ \A d \in Coords \ {c} : pc'[d] = pc[d]
    BY <1>11, GotoFacts DEF AppendRecord
  <2>6. ring' \in [Coords -> Seq(Reply)]
    BY <1>11, <2>1, RememberType DEF AppendRecord, TypeOK
  <2> QED BY <1>11, <2>2, <2>4, <2>5, <2>6 DEF AppendRecord, TypeOK
<1>12. ASSUME NEW c \in Coords, WriteState(c) PROVE TypeOK'
  <2>1. job[c] \in Job /\ job[c].rec \in Record /\ job[c].bytes \in Nat
    BY <1>12, JobReply DEF WriteState, TypeOK, Job
  <2>2. /\ state' \in [Views -> StateFile] /\ job' \in [Coords -> Job \cup {None}]
        /\ job'[c] \in Job /\ \A d \in Coords \ {c} : job'[d] = job[d]
    BY <1>12, <2>1, MaterializeStateFacts DEF WriteState
  <2>3. pc' \in [Coords -> Labels] /\ pc'[c] = "status" /\ \A d \in Coords \ {c} : pc'[d] = pc[d]
    BY <1>12, GotoFacts DEF WriteState
  <2> QED BY <1>12, <2>2, <2>3 DEF WriteState, TypeOK
<1>13. ASSUME NEW c \in Coords, WriteStatus(c) PROVE TypeOK'
  <2>1. job[c] \in Job /\ job[c].rec \in Record /\ ReplyTo(job[c].rec) \in Reply
    BY <1>13, JobReply DEF WriteStatus, TypeOK
  <2>2. status' \in [Views -> [Runs -> StatusFile]]
    BY <1>13, <2>1, MaterializeStatusFacts DEF WriteStatus
  <2>3. pc' \in [Coords -> Labels] /\ \A d \in Coords \ {c} : pc'[d] = pc[d]
    BY <1>13, GotoFacts DEF WriteStatus
  <2>4. ring' \in [Coords -> Seq(Reply)]
    BY <1>13, <2>1, RememberType DEF WriteStatus, TypeOK
  <2>5. counter' \in [Coords -> Nat]
    BY <1>13, <2>1, RecordFacts DEF WriteStatus, TypeOK
  <2> QED BY <1>13, <2>1, <2>2, <2>3, <2>4, <2>5 DEF WriteStatus, TypeOK
<1>14. ASSUME NEW c \in Coords, SkipCheckpoint(c) PROVE TypeOK'
  <2>1. pc' \in [Coords -> Labels] /\ \A d \in Coords \ {c} : pc'[d] = pc[d]
    BY <1>14, GotoFacts DEF SkipCheckpoint
  <2> QED BY <1>14, <2>1 DEF SkipCheckpoint, TypeOK
<1>15. ASSUME NEW c \in Coords, WriteCheckpoint(c) PROVE TypeOK'
  <2>1. pc' \in [Coords -> Labels] /\ \A d \in Coords \ {c} : pc'[d] = pc[d]
    BY <1>15, GotoFacts DEF WriteCheckpoint
  <2>2. checkpoint' \in [rev : Nat, bytes : Nat]
    BY <1>15 DEF WriteCheckpoint, TypeOK, Job
  <2> QED BY <1>15, <2>1, <2>2 DEF WriteCheckpoint, TypeOK
<1>16. ASSUME NEW c \in Coords, CollectGarbage(c) PROVE TypeOK'
  <2>1. pc' \in [Coords -> Labels] /\ \A d \in Coords \ {c} : pc'[d] = pc[d]
    BY <1>16, GotoFacts DEF CollectGarbage
  <2>2. checkpoint.bytes + 1 \in Nat \ {0}
    BY JournalType
  <2>3. journal' \in Seq(Record) /\ Len(journal') \in Nat
    BY <1>16, <2>2, SuffixElements, LenProperties DEF CollectGarbage, TypeOK
  <2>4. lastBytes' \in [Coords -> Nat]
    BY <1>16, <2>3 DEF CollectGarbage, TypeOK
  <2> QED BY <1>16, <2>1, <2>3, <2>4 DEF CollectGarbage, TypeOK
<1>17. ASSUME NEW c \in Coords, CollectNothing(c) PROVE TypeOK'
  <2>1. pc' \in [Coords -> Labels] /\ \A d \in Coords \ {c} : pc'[d] = pc[d]
    BY <1>17, GotoFacts DEF CollectNothing
  <2>2. Len(journal) \in Nat
    BY LenProperties DEF TypeOK
  <2> QED BY <1>17, <2>1, <2>2 DEF CollectNothing, TypeOK
<1>18. ASSUME NEW c \in Coords, Answer(c) PROVE TypeOK'
  <2>1. pc' \in [Coords -> Labels] /\ pc'[c] = "idle" /\ \A d \in Coords \ {c} : pc'[d] = pc[d]
    BY <1>18, GotoFacts DEF Answer
  <2>2. ReplyTo(job[c].rec) \in Reply
    BY <1>18, JobReply DEF Answer, TypeOK
  <2> QED BY <1>18, <2>1, <2>2 DEF Answer, TypeOK
<1>19. ASSUME NEW c \in Coords, Vanish(c), torn' \in BOOLEAN,
              holder' \in Coords \cup {NoCoord}, endpoint' \in Coords \cup {NoCoord}
       PROVE  TypeOK'
  <2>1. pc' \in [Coords -> Labels] /\ pc'[c] = "down" /\ \A d \in Coords \ {c} : pc'[d] = pc[d]
    BY <1>19, GotoFacts DEF Vanish
  <2>2. counter' \in [Coords -> Nat] /\ lastBytes' \in [Coords -> Nat]
    BY <1>19 DEF Vanish, TypeOK
  <2>7. stops' \in Nat
    BY <1>19 DEF Vanish, TypeOK
  <2>6. inflight' \subseteq Commands \X Coords
    BY <1>19 DEF Vanish, TypeOK
  <2>3. <<>> \in Seq(Record) /\ <<>> \in Seq(Reply)
    OBVIOUS
  <2>4. todo' \in [Coords -> Seq(Record)]
    BY <1>19, <2>3 DEF Vanish, TypeOK
  <2>5. ring' \in [Coords -> Seq(Reply)]
    BY <1>19, <2>3 DEF Vanish, TypeOK
  <2> QED BY <1>19, <2>1, <2>2, <2>4, <2>5, <2>6, <2>7 DEF Vanish, TypeOK
<1>20. ASSUME NEW c \in Coords, Crash(c) PROVE TypeOK'
  BY <1>19, <1>20 DEF Crash, TypeOK
<1>21. ASSUME NEW c \in Coords, Shutdown(c) PROVE TypeOK'
  BY <1>19, <1>21 DEF Shutdown, TypeOK
<1>22. CASE UNCHANGED vars
  BY <1>22 DEF vars, TypeOK
<1> QED
  BY <1>1, <1>2, <1>3, <1>4, <1>5, <1>6, <1>7, <1>8, <1>9, <1>10, <1>11, <1>12, <1>13,
     <1>14, <1>15, <1>16, <1>17, <1>18, <1>20, <1>21, <1>22 DEF Next, Boot, Serve

\* TypeOK is an invariant of the coordinator, for every number of views, runs,
\* processes and commands.
THEOREM TypeCorrect == Spec => []TypeOK
<1>1. Init => TypeOK
  BY InitTyped
<1>2. TypeOK /\ [Next]_vars => TypeOK'
  BY TypeStep
<1> QED BY <1>1, <1>2, PTL DEF Spec


----------------------------------------------------------------------------
(* The files never move back.                                              *)

Monotonic ==
    \A v \in Views : /\ state'[v].rev >= state[v].rev
                     /\ \A r \in Runs : status'[v][r].rev >= status[v][r].rev

\* Only four steps write a file, each through a guarded stamp.
LEMMA MonotonicStep == TypeOK /\ [Next]_vars => Monotonic
<1> SUFFICES ASSUME TypeOK, [Next]_vars PROVE Monotonic
  OBVIOUS
<1>1. \A v \in Views : state[v].rev \in Nat /\ \A r \in Runs : status[v][r].rev \in Nat
  BY DEF TypeOK, StateFile, StatusFile, NoStatus
<1>2. ASSUME UNCHANGED <<state, status>> PROVE Monotonic
  BY <1>1, <1>2 DEF Monotonic
<1>3. ASSUME NEW c \in Coords, NEW rec \in Record, NEW bytes \in Nat,
             MaterializeState(c, rec, bytes), UNCHANGED status
      PROVE  Monotonic
  BY <1>1, <1>3, MaterializeStateFacts DEF Monotonic
<1>4. ASSUME NEW c \in Coords, job[c] \in Job, MaterializeStatus(c), UNCHANGED state
      PROVE  Monotonic
  BY <1>1, <1>4, MaterializeStatusFacts DEF Monotonic
<1>5. ASSUME NEW c \in Coords, ReplayState(c) PROVE Monotonic
  <2>1. Head(todo[c]) \in Record
    BY <1>5, TakeUpType DEF ReplayState
  <2> QED BY <1>3, <1>5, <2>1 DEF ReplayState
<1>6. ASSUME NEW c \in Coords, WriteState(c) PROVE Monotonic
  <2>1. job[c] \in Job
    BY <1>6 DEF WriteState, TypeOK, Serving
  <2> QED BY <1>3, <1>6, <2>1 DEF WriteState, Job
<1>7. ASSUME NEW c \in Coords, ReplayStatus(c) \/ WriteStatus(c) PROVE Monotonic
  <2>1. job[c] \in Job
    BY <1>7 DEF ReplayStatus, WriteStatus, TypeOK, Serving
  <2> QED BY <1>4, <1>7, <2>1 DEF ReplayStatus, WriteStatus
<1>8. ASSUME NEW cmd \in Commands, Send(cmd) PROVE Monotonic
  BY <1>2, <1>8 DEF Send, disk
<1>9. ASSUME NEW c \in Coords,
             \/ AcquireLease(c) \/ Repair(c) \/ ReplayRejected(c) \/ FinishBoot(c)
             \/ AppendRecord(c) \/ SkipCheckpoint(c) \/ WriteCheckpoint(c)
             \/ CollectGarbage(c) \/ CollectNothing(c) \/ Answer(c) \/ Crash(c) \/ Shutdown(c)
      PROVE  Monotonic
  BY <1>2, <1>9 DEF AcquireLease, Repair, ReplayRejected, FinishBoot, AppendRecord,
     SkipCheckpoint, WriteCheckpoint, CollectGarbage, CollectNothing, Answer, Crash,
     Shutdown, Vanish, disk
<1>10. ASSUME NEW c \in Coords, NEW cmd \in Commands,
              AnswerDuplicate(c, cmd) \/ RejectBeat(c, cmd) \/ Decide(c, cmd)
       PROVE  Monotonic
  BY <1>2, <1>10 DEF AnswerDuplicate, RejectBeat, Decide, disk
<1>11. CASE UNCHANGED vars
  BY <1>2, <1>11 DEF vars, disk
<1> QED BY <1>5, <1>6, <1>7, <1>8, <1>9, <1>10, <1>11 DEF Next, Boot, Serve

\* Neither file of any view or run ever moves back to an older revision, even
\* when a live coordinator is overtaken and two of them write.
THEOREM FilesMonotonic == Spec => FilesNeverGoBack
<1>1. TypeOK /\ [Next]_vars => [Monotonic]_vars
  BY MonotonicStep
<1>2. Spec => []TypeOK
  BY TypeCorrect
<1>3. Spec => [][Monotonic]_vars
  BY <1>1, <1>2, PTL DEF Spec
<1> QED BY <1>3 DEF FilesNeverGoBack, Monotonic


----------------------------------------------------------------------------
(* Revisions, as long as no live holder is overtaken.                      *)

\* What landed stays landed, and what is on disk stays on disk.
LEMMA LandedStays ==
    ASSUME TypeOK, TypeOK', Monotonic
    PROVE  /\ \A rec \in Record : Landed(rec) => Landed(rec)'
           /\ \A reply \in Reply : OnDisk(reply) => OnDisk(reply)'
<1>1. \A v \in Views : state[v].rev \in Nat /\ state'[v].rev \in Nat
  BY DEF TypeOK, StateFile
<1>2. \A v \in Views : state'[v].rev >= state[v].rev
  BY DEF Monotonic
<1>3. ASSUME NEW rec \in Record, Landed(rec) PROVE Landed(rec)'
  <2>1. rec.cmd.view \in Views /\ rec.rev \in Nat
    BY RecordFacts
  <2> QED BY <1>1, <1>2, <1>3, <2>1 DEF Landed
<1>4. ASSUME NEW reply \in Reply, OnDisk(reply) PROVE OnDisk(reply)'
  <2>1. ASSUME NEW cmd \in Commands, cmd.id = reply.id
        PROVE  reply.rev <= state'[cmd.view].rev
    <3>1. cmd.view \in Views /\ reply.rev \in Nat
      BY CommandFacts DEF Reply
    <3>2. reply.rev <= state[cmd.view].rev
      BY <1>4, <2>1 DEF OnDisk
    <3> QED BY <1>1, <1>2, <3>1, <3>2
  <2> QED BY <2>1 DEF OnDisk
<1> QED BY <1>3, <1>4

\* The reply to a landed record is on disk: ids are unique.
LEMMA LandedAnswers ==
    ASSUME NEW rec \in Record
    PROVE  /\ Landed(rec) => OnDisk(ReplyTo(rec))
           /\ Landed(rec)' => OnDisk(ReplyTo(rec))'
<1>1. rec.cmd \in Commands /\ ReplyTo(rec).id = rec.cmd.id /\ ReplyTo(rec).rev = rec.rev
  BY RecordFacts DEF ReplyTo
<1>2. \A cmd \in Commands : cmd.id = ReplyTo(rec).id => cmd = rec.cmd
  BY <1>1, CommandsAssumption
<1> QED BY <1>1, <1>2 DEF Landed, OnDisk

\* While the lease is exclusive, a running coordinator runs alone.
LEMMA Alone ==
    ASSUME OneHolder, NEW c \in Coords, pc[c] # "down", NEW d \in Coords, d # c
    PROVE  pc[d] = "down"
BY DEF OneHolder

\* A lease that is only taken from the dead has one holder.
LEMMA HolderStep ==
    ASSUME ~StaleReclaim, TypeOK, OneHolder, [Next]_vars
    PROVE  OneHolder'
<1>1. ASSUME NEW c \in Coords, AcquireLease(c) PROVE OneHolder'
  <2>1. \A d \in Coords : pc[d] = "down"
    BY <1>1, CoordinatorAssumption DEF AcquireLease, LeaseAvailable, OneHolder
  <2>2. \A d \in Coords : d # c => pc'[d] = "down"
    BY <1>1, <2>1 DEF AcquireLease, Goto, TypeOK
  <2> QED BY <1>1, <2>2 DEF AcquireLease, OneHolder
<1>2. ASSUME NEW c \in Coords, NEW label, pc[c] # "down", Goto(c, label), UNCHANGED holder
      PROVE  OneHolder'
  BY <1>2 DEF OneHolder, Goto, TypeOK
<1>3. ASSUME UNCHANGED <<pc, holder>> PROVE OneHolder'
  BY <1>3 DEF OneHolder
<1>4. ASSUME NEW c \in Coords, Shutdown(c) PROVE OneHolder'
  <2>1. \A d \in Coords : pc'[d] = "down"
    BY <1>4, Alone DEF Shutdown, Vanish, Goto, TypeOK
  <2> QED BY <2>1 DEF OneHolder
<1>5. ASSUME NEW cmd \in Commands, Send(cmd) PROVE OneHolder'
  BY <1>3, <1>5 DEF Send, memory
<1>6. ASSUME NEW c \in Coords, NEW cmd \in Commands,
             AnswerDuplicate(c, cmd) \/ RejectBeat(c, cmd)
      PROVE  OneHolder'
  BY <1>3, <1>6 DEF AnswerDuplicate, RejectBeat, memory
<1>7. ASSUME NEW c \in Coords, NEW cmd \in Commands, Decide(c, cmd) PROVE OneHolder'
  BY <1>2, <1>7 DEF Decide, Receive
<1>8. ASSUME NEW c \in Coords,
             ReplayState(c) \/ ReplayStatus(c) \/ Repair(c) \/ FinishBoot(c) PROVE OneHolder'
  BY <1>2, <1>8 DEF ReplayState, ReplayStatus, Repair, FinishBoot
<1>9. ASSUME NEW c \in Coords, ReplayRejected(c) PROVE OneHolder'
  BY <1>3, <1>9 DEF ReplayRejected
<1>10. ASSUME NEW c \in Coords, AppendRecord(c) \/ WriteState(c) \/ WriteStatus(c) PROVE OneHolder'
  BY <1>2, <1>10 DEF AppendRecord, WriteState, WriteStatus
<1>11. ASSUME NEW c \in Coords,
              SkipCheckpoint(c) \/ WriteCheckpoint(c) \/ CollectGarbage(c) \/ CollectNothing(c)
       PROVE  OneHolder'
  BY <1>2, <1>11 DEF SkipCheckpoint, WriteCheckpoint, CollectGarbage, CollectNothing
<1>12. ASSUME NEW c \in Coords, Answer(c) \/ Crash(c) PROVE OneHolder'
  BY <1>2, <1>12 DEF Answer, Crash, Vanish
<1>13. CASE UNCHANGED vars
  BY <1>3, <1>13 DEF vars, memory
<1> QED
  BY <1>1, <1>4, <1>5, <1>6, <1>7, <1>8, <1>9, <1>10, <1>11, <1>12, <1>13
  DEF Next, Boot, Serve


\* Every step keeps the revision invariant.
LEMMA RevisionStep ==
    ASSUME ~StaleReclaim, TypeOK, RevisionInvariant, [Next]_vars
    PROVE  RevisionInvariant'
<1> USE DEF Serving
<1>t. TypeOK'
  BY TypeStep
<1>m. Monotonic
  BY MonotonicStep
<1>h. OneHolder'
  BY HolderStep DEF RevisionInvariant
<1>l. /\ \A rec \in Record : Landed(rec) => Landed(rec)'
      /\ \A reply \in Reply : OnDisk(reply) => OnDisk(reply)'
  BY <1>t, <1>m, LandedStays
<1>v. \A v \in Views : state[v].rev \in Nat
  BY DEF TypeOK, StateFile
<1>j. \A i \in DOMAIN journal : journal[i] \in Record
  BY DEF TypeOK
<1>g. \A c \in Coords : \A i \in DOMAIN ring[c] : ring[c][i] \in Reply
  BY DEF TypeOK
<1>c. \A c \in Coords : counter[c] \in Nat
  BY DEF TypeOK
<1>p. ASSUME UNCHANGED replies PROVE RepliesOnDisk'
  BY <1>l, <1>p DEF RevisionInvariant, RepliesOnDisk, TypeOK
<1>r. ASSUME UNCHANGED journal PROVE RejectedLanded'
  BY <1>l, <1>j, <1>r DEF RevisionInvariant, RejectedLanded
<1>e. ASSUME NEW d \in Coords, pc'[d] = "down", ring'[d] = ring[d] PROVE Ahead(d)'
  <2>1. RingOnDisk(d)'
    BY <1>l, <1>g, <1>e DEF RevisionInvariant, Ahead, RingOnDisk
  <2> QED BY <1>e, <2>1 DEF Ahead, CounterLeads, JobInHand, ServedJournal, ReplayedJournal
<1>f. ASSUME NEW c \in Coords, pc[c] # "down",
             \A d \in Coords \ {c} : pc'[d] = pc[d] /\ ring'[d] = ring[d],
             RepliesOnDisk', RejectedLanded', Ahead(c)'
      PROVE  RevisionInvariant'
  <2>1. ASSUME NEW d \in Coords \ {c} PROVE Ahead(d)'
    <3>1. pc'[d] = "down"
      BY <1>f, Alone DEF RevisionInvariant
    <3> QED BY <1>e, <1>f, <3>1
  <2> QED BY <1>f, <1>h, <2>1 DEF RevisionInvariant
<1>s. ASSUME NEW c \in Coords, UNCHANGED ring PROVE RingOnDisk(c)'
  BY <1>l, <1>g, <1>s DEF RevisionInvariant, Ahead, RingOnDisk
<1>o. ASSUME NEW c \in Coords, NEW label \in Labels, Goto(c, label)
      PROVE  pc'[c] = label /\ \A d \in Coords \ {c} : pc'[d] = pc[d]
  BY <1>o, GotoFacts
<1>q. \A c \in Coords : pc[c] # "down" => Ahead(c)
  BY DEF RevisionInvariant
<1>1. ASSUME NEW c \in Coords, AcquireLease(c) PROVE RevisionInvariant'
  <2>1. \A d \in Coords : pc[d] = "down"
    BY <1>1, CoordinatorAssumption DEF AcquireLease, LeaseAvailable, RevisionInvariant, OneHolder
  <2>2. pc'[c] = "repair" /\ \A d \in Coords \ {c} : pc'[d] = "down"
    BY <1>1, <1>o, <2>1 DEF AcquireLease, Labels, Booting
  <2>3. \A d \in Coords \ {c} : Ahead(d)'
    BY <1>e, <1>1, <2>2 DEF AcquireLease
  <2>4. Ahead(c)'
    BY <1>1, <1>s, <2>2
    DEF AcquireLease, Ahead, CounterLeads, JobInHand, ServedJournal, ReplayedJournal
  <2> QED BY <1>1, <1>p, <1>r, <1>h, <2>3, <2>4 DEF AcquireLease, RevisionInvariant, disk, net
<1>2. ASSUME NEW c \in Coords, Repair(c) PROVE RevisionInvariant'
  <2>1. pc'[c] = "replay" /\ \A d \in Coords \ {c} : pc'[d] = pc[d]
    BY <1>2, <1>o DEF Repair, Labels, Booting
  <2>2. RingOnDisk(c)'
    BY <1>2 DEF Repair, RingOnDisk, TypeOK
  <2>3. ReplayedJournal(c)'
    BY <1>2, <2>1 DEF Repair, ReplayedJournal, TypeOK
  <2>4. Ahead(c)'
    BY <2>1, <2>2, <2>3 DEF Ahead, CounterLeads, JobInHand, ServedJournal
  <2> QED BY <1>2, <1>f, <1>p, <1>r, <2>1, <2>4 DEF Repair, TypeOK, net
<1>3. ASSUME NEW c \in Coords, ReplayRejected(c) PROVE RevisionInvariant'
  <2>1. PICK rec \in Record :
        /\ rec = Head(todo[c]) /\ Tail(todo[c]) \in Seq(Record)
        /\ \E j \in DOMAIN todo[c] : rec = todo[c][j]
        /\ \A i \in DOMAIN Tail(todo[c]) : \E j \in DOMAIN todo[c] : Tail(todo[c])[i] = todo[c][j]
        /\ \A j \in DOMAIN todo[c] :
              todo[c][j] = rec \/ \E i \in DOMAIN Tail(todo[c]) : Tail(todo[c])[i] = todo[c][j]
    <3>1. todo[c] # <<>>
      BY <1>3 DEF ReplayRejected
    <3> QED BY <3>1, NextRecord
  <2>2. pc[c] = "replay" /\ ReplayedJournal(c) /\ RingOnDisk(c)
    BY <1>3 DEF ReplayRejected, RevisionInvariant, Ahead
  <2>3. Landed(rec)
    BY <1>3, <2>1, <2>2 DEF ReplayRejected, ReplayedJournal, RevisionInvariant, RejectedLanded
  <2>4. OnDisk(ReplyTo(rec)) /\ ReplyTo(rec) \in Reply
    BY <2>1, <2>3, LandedAnswers, RecordFacts
  <2>5. RingOnDisk(c)'
    <3>1. \A i \in DOMAIN ring'[c] :
             ring'[c][i] = ReplyTo(rec) \/ \E j \in DOMAIN ring[c] : ring'[c][i] = ring[c][j]
      BY <1>3, <2>1, TakeUpType DEF ReplayRejected
    <3> QED BY <1>l, <1>g, <2>2, <2>4, <3>1 DEF RingOnDisk
  <2>6. ReplayedJournal(c)'
    <3>1. todo'[c] = Tail(todo[c]) /\ journal' = journal
      BY <1>3, TakeUpType DEF ReplayRejected, disk
    <3>2. ASSUME NEW i \in DOMAIN journal
          PROVE  Landed(journal[i])' \/ \E j \in DOMAIN todo'[c] : todo'[c][j] = journal[i]
      <4>1. CASE Landed(journal[i])
        BY <1>l, <1>j, <3>1, <4>1
      <4>2. CASE journal[i] = rec
        BY <1>l, <2>1, <2>3, <3>1, <4>2
      <4>3. ASSUME NEW j \in DOMAIN todo[c], todo[c][j] = journal[i], journal[i] # rec
            PROVE  \E k \in DOMAIN todo'[c] : todo'[c][k] = journal[i]
        <5>1. \E k \in DOMAIN Tail(todo[c]) : Tail(todo[c])[k] = todo[c][j]
          BY <2>1, <4>3
        <5> QED BY <3>1, <4>3, <5>1
      <4> QED BY <2>2, <4>1, <4>2, <4>3 DEF ReplayedJournal
    <3>3. ASSUME NEW j \in DOMAIN todo'[c]
          PROVE  \E i \in DOMAIN journal : todo'[c][j] = journal[i]
      BY <2>1, <2>2, <3>1 DEF ReplayedJournal
    <3> QED BY <3>1, <3>2, <3>3 DEF ReplayedJournal
  <2>7. Ahead(c)'
    BY <1>3, <2>2, <2>5, <2>6 DEF ReplayRejected, Ahead, CounterLeads, JobInHand, ServedJournal
  <2>8. \A d \in Coords \ {c} : pc'[d] = pc[d] /\ ring'[d] = ring[d]
    BY <1>3, TakeUpType DEF ReplayRejected
  <2> QED BY <1>3, <1>f, <1>p, <1>r, <2>2, <2>7, <2>8 DEF ReplayRejected, disk, net
<1>4. ASSUME NEW c \in Coords, ReplayState(c) PROVE RevisionInvariant'
  <2>1. PICK rec \in Record :
        /\ rec = Head(todo[c]) /\ Tail(todo[c]) \in Seq(Record)
        /\ \E j \in DOMAIN todo[c] : rec = todo[c][j]
        /\ \A i \in DOMAIN Tail(todo[c]) : \E j \in DOMAIN todo[c] : Tail(todo[c])[i] = todo[c][j]
        /\ \A j \in DOMAIN todo[c] :
              todo[c][j] = rec \/ \E i \in DOMAIN Tail(todo[c]) : Tail(todo[c])[i] = todo[c][j]
    <3>1. todo[c] # <<>>
      BY <1>4 DEF ReplayState
    <3> QED BY <3>1, NextRecord
  <2>2. pc[c] = "replay" /\ ReplayedJournal(c) /\ RingOnDisk(c)
    BY <1>4 DEF ReplayState, RevisionInvariant, Ahead
  <2>3. Landed(rec)'
    BY <1>4, <2>1, MaterializeStateFacts DEF ReplayState, Landed
  <2>4. OnDisk(ReplyTo(rec))' /\ ReplyTo(rec) \in Reply
    BY <2>1, <2>3, LandedAnswers, RecordFacts
  <2>5. RingOnDisk(c)'
    <3>1. \A i \in DOMAIN ring'[c] :
             ring'[c][i] = ReplyTo(rec) \/ \E j \in DOMAIN ring[c] : ring'[c][i] = ring[c][j]
      BY <1>4, <2>1, TakeUpType DEF ReplayState
    <3> QED BY <1>l, <1>g, <2>2, <2>4, <3>1 DEF RingOnDisk
  <2>6. pc'[c] = "replayStatus" /\ \A d \in Coords \ {c} : pc'[d] = pc[d]
    BY <1>4, <1>o DEF ReplayState, Labels, Booting
  <2>7. ReplayedJournal(c)'
    <3>1. todo'[c] = Tail(todo[c]) /\ journal' = journal
      BY <1>4, TakeUpType DEF ReplayState
    <3>2. ASSUME NEW i \in DOMAIN journal
          PROVE  Landed(journal[i])' \/ \E j \in DOMAIN todo'[c] : todo'[c][j] = journal[i]
      <4>1. CASE Landed(journal[i])
        BY <1>l, <1>j, <3>1, <4>1
      <4>2. CASE journal[i] = rec
        BY <2>3, <3>1, <4>2
      <4>3. ASSUME NEW j \in DOMAIN todo[c], todo[c][j] = journal[i], journal[i] # rec
            PROVE  \E k \in DOMAIN todo'[c] : todo'[c][k] = journal[i]
        <5>1. \E k \in DOMAIN Tail(todo[c]) : Tail(todo[c])[k] = todo[c][j]
          BY <2>1, <4>3
        <5> QED BY <3>1, <4>3, <5>1
      <4> QED BY <2>2, <4>1, <4>2, <4>3 DEF ReplayedJournal
    <3>3. ASSUME NEW j \in DOMAIN todo'[c]
          PROVE  \E i \in DOMAIN journal : todo'[c][j] = journal[i]
      BY <2>1, <2>2, <3>1 DEF ReplayedJournal
    <3> QED BY <3>1, <3>2, <3>3 DEF ReplayedJournal
  <2>8. Ahead(c)'
    BY <2>5, <2>6, <2>7 DEF Ahead, CounterLeads, JobInHand, ServedJournal
  <2>9. \A d \in Coords \ {c} : ring'[d] = ring[d]
    BY <1>4, TakeUpType DEF ReplayState
  <2> QED BY <1>4, <1>f, <1>p, <1>r, <2>2, <2>6, <2>8, <2>9 DEF ReplayState, net
<1>5. ASSUME NEW c \in Coords, ReplayStatus(c) PROVE RevisionInvariant'
  <2>1. pc'[c] = "replay" /\ \A d \in Coords \ {c} : pc'[d] = pc[d]
    BY <1>5, <1>o DEF ReplayStatus, Labels, Booting
  <2>2. ReplayedJournal(c)'
    BY <1>5, <1>l, <1>j DEF ReplayStatus, ReplayedJournal, RevisionInvariant, Ahead
  <2>3. Ahead(c)'
    BY <1>5, <1>s, <2>1, <2>2 DEF ReplayStatus, Ahead, CounterLeads, JobInHand, ServedJournal
  <2> QED BY <1>5, <1>f, <1>p, <1>r, <2>1, <2>3 DEF ReplayStatus, net
<1>6. ASSUME NEW c \in Coords, FinishBoot(c) PROVE RevisionInvariant'
  <2>1. pc'[c] = "idle" /\ \A d \in Coords \ {c} : pc'[d] = pc[d]
    BY <1>6, <1>o DEF FinishBoot, Labels
  <2>2. pc[c] = "replay" /\ todo[c] = <<>> /\ ReplayedJournal(c)
    BY <1>6 DEF FinishBoot, RevisionInvariant, Ahead
  <2>3. CounterLeads(c)'
    BY <1>6, <2>1 DEF FinishBoot, CounterLeads, TypeOK, disk
  <2>4. ServedJournal(c)'
    <3>1. \A i \in DOMAIN journal : Landed(journal[i])
      BY <2>2 DEF ReplayedJournal
    <3> QED BY <1>6, <1>l, <1>j, <3>1 DEF FinishBoot, ServedJournal, disk
  <2>5. Ahead(c)'
    BY <1>6, <1>s, <2>1, <2>3, <2>4 DEF FinishBoot, Ahead, JobInHand, ReplayedJournal
  <2> QED BY <1>6, <1>f, <1>p, <1>r, <2>1, <2>2, <2>5 DEF FinishBoot, disk
<1>7. ASSUME NEW cmd \in Commands, Send(cmd) PROVE RevisionInvariant'
  <2>1. UNCHANGED <<state, journal, replies, pc, job, todo, counter, ring>>
    BY <1>7 DEF Send, disk, memory
  <2>2. ASSUME NEW c \in Coords PROVE Ahead(c)'
    BY <1>l, <1>j, <1>s, <2>1
    DEF RevisionInvariant, Ahead, CounterLeads, JobInHand, ServedJournal, ReplayedJournal, Landed
  <2> QED BY <1>p, <1>r, <1>h, <2>1, <2>2 DEF RevisionInvariant
<1>8. ASSUME NEW c \in Coords, NEW cmd \in Commands, AnswerDuplicate(c, cmd)
      PROVE  RevisionInvariant'
  <2>1. pc[c] = "idle" /\ Ahead(c) /\ UNCHANGED <<state, journal, pc, job, todo, counter>>
    BY <1>8, <1>q DEF AnswerDuplicate, Receive, disk
  <2>2. \A i \in DOMAIN journal : OnDisk(ReplyTo(journal[i])) /\ ReplyTo(journal[i]) \in Reply
    BY <1>j, <2>1, LandedAnswers, RecordFacts DEF Ahead, ServedJournal
  <2>3. PICK reply \in Reply :
           /\ OnDisk(reply) /\ replies' = replies \cup {reply}
           /\ UNCHANGED ring \/ Remember(c, reply)
    BY <1>8, <1>g, <2>1, <2>2 DEF AnswerDuplicate, Ahead, RingOnDisk
  <2>4. RepliesOnDisk'
    BY <1>l, <2>3 DEF RevisionInvariant, RepliesOnDisk, TypeOK
  <2>5. RingOnDisk(c)' /\ \A d \in Coords \ {c} : ring'[d] = ring[d]
    BY <1>8, <1>l, <1>g, <2>1, <2>3, RememberFacts DEF Ahead, RingOnDisk
  <2>6. Ahead(c)'
    BY <1>l, <1>j, <2>1, <2>5
    DEF Ahead, CounterLeads, JobInHand, ServedJournal, ReplayedJournal
  <2> QED BY <1>f, <1>r, <2>1, <2>4, <2>5, <2>6
<1>9. ASSUME NEW c \in Coords, NEW cmd \in Commands, RejectBeat(c, cmd)
      PROVE  RevisionInvariant'
  <2>1. /\ pc[c] = "idle" /\ Ahead(c)
        /\ UNCHANGED <<state, journal, pc, job, todo, counter, ring>>
    BY <1>9, <1>q DEF RejectBeat, Receive, disk, memory
  <2>2. Decided(c, cmd) \in Record /\ Landed(Decided(c, cmd))
    <3>1. Decided(c, cmd).rev = state[cmd.view].rev /\ Decided(c, cmd).cmd = cmd
      BY <1>9 DEF RejectBeat, Decided
    <3>2. cmd.view \in Views
      BY CommandFacts
    <3> QED BY <1>v, <3>1, <3>2, DecidedType DEF Landed
  <2>3. PICK reply \in Reply : OnDisk(reply) /\ replies' = replies \cup {reply}
    BY <1>9, <2>2, LandedAnswers, RecordFacts DEF RejectBeat
  <2>4. RepliesOnDisk'
    BY <1>l, <2>3 DEF RevisionInvariant, RepliesOnDisk, TypeOK
  <2>5. Ahead(c)'
    BY <1>l, <1>j, <1>s, <2>1
    DEF Ahead, CounterLeads, JobInHand, ServedJournal, ReplayedJournal
  <2> QED BY <1>f, <1>r, <2>1, <2>4, <2>5
<1>10. ASSUME NEW c \in Coords, NEW cmd \in Commands, Decide(c, cmd) PROVE RevisionInvariant'
  <2>1. /\ pc[c] = "idle" /\ Ahead(c)
        /\ UNCHANGED <<state, journal, replies, todo, counter, ring>>
        /\ job'[c].rec = Decided(c, cmd)
    BY <1>10, <1>q DEF Decide, Receive, disk, TypeOK
  <2>2. pc'[c] \in {"state", "append"} /\ \A d \in Coords \ {c} : pc'[d] = pc[d]
    BY <1>10, <1>o DEF Decide, Labels
  <2>3. /\ pc'[c] = "state" => Decision(cmd).action = "apply"
        /\ Decision(cmd).action = "apply"
              => Decided(c, cmd).status = "applied" /\ Decided(c, cmd).rev = counter[c] + 1
        /\ Decision(cmd).action # "apply"
              => /\ Decided(c, cmd).status = "rejected" /\ Decided(c, cmd).cmd = cmd
                 /\ Decided(c, cmd).rev = state[cmd.view].rev
    BY <1>10, <1>o DEF Decide, Decided, Labels
  <2>4. cmd.view \in Views
    BY CommandFacts
  <2>5. JobInHand(c)'
    BY <1>v, <2>1, <2>2, <2>3, <2>4 DEF JobInHand, Landed
  <2>6. Ahead(c)'
    BY <1>l, <1>j, <1>s, <2>1, <2>2, <2>5
    DEF Ahead, CounterLeads, ServedJournal, ReplayedJournal
  <2> QED BY <1>f, <1>p, <1>r, <2>1, <2>2, <2>6
<1>11. ASSUME NEW c \in Coords, AppendRecord(c) PROVE RevisionInvariant'
  <2>1. PICK rec \in Record : rec = job[c].rec /\ ReplyTo(rec) \in Reply
    BY <1>11, JobReply DEF AppendRecord, TypeOK
  <2>2. /\ pc[c] = "append" /\ Ahead(c)
        /\ UNCHANGED <<state, replies, todo, counter>>
    BY <1>11, <1>q DEF AppendRecord, net
  <2>3. job'[c].rec = rec
    BY <1>11, <2>1 DEF AppendRecord, TypeOK, Job
  <2>4. \A i \in DOMAIN journal' :
           journal'[i] = rec \/ \E j \in DOMAIN journal : journal'[i] = journal[j]
    BY <1>11, <2>1, AppendElements DEF AppendRecord, TypeOK
  <2>5. \A i \in DOMAIN journal : Landed(journal[i])
    BY <2>2 DEF Ahead, ServedJournal
  <2>6. \A i \in DOMAIN journal' :
           journal'[i] = rec \/ Landed(journal'[i])
    BY <2>4, <2>5
  <2>7. /\ rec.status = "applied" => pc'[c] = "state" /\ UNCHANGED ring
        /\ rec.status # "applied" => pc'[c] = "checkpoint" /\ Remember(c, ReplyTo(rec))
        /\ \A d \in Coords \ {c} : pc'[d] = pc[d]
    BY <1>11, <1>o, <2>1 DEF AppendRecord, Labels
  <2>8. /\ rec.status = "applied" => rec.rev = counter[c] + 1
        /\ rec.status # "applied" => Landed(rec) /\ OnDisk(ReplyTo(rec))
    BY <2>1, <2>2, LandedAnswers DEF Ahead, JobInHand
  <2>9. RejectedLanded'
    BY <2>2, <2>6, <2>8 DEF RejectedLanded, Landed
  <2>10. RingOnDisk(c)' /\ \A d \in Coords \ {c} : ring'[d] = ring[d]
    BY <1>l, <1>g, <2>1, <2>2, <2>7, <2>8, RememberFacts DEF Ahead, RingOnDisk
  <2>11. ServedJournal(c)' /\ JobInHand(c)'
    BY <2>2, <2>3, <2>6, <2>7, <2>8 DEF ServedJournal, JobInHand, Landed
  <2>12. Ahead(c)'
    BY <2>2, <2>7, <2>10, <2>11 DEF Ahead, CounterLeads, ReplayedJournal
  <2> QED BY <1>f, <1>p, <2>2, <2>7, <2>9, <2>10, <2>12
<1>12. ASSUME NEW c \in Coords, WriteState(c) PROVE RevisionInvariant'
  <2>1. PICK rec \in Record, bytes \in Nat : rec = job[c].rec /\ bytes = job[c].bytes
    BY <1>12, JobReply DEF WriteState, TypeOK, Job
  <2>2. /\ pc[c] = "state" /\ Ahead(c) /\ rec.status = "applied" /\ rec.rev = counter[c] + 1
        /\ UNCHANGED <<journal, replies, todo, counter, ring>>
    BY <1>12, <1>q, <2>1 DEF WriteState, Ahead, JobInHand, net
  <2>3. /\ \A v \in Views : state'[v].rev \in {state[v].rev, rec.rev}
        /\ state'[rec.cmd.view].rev >= rec.rev
        /\ job'[c].rec = rec
    BY <1>12, <2>1, MaterializeStateFacts DEF WriteState
  <2>4. pc'[c] = "status" /\ \A d \in Coords \ {c} : pc'[d] = pc[d]
    BY <1>12, <1>o DEF WriteState, Labels
  <2>5. rec.rev <= state'[rec.cmd.view].rev
    <3>1. rec.rev \in Nat /\ state'[rec.cmd.view].rev \in Nat
      BY <1>t, RecordFacts DEF TypeOK, StateFile
    <3> QED BY <2>3, <3>1
  <2>6. CounterLeads(c)'
    BY <1>v, <1>c, <2>2, <2>3, <2>4 DEF Ahead, CounterLeads
  <2>7. JobInHand(c)'
    BY <2>2, <2>3, <2>4, <2>5 DEF JobInHand, Landed
  <2>8. ServedJournal(c)'
    <3>1. \A i \in DOMAIN journal : Landed(journal[i]) \/ journal[i] = rec
      BY <2>1, <2>2 DEF Ahead, ServedJournal
    <3>2. Landed(rec)'
      BY <2>5 DEF Landed
    <3> QED BY <1>l, <1>j, <2>2, <3>1, <3>2 DEF ServedJournal
  <2>9. Ahead(c)'
    BY <1>s, <2>2, <2>4, <2>6, <2>7, <2>8 DEF Ahead, ReplayedJournal
  <2> QED BY <1>f, <1>p, <1>r, <2>2, <2>4, <2>9
<1>13. ASSUME NEW c \in Coords, WriteStatus(c) PROVE RevisionInvariant'
  <2>1. PICK rec \in Record : rec = job[c].rec /\ ReplyTo(rec) \in Reply
    BY <1>13, JobReply DEF WriteStatus, TypeOK
  <2>2. /\ pc[c] = "status" /\ Ahead(c) /\ Landed(rec) /\ rec.rev = counter[c] + 1
        /\ UNCHANGED <<state, journal, replies, job, todo>>
        /\ counter'[c] = rec.rev
    BY <1>13, <1>q, <2>1 DEF WriteStatus, Ahead, JobInHand, net, TypeOK
  <2>3. /\ pc'[c] \in {"reply", "checkpoint"} /\ \A d \in Coords \ {c} : pc'[d] = pc[d]
        /\ UNCHANGED ring \/ Remember(c, ReplyTo(rec))
    BY <1>13, <1>o, <2>1 DEF WriteStatus, Labels
  <2>4. OnDisk(ReplyTo(rec))
    BY <2>2, LandedAnswers
  <2>5. RingOnDisk(c)' /\ \A d \in Coords \ {c} : ring'[d] = ring[d]
    BY <1>l, <1>g, <2>1, <2>2, <2>3, <2>4, RememberFacts DEF Ahead, RingOnDisk
  <2>6. CounterLeads(c)'
    BY <2>2, <2>3 DEF Ahead, CounterLeads
  <2>7. ServedJournal(c)'
    BY <1>l, <1>j, <2>2, <2>3 DEF Ahead, ServedJournal
  <2>8. JobInHand(c)'
    BY <1>l, <2>1, <2>2, <2>3 DEF JobInHand
  <2>9. Ahead(c)'
    BY <2>3, <2>5, <2>6, <2>7, <2>8 DEF Ahead, ReplayedJournal
  <2> QED BY <1>f, <1>p, <1>r, <2>2, <2>3, <2>5, <2>9
<1>14. ASSUME NEW c \in Coords,
              pc[c] \in {"checkpoint", "gc"}, pc'[c] \in {"gc", "reply"},
              \A d \in Coords \ {c} : pc'[d] = pc[d],
              UNCHANGED <<state, replies, job, todo, counter, ring>>,
              \A i \in DOMAIN journal' : \E j \in DOMAIN journal : journal'[i] = journal[j]
       PROVE  RevisionInvariant'
  <2>1. Ahead(c)
    BY <1>14, <1>q
  <2>2. \A i \in DOMAIN journal' : Landed(journal'[i])
    BY <1>14, <2>1 DEF Ahead, ServedJournal
  <2>3. RejectedLanded' /\ ServedJournal(c)'
    BY <1>14, <2>2 DEF RejectedLanded, ServedJournal, Landed
  <2>4. JobInHand(c)' /\ CounterLeads(c)'
    BY <1>14, <2>1 DEF Ahead, JobInHand, CounterLeads, Landed
  <2>5. Ahead(c)'
    BY <1>14, <1>s, <2>3, <2>4 DEF Ahead, ReplayedJournal
  <2> QED BY <1>f, <1>p, <1>14, <2>3, <2>5
<1>15. ASSUME NEW c \in Coords,
              SkipCheckpoint(c) \/ WriteCheckpoint(c) \/ CollectNothing(c)
       PROVE  RevisionInvariant'
  <2>1. pc'[c] \in {"gc", "reply"} /\ \A d \in Coords \ {c} : pc'[d] = pc[d]
    BY <1>15, <1>o DEF SkipCheckpoint, WriteCheckpoint, CollectNothing, Labels
  <2>2. UNCHANGED <<state, journal, replies, job, todo, counter, ring>>
    BY <1>15 DEF SkipCheckpoint, WriteCheckpoint, CollectNothing, disk, net
  <2> QED BY <1>14, <1>15, <2>1, <2>2 DEF SkipCheckpoint, WriteCheckpoint, CollectNothing
<1>16. ASSUME NEW c \in Coords, CollectGarbage(c) PROVE RevisionInvariant'
  <2>1. pc'[c] = "reply" /\ \A d \in Coords \ {c} : pc'[d] = pc[d]
    BY <1>16, <1>o DEF CollectGarbage, Labels
  <2>2. \A i \in DOMAIN journal' : \E j \in DOMAIN journal : journal'[i] = journal[j]
    BY <1>16, CollectedElements
  <2> QED BY <1>14, <1>16, <2>1, <2>2 DEF CollectGarbage, net
<1>17. ASSUME NEW c \in Coords, Answer(c) PROVE RevisionInvariant'
  <2>1. PICK rec \in Record : rec = job[c].rec /\ ReplyTo(rec) \in Reply
    BY <1>17, JobReply DEF Answer, TypeOK
  <2>2. /\ pc[c] = "reply" /\ Ahead(c) /\ Landed(rec)
        /\ UNCHANGED <<state, journal, job, todo, counter, ring>>
    BY <1>17, <1>q, <2>1 DEF Answer, Ahead, JobInHand, disk
  <2>3. pc'[c] = "idle" /\ \A d \in Coords \ {c} : pc'[d] = pc[d]
    BY <1>17, <1>o DEF Answer, Labels
  <2>4. OnDisk(ReplyTo(rec)) /\ replies' = replies \cup {ReplyTo(rec)}
    BY <1>17, <2>1, <2>2, LandedAnswers DEF Answer
  <2>5. RepliesOnDisk'
    BY <1>l, <2>1, <2>4 DEF RevisionInvariant, RepliesOnDisk, TypeOK
  <2>6. Ahead(c)'
    BY <1>l, <1>j, <1>s, <2>2, <2>3
    DEF Ahead, CounterLeads, JobInHand, ServedJournal, ReplayedJournal
  <2> QED BY <1>f, <1>r, <2>2, <2>3, <2>5, <2>6
<1>18. ASSUME NEW c \in Coords, pc[c] # "down", Vanish(c) PROVE RevisionInvariant'
  <2>1. pc'[c] = "down" /\ \A d \in Coords \ {c} : pc'[d] = pc[d]
    BY <1>18, <1>o DEF Vanish, Labels
  <2>2. ring'[c] = <<>> /\ \A d \in Coords \ {c} : ring'[d] = ring[d]
    BY <1>18 DEF Vanish, TypeOK
  <2>3. Ahead(c)'
    BY <2>1, <2>2
    DEF Ahead, RingOnDisk, CounterLeads, JobInHand, ServedJournal, ReplayedJournal
  <2> QED BY <1>18, <1>f, <1>p, <1>r, <2>1, <2>2, <2>3 DEF Vanish
<1>19. CASE UNCHANGED vars
  <2>1. UNCHANGED <<state, journal, replies, pc, job, todo, counter, ring>>
    BY <1>19 DEF vars, disk, net, memory
  <2>2. ASSUME NEW c \in Coords PROVE Ahead(c)'
    BY <1>l, <1>j, <1>s, <2>1
    DEF RevisionInvariant, Ahead, CounterLeads, JobInHand, ServedJournal, ReplayedJournal, Landed
  <2> QED BY <1>p, <1>r, <1>h, <2>1, <2>2 DEF RevisionInvariant
<1>20. ASSUME NEW c \in Coords, Crash(c) \/ Shutdown(c) PROVE RevisionInvariant'
  BY <1>18, <1>20 DEF Crash, Shutdown
<1> QED
  BY <1>1, <1>2, <1>3, <1>4, <1>5, <1>6, <1>7, <1>8, <1>9, <1>10, <1>11, <1>12, <1>13,
     <1>15, <1>16, <1>17, <1>19, <1>20 DEF Next, Boot, Serve


\* Initially nothing was issued and nobody runs.
LEMMA InitRevisions == Init => RevisionInvariant /\ IssuedOnce
<1> SUFFICES ASSUME Init PROVE RevisionInvariant /\ IssuedOnce
  OBVIOUS
<1>1. OneHolder /\ RepliesOnDisk /\ RejectedLanded
  BY DEF Init, OneHolder, RepliesOnDisk, RejectedLanded
<1>2. \A c \in Coords : Ahead(c)
  BY DEF Init, Ahead, RingOnDisk, CounterLeads, JobInHand, ServedJournal, ReplayedJournal, Serving
<1>3. \A reply : ~Issued(reply)
  BY DEF Init, Issued, Serving
<1> QED BY <1>1, <1>2, <1>3 DEF RevisionInvariant, IssuedOnce

\* An idle coordinator counts past everything that was ever issued.
LEMMA IssuedBehindCounter ==
    ASSUME TypeOK, RevisionInvariant, NEW c \in Coords, pc[c] = "idle",
           NEW reply \in Reply, Issued(reply)
    PROVE  reply.rev <= counter[c]
<1>1. CounterLeads(c) /\ ServedJournal(c) /\ \A d \in Coords \ {c} : pc[d] = "down"
  BY Alone DEF RevisionInvariant, Ahead
<1>2. OnDisk(reply)
  <2>1. CASE reply \in replies
    BY <2>1 DEF RevisionInvariant, RepliesOnDisk
  <2>2. ASSUME NEW i \in DOMAIN journal, reply = ReplyTo(journal[i]) PROVE OnDisk(reply)
    <3>1. journal[i] \in Record /\ Landed(journal[i])
      BY <1>1 DEF ServedJournal, Serving, TypeOK
    <3> QED BY <2>2, <3>1, LandedAnswers
  <2>3. ASSUME NEW d \in Coords, NEW i \in DOMAIN ring[d], reply = ring[d][i]
        PROVE  OnDisk(reply)
    BY <2>3 DEF RevisionInvariant, Ahead, RingOnDisk
  <2> QED BY <1>1, <2>1, <2>2, <2>3 DEF Issued, Serving
<1>3. PICK cmd \in Commands : cmd.id = reply.id
  BY DEF Reply, Ids
<1>4. cmd.view \in Views /\ reply.rev <= state[cmd.view].rev
  BY <1>2, <1>3, CommandFacts DEF OnDisk
<1>5. state[cmd.view].rev <= counter[c]
  BY <1>1, <1>4 DEF CounterLeads, Serving
<1>6. reply.rev \in Nat /\ state[cmd.view].rev \in Nat /\ counter[c] \in Nat
  BY <1>4 DEF Reply, TypeOK, StateFile
<1> QED BY <1>4, <1>5, <1>6


\* Only deciding a command issues a new revision, and it issues a fresh one.
LEMMA IssuedStep ==
    ASSUME TypeOK, RevisionInvariant, IssuedOnce, [Next]_vars
    PROVE  IssuedOnce'
<1> USE DEF Serving
<1> DEFINE Hand(c) == pc[c] \in Serving \ {"idle"}
<1>k. ASSUME \A reply \in Reply : reply.status = "applied" /\ Issued(reply)' => Issued(reply)
      PROVE  IssuedOnce'
  BY <1>k DEF IssuedOnce
<1>e. ASSUME UNCHANGED <<replies, journal, ring>>,
             \A c \in Coords : Hand(c)' => Hand(c) /\ job'[c].rec = job[c].rec
      PROVE  IssuedOnce'
  BY <1>k, <1>e DEF Issued
<1>o. ASSUME NEW c \in Coords, NEW label \in Labels, Goto(c, label)
      PROVE  pc'[c] = label /\ \A d \in Coords \ {c} : pc'[d] = pc[d]
  BY <1>o, GotoFacts
<1>1. ASSUME NEW c \in Coords, AcquireLease(c) PROVE IssuedOnce'
  <2>1. pc'[c] = "repair" /\ \A d \in Coords \ {c} : pc'[d] = pc[d]
    BY <1>1, <1>o DEF AcquireLease, Labels, Booting
  <2> QED BY <1>1, <1>e, <2>1 DEF AcquireLease, disk, net
<1>2. ASSUME NEW c \in Coords, Repair(c) PROVE IssuedOnce'
  <2>1. pc'[c] = "replay" /\ \A d \in Coords \ {c} : pc'[d] = pc[d]
    BY <1>2, <1>o DEF Repair, Labels, Booting
  <2>2. ring'[c] = <<>> /\ \A d \in Coords \ {c} : ring'[d] = ring[d]
    BY <1>2 DEF Repair, TypeOK
  <2> QED BY <1>2, <1>k, <2>1, <2>2 DEF Repair, Issued, net
<1>3. ASSUME NEW c \in Coords, ReplayRejected(c) \/ ReplayState(c) PROVE IssuedOnce'
  <2>1. /\ todo[c] # <<>> /\ TakeUp(c, Head(todo[c])) /\ pc[c] = "replay"
        /\ UNCHANGED <<replies, journal>>
    BY <1>3 DEF ReplayRejected, ReplayState, disk, net
  <2>2. PICK rec \in Record : rec = Head(todo[c]) /\ \E j \in DOMAIN todo[c] : rec = todo[c][j]
    BY <2>1, NextRecord
  <2>3. \E i \in DOMAIN journal : rec = journal[i]
    <3>1. ReplayedJournal(c)
      BY DEF RevisionInvariant, Ahead
    <3> QED BY <2>1, <2>2, <3>1 DEF ReplayedJournal
  <2>4. /\ \A i \in DOMAIN ring'[c] :
              ring'[c][i] = ReplyTo(rec) \/ \E j \in DOMAIN ring[c] : ring'[c][i] = ring[c][j]
        /\ \A d \in Coords \ {c} : ring'[d] = ring[d]
    BY <2>1, <2>2, TakeUpType
  <2>5. pc'[c] \in {"replay", "replayStatus"} /\ \A d \in Coords \ {c} : pc'[d] = pc[d]
    BY <1>3, <1>o, <2>1 DEF ReplayRejected, ReplayState, Labels, Booting
  <2>6. \A d \in Coords \ {c} : pc[d] = "down"
    BY <2>1, Alone DEF RevisionInvariant
  <2>7. \A d \in Coords : ~Hand(d)'
    BY <2>5, <2>6
  <2> QED BY <1>k, <2>1, <2>3, <2>4, <2>7 DEF Issued
<1>4. ASSUME NEW c \in Coords, ReplayStatus(c) \/ FinishBoot(c) PROVE IssuedOnce'
  <2>1. pc'[c] \in {"replay", "idle"} /\ \A d \in Coords \ {c} : pc'[d] = pc[d]
    BY <1>4, <1>o DEF ReplayStatus, FinishBoot, Labels, Booting
  <2> QED BY <1>4, <1>e, <2>1 DEF ReplayStatus, FinishBoot, disk, net
<1>5. ASSUME NEW cmd \in Commands, Send(cmd) PROVE IssuedOnce'
  BY <1>5, <1>e DEF Send, disk, memory
<1>6. ASSUME NEW c \in Coords, NEW cmd \in Commands, AnswerDuplicate(c, cmd) PROVE IssuedOnce'
  <2>1. \A i \in DOMAIN journal : ReplyTo(journal[i]) \in Reply
    BY RecordFacts DEF TypeOK
  <2>2. \A i \in DOMAIN ring[c] : ring[c][i] \in Reply
    BY DEF TypeOK
  <2>3. PICK reply \in Reply :
           /\ Issued(reply) /\ replies' = replies \cup {reply}
           /\ UNCHANGED ring \/ Remember(c, reply)
    BY <1>6, <2>1, <2>2 DEF AnswerDuplicate, Issued
  <2>4. /\ \A i \in DOMAIN ring'[c] :
              ring'[c][i] = reply \/ \E j \in DOMAIN ring[c] : ring'[c][i] = ring[c][j]
        /\ \A d \in Coords \ {c} : ring'[d] = ring[d]
    BY <2>3, RememberFacts
  <2>5. UNCHANGED <<journal, pc, job>>
    BY <1>6 DEF AnswerDuplicate, disk
  <2> QED BY <1>k, <2>3, <2>4, <2>5 DEF Issued
<1>7. ASSUME NEW c \in Coords, NEW cmd \in Commands, RejectBeat(c, cmd) PROVE IssuedOnce'
  <2>1. /\ replies' = replies \cup {ReplyTo(Decided(c, cmd))}
        /\ ReplyTo(Decided(c, cmd)).status = "rejected"
        /\ UNCHANGED <<journal, ring, pc, job>>
    BY <1>7 DEF RejectBeat, Decided, ReplyTo, disk, memory
  <2>2. PICK reply \in Reply : reply.status = "rejected" /\ replies' = replies \cup {reply}
    BY <2>1, DecidedType, RecordFacts
  <2> QED BY <1>k, <2>1, <2>2 DEF Issued
<1>8. ASSUME NEW c \in Coords, NEW cmd \in Commands, Decide(c, cmd) PROVE IssuedOnce'
  <2>1. PICK rec \in Record : rec = Decided(c, cmd)
    BY DecidedType
  <2>2. /\ pc[c] = "idle" /\ job'[c].rec = rec /\ \A d \in Coords \ {c} : job'[d] = job[d]
        /\ UNCHANGED <<replies, journal, ring>>
    BY <1>8, <2>1 DEF Decide, Receive, disk, TypeOK
  <2>3. \A d \in Coords \ {c} : pc'[d] = pc[d]
    BY <1>8, <1>o DEF Decide, Labels
  <2>4. \A reply \in Reply : Issued(reply)' => Issued(reply) \/ reply = ReplyTo(rec)
    BY <2>2, <2>3 DEF Issued
  <2>5. rec.status = "applied" => rec.rev = counter[c] + 1
    BY <2>1 DEF Decided
  <2>6. \A reply \in Reply : Issued(reply) => reply.rev <= counter[c]
    BY <2>2, IssuedBehindCounter
  <2>7. ReplyTo(rec).status = rec.status /\ ReplyTo(rec).rev = rec.rev
    BY DEF ReplyTo
  <2>8. counter[c] \in Nat /\ \A reply \in Reply : reply.rev \in Nat
    BY DEF TypeOK, Reply
  <2>9. \A reply \in Reply :
           Issued(reply) /\ rec.status = "applied" => reply.rev # ReplyTo(rec).rev
    BY <2>5, <2>6, <2>7, <2>8
  <2>10. ASSUME NEW a \in Reply, NEW b \in Reply, Issued(a)', Issued(b)',
                a.status = "applied", b.status = "applied", a.rev = b.rev
         PROVE  a.id = b.id
    BY <2>4, <2>7, <2>9, <2>10 DEF IssuedOnce
  <2> QED BY <2>10 DEF IssuedOnce
<1>9. ASSUME NEW c \in Coords, AppendRecord(c) PROVE IssuedOnce'
  <2>1. PICK rec \in Record : rec = job[c].rec /\ ReplyTo(rec) \in Reply
    BY <1>9, JobReply DEF AppendRecord, TypeOK
  <2>2. Issued(ReplyTo(rec))
    BY <1>9, <2>1 DEF AppendRecord, Issued
  <2>3. \A i \in DOMAIN journal' :
           journal'[i] = rec \/ \E j \in DOMAIN journal : journal'[i] = journal[j]
    BY <1>9, <2>1, AppendElements DEF AppendRecord, TypeOK
  <2>4. /\ UNCHANGED ring \/ Remember(c, ReplyTo(rec))
        /\ \A d \in Coords \ {c} : pc'[d] = pc[d]
    BY <1>9, <1>o, <2>1 DEF AppendRecord, Labels
  <2>5. /\ \A i \in DOMAIN ring'[c] :
              ring'[c][i] = ReplyTo(rec) \/ \E j \in DOMAIN ring[c] : ring'[c][i] = ring[c][j]
        /\ \A d \in Coords \ {c} : ring'[d] = ring[d]
    BY <2>1, <2>4, RememberFacts
  <2>6. /\ job'[c].rec = rec /\ \A d \in Coords \ {c} : job'[d] = job[d]
        /\ UNCHANGED replies
    BY <1>9, <2>1 DEF AppendRecord, TypeOK, Job, net
  <2> QED BY <1>k, <2>2, <2>3, <2>4, <2>5, <2>6 DEF Issued
<1>10. ASSUME NEW c \in Coords, WriteState(c) PROVE IssuedOnce'
  <2>1. PICK rec \in Record, bytes \in Nat : rec = job[c].rec /\ bytes = job[c].bytes
    BY <1>10, JobReply DEF WriteState, TypeOK, Job
  <2>2. job'[c].rec = job[c].rec /\ \A d \in Coords \ {c} : job'[d] = job[d]
    BY <1>10, <2>1, MaterializeStateFacts DEF WriteState
  <2>3. \A d \in Coords \ {c} : pc'[d] = pc[d]
    BY <1>10, <1>o DEF WriteState, Labels
  <2>4. pc[c] = "state" /\ UNCHANGED <<replies, journal, ring>>
    BY <1>10 DEF WriteState, net
  <2> QED BY <1>e, <2>2, <2>3, <2>4
<1>11. ASSUME NEW c \in Coords, WriteStatus(c) PROVE IssuedOnce'
  <2>1. PICK rec \in Record : rec = job[c].rec /\ ReplyTo(rec) \in Reply
    BY <1>11, JobReply DEF WriteStatus, TypeOK
  <2>2. Issued(ReplyTo(rec))
    BY <1>11, <2>1 DEF WriteStatus, Issued
  <2>3. /\ UNCHANGED ring \/ Remember(c, ReplyTo(rec))
        /\ \A d \in Coords \ {c} : pc'[d] = pc[d]
    BY <1>11, <1>o, <2>1 DEF WriteStatus, Labels
  <2>4. /\ \A i \in DOMAIN ring'[c] :
              ring'[c][i] = ReplyTo(rec) \/ \E j \in DOMAIN ring[c] : ring'[c][i] = ring[c][j]
        /\ \A d \in Coords \ {c} : ring'[d] = ring[d]
    BY <2>1, <2>3, RememberFacts
  <2>5. pc[c] = "status" /\ UNCHANGED <<replies, journal, job>>
    BY <1>11 DEF WriteStatus, net
  <2> QED BY <1>k, <2>1, <2>2, <2>3, <2>4, <2>5 DEF Issued
<1>12. ASSUME NEW c \in Coords,
              SkipCheckpoint(c) \/ WriteCheckpoint(c) \/ CollectNothing(c)
       PROVE  IssuedOnce'
  <2>1. pc[c] \in {"checkpoint", "gc"} /\ \A d \in Coords \ {c} : pc'[d] = pc[d]
    BY <1>12, <1>o DEF SkipCheckpoint, WriteCheckpoint, CollectNothing, Labels
  <2>2. UNCHANGED <<journal, replies, job, ring>>
    BY <1>12 DEF SkipCheckpoint, WriteCheckpoint, CollectNothing, disk, net
  <2> QED BY <1>e, <2>1, <2>2
<1>13. ASSUME NEW c \in Coords, CollectGarbage(c) PROVE IssuedOnce'
  <2>1. pc[c] = "gc" /\ \A d \in Coords \ {c} : pc'[d] = pc[d]
    BY <1>13, <1>o DEF CollectGarbage, Labels
  <2>2. \A i \in DOMAIN journal' : \E j \in DOMAIN journal : journal'[i] = journal[j]
    BY <1>13, CollectedElements
  <2>3. UNCHANGED <<replies, job, ring>>
    BY <1>13 DEF CollectGarbage, net
  <2> QED BY <1>k, <2>1, <2>2, <2>3 DEF Issued
<1>14. ASSUME NEW c \in Coords, Answer(c) PROVE IssuedOnce'
  <2>1. PICK reply \in Reply : reply = ReplyTo(job[c].rec)
    BY <1>14, JobReply DEF Answer, TypeOK
  <2>2. Issued(reply) /\ replies' = replies \cup {reply}
    BY <1>14, <2>1 DEF Answer, Issued
  <2>3. pc'[c] = "idle" /\ \A d \in Coords \ {c} : pc'[d] = pc[d]
    BY <1>14, <1>o DEF Answer, Labels
  <2>4. UNCHANGED <<journal, job, ring>>
    BY <1>14 DEF Answer, disk
  <2> QED BY <1>k, <2>2, <2>3, <2>4 DEF Issued
<1>15. ASSUME NEW c \in Coords, Vanish(c) PROVE IssuedOnce'
  <2>1. pc'[c] = "down" /\ \A d \in Coords \ {c} : pc'[d] = pc[d]
    BY <1>15, <1>o DEF Vanish, Labels
  <2>2. /\ ring'[c] = <<>> /\ \A d \in Coords \ {c} : ring'[d] = ring[d] /\ job'[d] = job[d]
        /\ UNCHANGED <<replies, journal>>
    BY <1>15 DEF Vanish, TypeOK
  <2> QED BY <1>k, <2>1, <2>2 DEF Issued
<1>16. ASSUME NEW c \in Coords, Crash(c) \/ Shutdown(c) PROVE IssuedOnce'
  BY <1>15, <1>16 DEF Crash, Shutdown
<1>17. CASE UNCHANGED vars
  BY <1>e, <1>17 DEF vars, disk, net, memory
<1> QED
  BY <1>1, <1>2, <1>3, <1>4, <1>5, <1>6, <1>7, <1>8, <1>9, <1>10, <1>11, <1>12, <1>13,
     <1>14, <1>16, <1>17 DEF Next, Boot, Serve

RevisionsSafe == TypeOK /\ RevisionInvariant /\ IssuedOnce

\* While no live holder is overtaken the revision invariant holds throughout.
THEOREM RevisionsInvariant ==
    ASSUME ~StaleReclaim
    PROVE  Spec => []RevisionInvariant /\ []IssuedOnce
<1>1. Init => RevisionsSafe
  BY InitTyped, InitRevisions DEF RevisionsSafe
<1>2. RevisionsSafe /\ [Next]_vars => RevisionsSafe'
  BY TypeStep, RevisionStep, IssuedStep DEF RevisionsSafe
<1>3. RevisionsSafe => RevisionInvariant /\ IssuedOnce
  BY DEF RevisionsSafe
<1> QED BY <1>1, <1>2, <1>3, PTL DEF Spec

\* No revision is ever issued twice, whatever crashes, tears and is collected,
\* as long as a lease is only taken from the dead.
THEOREM RevisionsUnique ==
    ASSUME ~StaleReclaim
    PROVE  Spec => []UniqueRevisions
<1>1. TypeOK /\ IssuedOnce => UniqueRevisions
  BY DEF TypeOK, IssuedOnce, Issued, UniqueRevisions
<1> QED BY <1>1, TypeCorrect, RevisionsInvariant, PTL

----------------------------------------------------------------------------
(* A user's verdict, as long as no live holder is overtaken.               *)

\* A record that the fence lets through as the row stands now.
Unfenced(rec) == ~FencedByVerdict(rec.cmd, state[rec.cmd.view].row)

\* At most one record of the journal has not reached its state.json.
OnePending ==
    \A i, j \in DOMAIN journal :
        ~Landed(journal[i]) /\ ~Landed(journal[j]) => journal[i] = journal[j]

\* The verdict a record was decided against cannot be given while it waits to
\* be written: what is still to be written, now or by a replay, is unfenced.
PendingUnfenced ==
    \A i \in DOMAIN journal : ~Landed(journal[i]) => Unfenced(journal[i])

HandUnfenced(c) ==
    pc[c] \in {"append", "state"} /\ job[c].rec.status = "applied" => Unfenced(job[c].rec)

FenceInvariant == OnePending /\ PendingUnfenced /\ \A c \in Coords : HandUnfenced(c)

\* A decision that applies has passed the fence.
LEMMA AppliedIsUnfenced ==
    ASSUME NEW cmd, NEW row, NEW rev, NEW st,
           DecideStateTransition(cmd, row, rev, st).action = "apply"
    PROVE  ~FencedByVerdict(cmd, row)
BY DEF DecideStateTransition, Reject

\* A stamp changes a file only when the file is behind.
LEMMA StampMoves ==
    ASSUME TypeOK, NEW c \in Coords, NEW rec \in Record, NEW bytes, MaterializeState(c, rec, bytes)
    PROVE  /\ Landed(rec) => state' = state
           /\ \A v \in Views : state'[v] # state[v] => v = rec.cmd.view /\ ~Landed(rec)
<1> DEFINE v == rec.cmd.view
<1>1. state \in [Views -> StateFile] /\ v \in Views /\ rec.rev \in Nat
  BY RecordFacts DEF TypeOK
<1>2. state[v].rev \in Nat
  BY <1>1 DEF StateFile
<1>3. state' = [state EXCEPT ![v] = StampState(state[v], rec.row, rec.rev)]
  BY <1>1 DEF MaterializeState
<1>4. Landed(rec) => StampState(state[v], rec.row, rec.rev) = state[v]
  BY <1>1, <1>2 DEF Landed, StampState
<1> QED BY <1>1, <1>3, <1>4

\* Every step keeps it.
LEMMA FenceStep ==
    ASSUME ~StaleReclaim, TypeOK, RevisionInvariant, FenceInvariant, [Next]_vars
    PROVE  FenceInvariant'
<1> USE DEF Serving
<1>t. TypeOK' /\ Monotonic /\ RevisionInvariant'
  BY TypeStep, MonotonicStep, RevisionStep
<1>l. \A rec \in Record : Landed(rec) => Landed(rec)'
  BY <1>t, LandedStays
<1>j. \A i \in DOMAIN journal : journal[i] \in Record
  BY DEF TypeOK
<1>o. ASSUME NEW c \in Coords, NEW label \in Labels, Goto(c, label)
      PROVE  pc'[c] = label /\ \A d \in Coords \ {c} : pc'[d] = pc[d]
  BY <1>o, GotoFacts
<1>k. ASSUME UNCHANGED state,
             \A i \in DOMAIN journal' : \E j \in DOMAIN journal : journal'[i] = journal[j]
      PROVE  OnePending' /\ PendingUnfenced'
  BY <1>k DEF FenceInvariant, OnePending, PendingUnfenced, Landed, Unfenced
<1>h. ASSUME UNCHANGED state, NEW d \in Coords, UNCHANGED pc[d], UNCHANGED job[d].rec
      PROVE  HandUnfenced(d)'
  BY <1>h DEF FenceInvariant, HandUnfenced, Unfenced
<1>e. ASSUME NEW c \in Coords, UNCHANGED state,
             \A i \in DOMAIN journal' : \E j \in DOMAIN journal : journal'[i] = journal[j],
             \A d \in Coords \ {c} : pc'[d] = pc[d] /\ job'[d] = job[d],
             pc'[c] \notin {"append", "state"}
      PROVE  FenceInvariant'
  <2>1. HandUnfenced(c)'
    BY <1>e DEF HandUnfenced
  <2>2. \A d \in Coords \ {c} : HandUnfenced(d)'
    BY <1>e, <1>h
  <2> QED BY <1>e, <1>k, <2>1, <2>2 DEF FenceInvariant
<1>s. ASSUME UNCHANGED <<state, journal, pc, job>> PROVE FenceInvariant'
  BY <1>s, <1>k, <1>h DEF FenceInvariant
<1>w. ASSUME NEW c \in Coords, NEW label \in Labels, Goto(c, label), pc[c] # "down",
             label \in {"status", "replayStatus"},
             OnePending', PendingUnfenced'
      PROVE  FenceInvariant'
  <2>1. pc'[c] = label /\ \A d \in Coords \ {c} : pc'[d] = "down"
    BY <1>w, <1>o, Alone DEF RevisionInvariant
  <2> QED BY <1>w, <2>1 DEF FenceInvariant, HandUnfenced
<1>1. ASSUME NEW c \in Coords, AcquireLease(c) PROVE FenceInvariant'
  <2>1. pc'[c] = "repair" /\ \A d \in Coords \ {c} : pc'[d] = pc[d]
    BY <1>1, <1>o DEF AcquireLease, Labels, Booting
  <2> QED BY <1>1, <1>e, <2>1 DEF AcquireLease, disk
<1>2. ASSUME NEW c \in Coords, Repair(c) \/ FinishBoot(c) \/ ReplayStatus(c) PROVE FenceInvariant'
  <2>1. pc'[c] \in {"replay", "idle"} /\ \A d \in Coords \ {c} : pc'[d] = pc[d]
    BY <1>2, <1>o DEF Repair, FinishBoot, ReplayStatus, Labels, Booting
  <2> QED BY <1>2, <1>e, <2>1 DEF Repair, FinishBoot, ReplayStatus, disk
<1>3. ASSUME NEW c \in Coords, ReplayRejected(c) PROVE FenceInvariant'
  BY <1>3, <1>s DEF ReplayRejected, disk
<1>4. ASSUME NEW c \in Coords, ReplayState(c) PROVE FenceInvariant'
  <2>1. /\ pc[c] = "replay" /\ todo[c] # <<>> /\ UNCHANGED journal
        /\ Goto(c, "replayStatus") /\ "replayStatus" \in Labels
    BY <1>4 DEF ReplayState, Labels, Booting
  <2>2. PICK rec \in Record : rec = Head(todo[c]) /\ \E j \in DOMAIN todo[c] : rec = todo[c][j]
    BY <2>1, NextRecord
  <2>3. \E k \in DOMAIN journal : rec = journal[k]
    <3>1. ReplayedJournal(c)
      BY DEF RevisionInvariant, Ahead
    <3> QED BY <2>1, <2>2, <3>1 DEF ReplayedJournal
  <2>4. MaterializeState(c, rec, 0)
    BY <1>4, <2>2 DEF ReplayState
  <2>5. OnePending' /\ PendingUnfenced'
    <3>1. CASE Landed(rec)
      BY <1>k, <2>1, <2>4, <3>1, StampMoves
    <3>2. CASE ~Landed(rec)
      <4>1. Landed(rec)'
        BY <2>4, MaterializeStateFacts DEF Landed
      <4>2. \A i \in DOMAIN journal : Landed(journal[i])'
        BY <1>l, <1>j, <2>1, <2>3, <3>2, <4>1 DEF FenceInvariant, OnePending
      <4> QED BY <2>1, <4>2 DEF OnePending, PendingUnfenced, Landed
    <3> QED BY <3>1, <3>2
  <2> QED BY <1>w, <2>1, <2>5
<1>5. ASSUME NEW c \in Coords, WriteState(c) PROVE FenceInvariant'
  <2>1. /\ pc[c] = "state" /\ UNCHANGED journal
        /\ Goto(c, "status") /\ "status" \in Labels
    BY <1>5 DEF WriteState, Labels
  <2>2. pc'[c] = "status"
    BY <2>1, <1>o
  <2>3. \A i \in DOMAIN journal' : Landed(journal[i])'
    BY <1>t, <2>2 DEF RevisionInvariant, Ahead, ServedJournal
  <2>4. OnePending' /\ PendingUnfenced'
    BY <2>1, <2>3 DEF OnePending, PendingUnfenced, Landed
  <2> QED BY <1>w, <2>1, <2>4
<1>6. ASSUME NEW c \in Coords, NEW cmd \in Commands, Decide(c, cmd) PROVE FenceInvariant'
  <2>1. /\ job'[c].rec = Decided(c, cmd) /\ \A d \in Coords \ {c} : job'[d] = job[d]
        /\ UNCHANGED <<state, journal>>
    BY <1>6 DEF Decide, disk, TypeOK
  <2>2. \A d \in Coords \ {c} : pc'[d] = pc[d]
    BY <1>6, <1>o DEF Decide, Labels
  <2>3. Decided(c, cmd).status = "applied" => Unfenced(Decided(c, cmd))
    <3>1. Decided(c, cmd).status = "applied" => Decision(cmd).action = "apply"
      BY DEF Decided
    <3>2. Decided(c, cmd).cmd = cmd
      BY DEF Decided
    <3> QED BY <3>1, <3>2, AppliedIsUnfenced DEF Decision, Unfenced
  <2>4. HandUnfenced(c)'
    BY <2>1, <2>3 DEF HandUnfenced, Unfenced
  <2>5. \A d \in Coords \ {c} : HandUnfenced(d)'
    BY <1>h, <2>1, <2>2
  <2> QED BY <1>k, <2>1, <2>4, <2>5 DEF FenceInvariant
<1>7. ASSUME NEW c \in Coords, AppendRecord(c) PROVE FenceInvariant'
  <2>1. PICK rec \in Record : rec = job[c].rec
    BY <1>7, JobReply DEF AppendRecord, TypeOK
  <2>2. pc[c] = "append" /\ UNCHANGED state /\ Ahead(c)
    BY <1>7 DEF AppendRecord, RevisionInvariant
  <2>3. \A i \in DOMAIN journal' :
           journal'[i] = rec \/ \E j \in DOMAIN journal : journal'[i] = journal[j]
    BY <1>7, <2>1, AppendElements DEF AppendRecord, TypeOK
  <2>4. \A i \in DOMAIN journal : Landed(journal[i])
    BY <2>2 DEF Ahead, ServedJournal
  <2>5. ~Landed(rec) => Unfenced(rec)
    BY <2>1, <2>2, RecordFacts DEF Ahead, JobInHand, FenceInvariant, HandUnfenced, Outcome
  <2>6. \A i \in DOMAIN journal' : journal'[i] = rec \/ Landed(journal'[i])
    BY <2>3, <2>4
  <2>7. OnePending' /\ PendingUnfenced'
    BY <2>2, <2>5, <2>6 DEF OnePending, PendingUnfenced, Landed, Unfenced
  <2>8. job'[c].rec = rec /\ \A d \in Coords \ {c} : job'[d] = job[d] /\ pc'[d] = pc[d]
    BY <1>7, <1>o, <2>1 DEF AppendRecord, TypeOK, Job, Labels
  <2>9. HandUnfenced(c)'
    BY <2>1, <2>2, <2>8 DEF FenceInvariant, HandUnfenced, Unfenced
  <2>10. \A d \in Coords \ {c} : HandUnfenced(d)'
    BY <1>h, <2>2, <2>8
  <2> QED BY <2>7, <2>9, <2>10 DEF FenceInvariant
<1>8. ASSUME NEW c \in Coords, WriteStatus(c) PROVE FenceInvariant'
  <2>1. pc'[c] \in {"reply", "checkpoint"} /\ \A d \in Coords \ {c} : pc'[d] = pc[d]
    BY <1>8, <1>o DEF WriteStatus, Labels
  <2> QED BY <1>8, <1>e, <2>1 DEF WriteStatus
<1>9. ASSUME NEW c \in Coords,
             SkipCheckpoint(c) \/ WriteCheckpoint(c) \/ CollectNothing(c) \/ Answer(c)
      PROVE  FenceInvariant'
  <2>1. pc'[c] \in {"gc", "reply", "idle"} /\ \A d \in Coords \ {c} : pc'[d] = pc[d]
    BY <1>9, <1>o DEF SkipCheckpoint, WriteCheckpoint, CollectNothing, Answer, Labels
  <2>2. UNCHANGED <<state, journal, job>>
    BY <1>9 DEF SkipCheckpoint, WriteCheckpoint, CollectNothing, Answer, disk
  <2> QED BY <1>e, <2>1, <2>2
<1>10. ASSUME NEW c \in Coords, CollectGarbage(c) PROVE FenceInvariant'
  <2>1. pc'[c] = "reply" /\ \A d \in Coords \ {c} : pc'[d] = pc[d]
    BY <1>10, <1>o DEF CollectGarbage, Labels
  <2>2. \A i \in DOMAIN journal' : \E j \in DOMAIN journal : journal'[i] = journal[j]
    BY <1>10, CollectedElements
  <2> QED BY <1>10, <1>e, <2>1, <2>2 DEF CollectGarbage
<1>11. ASSUME NEW c \in Coords, Crash(c) \/ Shutdown(c) PROVE FenceInvariant'
  <2>1. pc'[c] = "down" /\ \A d \in Coords \ {c} : pc'[d] = pc[d]
    BY <1>11, <1>o DEF Crash, Shutdown, Vanish, Labels
  <2>2. UNCHANGED <<state, journal>> /\ \A d \in Coords \ {c} : job'[d] = job[d]
    BY <1>11 DEF Crash, Shutdown, Vanish, TypeOK
  <2> QED BY <1>e, <2>1, <2>2
<1>12. ASSUME NEW cmd \in Commands, Send(cmd) PROVE FenceInvariant'
  BY <1>12, <1>s DEF Send, disk, memory
<1>13. ASSUME NEW c \in Coords, NEW cmd \in Commands, AnswerDuplicate(c, cmd) \/ RejectBeat(c, cmd)
       PROVE  FenceInvariant'
  BY <1>13, <1>s DEF AnswerDuplicate, RejectBeat, disk, memory
<1>14. CASE UNCHANGED vars
  BY <1>14, <1>s DEF vars, disk, memory
<1> QED
  BY <1>1, <1>2, <1>3, <1>4, <1>5, <1>6, <1>7, <1>8, <1>9, <1>10, <1>11, <1>12, <1>13, <1>14
  DEF Next, Boot, Serve

\* Whoever moves a row with a verdict writes a record of a user's command.
VerdictStep ==
    \A v \in Views :
        IsManualVerdict(state[v].row)
           /\ <<state'[v].row.sem, state'[v].row.auto>> # <<state[v].row.sem, state[v].row.auto>>
        => \E c \in Coords, cmd \in Commands :
              WritesFor(c, cmd) /\ cmd.view = v /\ cmd.source = "dashboard-user"

\* A step that moves a row writes an unlanded record to it.
LEMMA MovedRow ==
    ASSUME TypeOK, [Next]_vars, NEW v \in Views, state'[v] # state[v]
    PROVE  \E c \in Coords, rec \in Record :
              /\ \/ WriteState(c) /\ rec = job[c].rec
                 \/ ReplayState(c) /\ rec = Head(todo[c])
              /\ rec.cmd.view = v /\ ~Landed(rec) /\ WritesFor(c, rec.cmd)
<1> USE DEF Serving
<1>1. ASSUME NEW c \in Coords, WriteState(c)
      PROVE  \E rec \in Record : /\ rec = job[c].rec /\ rec.cmd.view = v
                                  /\ ~Landed(rec) /\ WritesFor(c, rec.cmd)
  <2>1. PICK rec \in Record, bytes \in Nat : rec = job[c].rec /\ bytes = job[c].bytes
    BY <1>1, JobReply DEF WriteState, TypeOK, Job
  <2>2. MaterializeState(c, rec, bytes)
    BY <1>1, <2>1 DEF WriteState
  <2>3. rec.cmd.view = v /\ ~Landed(rec) /\ job'[c].rec = rec
    BY <2>2, StampMoves, MaterializeStateFacts
  <2>4. pc[c] = "state" /\ pc'[c] = "status"
    BY <1>1, GotoFacts DEF WriteState, Labels
  <2> QED BY <2>1, <2>3, <2>4 DEF WritesFor
<1>2. ASSUME NEW c \in Coords, ReplayState(c)
      PROVE  \E rec \in Record : /\ rec = Head(todo[c]) /\ rec.cmd.view = v
                                  /\ ~Landed(rec) /\ WritesFor(c, rec.cmd)
  <2>1. PICK rec \in Record : rec = Head(todo[c])
    BY <1>2, NextRecord DEF ReplayState
  <2>2. MaterializeState(c, rec, 0)
    BY <1>2, <2>1 DEF ReplayState
  <2>3. rec.cmd.view = v /\ ~Landed(rec) /\ job'[c].rec = rec
    BY <2>2, StampMoves, MaterializeStateFacts
  <2>4. pc[c] = "replay" /\ pc'[c] = "replayStatus"
    BY <1>2, GotoFacts DEF ReplayState, Labels, Booting
  <2> QED BY <2>1, <2>3, <2>4 DEF WritesFor
<1>3. \E c \in Coords : WriteState(c) \/ ReplayState(c)
  <2>1. ASSUME NEW cmd \in Commands, Send(cmd) PROVE FALSE
    BY <2>1 DEF Send, disk
  <2>2. ASSUME NEW c \in Coords, NEW cmd \in Commands,
               AnswerDuplicate(c, cmd) \/ RejectBeat(c, cmd) \/ Decide(c, cmd)
        PROVE  FALSE
    BY <2>2 DEF AnswerDuplicate, RejectBeat, Decide, disk
  <2>3. ASSUME NEW c \in Coords,
               \/ AcquireLease(c) \/ Repair(c) \/ ReplayRejected(c) \/ ReplayStatus(c)
               \/ FinishBoot(c) \/ AppendRecord(c) \/ WriteStatus(c) \/ SkipCheckpoint(c)
               \/ WriteCheckpoint(c) \/ CollectGarbage(c) \/ CollectNothing(c)
               \/ Answer(c) \/ Crash(c) \/ Shutdown(c)
        PROVE  FALSE
    BY <2>3 DEF AcquireLease, Repair, ReplayRejected, ReplayStatus, FinishBoot, AppendRecord,
       WriteStatus, SkipCheckpoint, WriteCheckpoint, CollectGarbage, CollectNothing, Answer,
       Crash, Shutdown, Vanish, disk
  <2>4. ~UNCHANGED vars
    BY DEF vars, disk
  <2> QED BY <2>1, <2>2, <2>3, <2>4 DEF Next, Boot, Serve
<1> QED BY <1>1, <1>2, <1>3

\* Nothing but a user's command gets past a verdict.
LEMMA VerdictKept ==
    ASSUME ~StaleReclaim, TypeOK, RevisionInvariant, FenceInvariant, [Next]_vars
    PROVE  VerdictStep
<1> SUFFICES ASSUME NEW v \in Views, IsManualVerdict(state[v].row),
                    <<state'[v].row.sem, state'[v].row.auto>>
                       # <<state[v].row.sem, state[v].row.auto>>
             PROVE  \E c \in Coords, cmd \in Commands :
                       WritesFor(c, cmd) /\ cmd.view = v /\ cmd.source = "dashboard-user"
  BY DEF VerdictStep
<1>1. state'[v] # state[v]
  OBVIOUS
<1>2. PICK c \in Coords, rec \in Record :
         /\ \/ WriteState(c) /\ rec = job[c].rec
            \/ ReplayState(c) /\ rec = Head(todo[c])
         /\ rec.cmd.view = v /\ ~Landed(rec) /\ WritesFor(c, rec.cmd)
  BY <1>1, MovedRow
<1>3. Unfenced(rec)
  <2>1. CASE WriteState(c) /\ rec = job[c].rec
    BY <2>1 DEF WriteState, RevisionInvariant, Ahead, JobInHand, FenceInvariant, HandUnfenced
  <2>2. CASE ReplayState(c) /\ rec = Head(todo[c])
    <3>1. pc[c] = "replay" /\ \E j \in DOMAIN todo[c] : rec = todo[c][j]
      BY <2>2, NextRecord DEF ReplayState
    <3>2. ReplayedJournal(c)
      BY DEF RevisionInvariant, Ahead
    <3>3. \E i \in DOMAIN journal : rec = journal[i]
      BY <3>1, <3>2 DEF ReplayedJournal
    <3> QED BY <1>2, <3>3 DEF FenceInvariant, PendingUnfenced
  <2> QED BY <1>2, <2>1, <2>2
<1>4. rec.cmd \in Commands /\ rec.cmd.source = "dashboard-user"
  BY <1>2, <1>3, RecordFacts DEF Unfenced, FencedByVerdict
<1> QED BY <1>2, <1>4

\* A verdict is undone only by a user's command, whatever reports come late, and
\* whatever a coordinator that boots after a crash replays, as long as a lease
\* is only taken from the dead.
THEOREM VerdictStands ==
    ASSUME ~StaleReclaim
    PROVE  Spec => ManualVerdictStands
<1>1. Init => FenceInvariant
  BY DEF Init, FenceInvariant, OnePending, PendingUnfenced, HandUnfenced
<1>2. TypeOK /\ RevisionInvariant /\ FenceInvariant /\ [Next]_vars => FenceInvariant'
  BY FenceStep
<1>3. TypeOK /\ RevisionInvariant /\ FenceInvariant /\ [Next]_vars => [VerdictStep]_vars
  BY VerdictKept
<1>4. Spec => [][VerdictStep]_vars
  BY <1>1, <1>2, <1>3, TypeCorrect, RevisionsInvariant, PTL DEF Spec
<1> QED BY <1>4 DEF ManualVerdictStands, VerdictStep

----------------------------------------------------------------------------
(* The same reply forever, as long as the journal is not yet collected, no  *)
(* rename fails and no live holder is overtaken.                            *)

\* Every result of a command that is not a beat is the result of a record of
\* the journal; for a beat the claim says nothing.
Journaled(reply) ==
    \A cmd \in Commands :
        cmd.id = reply.id /\ ~Transient(cmd)
            => \E i \in DOMAIN journal : reply = ReplyTo(journal[i])

JournaledOnce ==
    \A i, j \in DOMAIN journal : journal[i].cmd.id = journal[j].cmd.id => i = j

\* Where a coordinator appends, the tail has been cut and the id is new.
Repaired(c) == pc[c] \notin {"down", "repair"} => ~torn

HandJournaled(c) ==
    /\ pc[c] = "append" => ~InJournal(job[c].rec.cmd.id)
    /\ pc[c] \in {"state", "status", "checkpoint", "gc", "reply"}
          => Journaled(ReplyTo(job[c].rec)) /\ job[c].bytes <= Len(journal)

RepliesJournaled(c) ==
    Repaired(c) /\ HandJournaled(c) /\ \A i \in DOMAIN ring[c] : Journaled(ring[c][i])

NeverCollects == \A c \in Coords : pc[c] # "gc"

ReplyInvariant ==
    /\ JournaledOnce /\ NeverCollects
    /\ \A reply \in replies : Journaled(reply)
    /\ \A c \in Coords : RepliesJournaled(c)

\* A journal that holds every command once is no longer than there are commands.
LEMMA JournalIsShort ==
    ASSUME TypeOK, JournaledOnce, IsFiniteSet(Commands)
    PROVE  Len(journal) <= Cardinality(Commands) /\ Cardinality(Commands) \in Nat
<1> DEFINE place == 1..Len(journal)
           command == [i \in place |-> journal[i].cmd]
<1>1. Len(journal) \in Nat /\ DOMAIN journal = place
  BY LenProperties DEF TypeOK
<1>2. \A i \in place : journal[i] \in Record
  BY <1>1 DEF TypeOK
<1>3. command \in [place -> Commands]
  BY <1>2, RecordFacts
<1>4. IsFiniteSet(place) /\ Cardinality(place) = Len(journal)
  <2>1. \A n \in Nat : IsFiniteSet(1..n) /\ Cardinality(1..n) = IF 1 > n THEN 0 ELSE n - 1 + 1
    BY FS_Interval
  <2>2. \A n \in Nat : (IF 1 > n THEN 0 ELSE n - 1 + 1) = n
    OBVIOUS
  <2> QED BY <1>1, <2>1, <2>2
<1>5. Cardinality(Commands) \in Nat
  BY FS_CardinalityType
<1>6. ASSUME Cardinality(Commands) < Cardinality(place) PROVE FALSE
  <2> HIDE DEF place, command
  <2>1. \E i, j \in place : i # j /\ command[i] = command[j]
    BY <1>3, <1>4, <1>6, FS_PigeonHole
  <2>2. PICK i \in place, j \in place : i # j /\ command[i] = command[j]
    BY <2>1
  <2>3. journal[i].cmd.id = journal[j].cmd.id
    BY <2>2 DEF command
  <2> QED BY <1>1, <2>2, <2>3 DEF JournaledOnce
<1> QED BY <1>1, <1>4, <1>5, <1>6

\* A journal that keeps its records keeps what was journaled.
LEMMA JournaledStays ==
    ASSUME NEW reply, Journaled(reply),
           \A i \in DOMAIN journal : \E j \in DOMAIN journal' : journal'[j] = journal[i]
    PROVE  Journaled(reply)'
<1>1. ASSUME NEW cmd \in Commands, cmd.id = reply.id, ~Transient(cmd)
      PROVE  \E i \in DOMAIN journal' : reply = ReplyTo(journal'[i])
  <2>1. PICK i \in DOMAIN journal : reply = ReplyTo(journal[i])
    BY <1>1 DEF Journaled
  <2> QED BY <2>1
<1> QED BY <1>1 DEF Journaled

\* Every step keeps it.
LEMMA ReplyStep ==
    ASSUME ~StaleReclaim, ~DiskFails,
           IsFiniteSet(Commands), Cardinality(Commands) < CheckpointEvery,
           TypeOK, RevisionInvariant, ReplyInvariant, [Next]_vars
    PROVE  ReplyInvariant'
<1> USE DEF Serving
<1>t. TypeOK'
  BY TypeStep
<1>o. ASSUME NEW c \in Coords, NEW label \in Labels, Goto(c, label)
      PROVE  pc'[c] = label /\ \A d \in Coords \ {c} : pc'[d] = pc[d]
  BY <1>o, GotoFacts
<1>n. Len(journal) \in Nat
  BY LenProperties DEF TypeOK
<1>q. \A c \in Coords : /\ Repaired(c) /\ HandJournaled(c) /\ pc[c] # "gc"
                         /\ \A i \in DOMAIN ring[c] : Journaled(ring[c][i])
  BY DEF ReplyInvariant, RepliesJournaled, NeverCollects
\* The journal stands, or one record joins it.
<1>g. ASSUME UNCHANGED journal PROVE JournaledOnce' /\ \A reply : Journaled(reply) => Journaled(reply)'
  BY <1>g, JournaledStays DEF ReplyInvariant, JournaledOnce
\* One coordinator that runs moves, and the others are down.
<1>f. ASSUME NEW c \in Coords, pc[c] # "down",
             \A d \in Coords \ {c} : pc'[d] = pc[d] /\ ring'[d] = ring[d],
             \A reply : Journaled(reply) => Journaled(reply)',
             JournaledOnce', pc'[c] # "gc",
             \A reply \in replies' : reply \in replies \/ Journaled(reply)',
             \A reply : \A i \in DOMAIN ring'[c] :
                reply = ring'[c][i]
                   => Journaled(reply)' \/ \E j \in DOMAIN ring[c] : reply = ring[c][j],
             Repaired(c)', HandJournaled(c)'
      PROVE  ReplyInvariant'
  <2>1. \A d \in Coords \ {c} : pc'[d] = "down"
    BY <1>f, Alone DEF RevisionInvariant
  <2>2. \A d \in Coords \ {c} : RepliesJournaled(d)'
    BY <1>q, <1>f, <2>1 DEF RepliesJournaled, Repaired, HandJournaled
  <2>3. RepliesJournaled(c)'
    BY <1>q, <1>f DEF RepliesJournaled
  <2>4. \A reply \in replies' : Journaled(reply)'
    BY <1>f DEF ReplyInvariant
  <2>5. NeverCollects'
    BY <1>f, <2>1 DEF NeverCollects
  <2> QED BY <1>f, <2>2, <2>3, <2>4, <2>5 DEF ReplyInvariant
<1>e. ASSUME NEW c \in Coords, pc[c] # "down", NEW label \in Labels \ {"gc"}, Goto(c, label),
             UNCHANGED <<journal, replies>>, ~torn' \/ label = "down",
             UNCHANGED ring \/ (ring'[c] = <<>> /\ \A d \in Coords \ {c} : ring'[d] = ring[d]),
             HandJournaled(c)'
      PROVE  ReplyInvariant'
  <2>1. pc'[c] = label /\ \A d \in Coords \ {c} : pc'[d] = pc[d]
    BY <1>e, <1>o
  <2>2. Repaired(c)'
    BY <1>e, <2>1 DEF Repaired
  <2> QED BY <1>e, <1>f, <1>g, <2>1, <2>2
<1>s. ASSUME UNCHANGED <<journal, torn, pc, job, ring, replies>> PROVE ReplyInvariant'
  BY <1>s, <1>g DEF ReplyInvariant, RepliesJournaled, Repaired, HandJournaled, NeverCollects,
     InJournal
<1>1. ASSUME NEW c \in Coords, AcquireLease(c) PROVE ReplyInvariant'
  <2>1. pc'[c] = "repair" /\ \A d \in Coords \ {c} : pc'[d] = pc[d]
    BY <1>1, <1>o DEF AcquireLease, Labels, Booting
  <2>2. UNCHANGED <<journal, torn, job, ring, replies>>
    BY <1>1 DEF AcquireLease, disk, net
  <2>3. \A d \in Coords : RepliesJournaled(d)'
    BY <1>q, <1>g, <2>1, <2>2 DEF RepliesJournaled, Repaired, HandJournaled, InJournal
  <2> QED BY <1>g, <2>1, <2>2, <2>3 DEF ReplyInvariant, NeverCollects
<1>2. ASSUME NEW c \in Coords, Repair(c) PROVE ReplyInvariant'
  <2>1. pc'[c] = "replay" /\ ~torn' /\ Goto(c, "replay") /\ "replay" \in Labels
    BY <1>2, <1>o DEF Repair, Labels, Booting
  <2>2. ring'[c] = <<>> /\ \A d \in Coords \ {c} : ring'[d] = ring[d]
    BY <1>2 DEF Repair, TypeOK
  <2>3. HandJournaled(c)'
    BY <2>1 DEF HandJournaled
  <2> QED BY <1>2, <1>e, <2>1, <2>2, <2>3 DEF Repair, net
<1>3. ASSUME NEW c \in Coords, ReplayRejected(c) \/ ReplayState(c) PROVE ReplyInvariant'
  <2>1. /\ todo[c] # <<>> /\ TakeUp(c, Head(todo[c])) /\ pc[c] = "replay"
        /\ UNCHANGED <<replies, journal, torn>>
    BY <1>3 DEF ReplayRejected, ReplayState, disk, net
  <2>2. PICK rec \in Record : rec = Head(todo[c]) /\ \E j \in DOMAIN todo[c] : rec = todo[c][j]
    BY <2>1, NextRecord
  <2>3. \E i \in DOMAIN journal : rec = journal[i]
    <3>1. ReplayedJournal(c)
      BY DEF RevisionInvariant, Ahead
    <3> QED BY <2>1, <2>2, <3>1 DEF ReplayedJournal
  <2>4. Journaled(ReplyTo(rec))
    BY <2>3 DEF Journaled
  <2>5. /\ \A i \in DOMAIN ring'[c] :
              ring'[c][i] = ReplyTo(rec) \/ \E j \in DOMAIN ring[c] : ring'[c][i] = ring[c][j]
        /\ \A d \in Coords \ {c} : ring'[d] = ring[d]
    BY <2>1, <2>2, TakeUpType
  <2>6. pc'[c] \in {"replay", "replayStatus"} /\ \A d \in Coords \ {c} : pc'[d] = pc[d]
    BY <1>3, <1>o, <2>1 DEF ReplayRejected, ReplayState, Labels, Booting
  <2>7. Repaired(c)' /\ HandJournaled(c)'
    BY <1>q, <2>1, <2>6 DEF Repaired, HandJournaled
  <2> QED BY <1>f, <1>g, <2>1, <2>4, <2>5, <2>6, <2>7
<1>4. ASSUME NEW c \in Coords, ReplayStatus(c) \/ FinishBoot(c) PROVE ReplyInvariant'
  <2>1. PICK label \in {"replay", "idle"} : Goto(c, label)
    BY <1>4 DEF ReplayStatus, FinishBoot
  <2>2. label \in Labels \ {"gc"} /\ pc'[c] = label
    BY <1>o, <2>1 DEF Labels, Booting
  <2>3. /\ pc[c] \in {"replay", "replayStatus"}
        /\ UNCHANGED <<journal, torn, replies>> /\ UNCHANGED ring
    BY <1>4 DEF ReplayStatus, FinishBoot, disk, net
  <2>4. ~torn' /\ HandJournaled(c)'
    BY <1>q, <2>1, <2>2, <2>3 DEF Repaired, HandJournaled
  <2> QED BY <1>e, <2>1, <2>2, <2>3, <2>4
<1>5. ASSUME NEW c \in Coords, NEW cmd \in Commands, AnswerDuplicate(c, cmd) PROVE ReplyInvariant'
  <2>1. pc[c] = "idle" /\ UNCHANGED <<journal, torn, pc, job>>
    BY <1>5 DEF AnswerDuplicate, Receive, disk
  <2>2. \A i \in DOMAIN journal : ReplyTo(journal[i]) \in Reply /\ Journaled(ReplyTo(journal[i]))
    BY RecordFacts DEF TypeOK, Journaled
  <2>3. \A i \in DOMAIN ring[c] : ring[c][i] \in Reply /\ Journaled(ring[c][i])
    BY <1>q DEF TypeOK
  <2>4. PICK reply \in Reply :
           /\ Journaled(reply) /\ replies' = replies \cup {reply}
           /\ UNCHANGED ring \/ Remember(c, reply)
    BY <1>5, <2>2, <2>3 DEF AnswerDuplicate
  <2>5. /\ \A i \in DOMAIN ring'[c] :
              ring'[c][i] = reply \/ \E j \in DOMAIN ring[c] : ring'[c][i] = ring[c][j]
        /\ \A d \in Coords \ {c} : ring'[d] = ring[d]
    BY <2>4, RememberFacts
  <2>6. Journaled(reply)'
    BY <1>g, <2>1, <2>4
  <2>7. Repaired(c)' /\ HandJournaled(c)'
    BY <1>q, <2>1 DEF Repaired, HandJournaled
  <2> QED BY <1>f, <1>g, <2>1, <2>4, <2>5, <2>6, <2>7
<1>6. ASSUME NEW c \in Coords, NEW cmd \in Commands, RejectBeat(c, cmd) PROVE ReplyInvariant'
  <2>1. /\ pc[c] = "idle" /\ UNCHANGED <<journal, torn, pc, job, ring>>
        /\ replies' = replies \cup {ReplyTo(Decided(c, cmd))} /\ Transient(cmd)
    BY <1>6 DEF RejectBeat, Receive, disk, memory
  <2>2. ReplyTo(Decided(c, cmd)).id = cmd.id
    BY DEF ReplyTo, Decided
  <2>3. Journaled(ReplyTo(Decided(c, cmd)))
    BY <2>1, <2>2, CommandsAssumption DEF Journaled
  <2>4. PICK reply : Journaled(reply) /\ replies' = replies \cup {reply}
    BY <2>1, <2>3
  <2>5. Journaled(reply)'
    BY <1>g, <2>1, <2>4
  <2>6. Repaired(c)' /\ HandJournaled(c)'
    BY <1>q, <2>1 DEF Repaired, HandJournaled
  <2> QED BY <1>f, <1>g, <2>1, <2>4, <2>5, <2>6
<1>7. ASSUME NEW c \in Coords, NEW cmd \in Commands, Decide(c, cmd) PROVE ReplyInvariant'
  <2>1. PICK rec \in Record : rec = Decided(c, cmd)
    BY DecidedType
  <2>2. /\ pc[c] = "idle" /\ UNCHANGED <<journal, torn, replies, ring>>
        /\ job'[c] = [rec |-> rec, bound |-> None, bytes |-> 0]
    BY <1>7, <2>1 DEF Decide, Receive, disk, TypeOK
  <2>3. rec.cmd = cmd /\ ReplyTo(rec).id = cmd.id
    BY <2>1 DEF Decided, ReplyTo
  <2>4. PICK label \in {"state", "append"} :
           /\ Goto(c, label)
           /\ label = "state" => Transient(cmd)
           /\ label = "append" => ~InJournal(cmd.id)
    BY <1>7 DEF Decide
  <2>5. label \in Labels \ {"gc"} /\ pc'[c] = label
    BY <1>o, <2>4 DEF Labels
  <2>6. label = "state" => Journaled(ReplyTo(rec))
    BY <2>3, <2>4, CommandsAssumption DEF Journaled
  <2>7. job'[c].rec = rec /\ job'[c].bytes = 0
    BY <2>2
  <2>8. HandJournaled(c)'
    BY <1>g, <1>n, <2>2, <2>3, <2>4, <2>5, <2>6, <2>7 DEF HandJournaled, InJournal
  <2>9. ~torn'
    BY <1>q, <2>2 DEF Repaired
  <2> QED BY <1>e, <2>2, <2>4, <2>5, <2>8, <2>9
<1>8. ASSUME NEW c \in Coords, AppendRecord(c) PROVE ReplyInvariant'
  <2>1. PICK rec \in Record : rec = job[c].rec /\ ReplyTo(rec) \in Reply
    BY <1>8, JobReply DEF AppendRecord, TypeOK
  <2>2. /\ pc[c] = "append" /\ ~torn' /\ UNCHANGED replies /\ ~InJournal(rec.cmd.id)
        /\ journal' = Append(journal, rec)
    BY <1>8, <1>q, <2>1 DEF AppendRecord, Repaired, HandJournaled, net
  <2>3. /\ Len(journal') = Len(journal) + 1 /\ journal'[Len(journal) + 1] = rec
        /\ \A i \in 1..Len(journal) : journal'[i] = journal[i]
        /\ DOMAIN journal = 1..Len(journal) /\ DOMAIN journal' = 1..(Len(journal) + 1)
    <3>1. journal \in Seq(Record) /\ journal' \in Seq(Record)
      BY <1>t DEF TypeOK
    <3> QED BY <2>2, <3>1, AppendProperties, LenProperties
  <2>4. JournaledOnce'
    <3>1. ASSUME NEW i \in DOMAIN journal', NEW j \in DOMAIN journal',
                 journal'[i].cmd.id = journal'[j].cmd.id
          PROVE  i = j
      <4>1. i \in DOMAIN journal \/ i = Len(journal) + 1
        BY <1>n, <2>3
      <4>2. j \in DOMAIN journal \/ j = Len(journal) + 1
        BY <1>n, <2>3
      <4>3. \A k \in DOMAIN journal : journal'[k].cmd.id # rec.cmd.id
        BY <2>2, <2>3 DEF InJournal
      <4> QED BY <2>3, <3>1, <4>1, <4>2, <4>3 DEF ReplyInvariant, JournaledOnce
    <3> QED BY <3>1 DEF JournaledOnce
  <2>5. \A reply : Journaled(reply) => Journaled(reply)'
    <3>1. \A i \in DOMAIN journal : \E j \in DOMAIN journal' : journal'[j] = journal[i]
      BY <1>n, <2>3
    <3> QED BY <3>1, JournaledStays
  <2>6. Journaled(ReplyTo(rec))'
    <3>1. \E i \in DOMAIN journal' : journal'[i] = rec
      BY <1>n, <2>3
    <3> QED BY <3>1 DEF Journaled
  <2>7. /\ UNCHANGED ring \/ Remember(c, ReplyTo(rec))
        /\ pc'[c] \in {"state", "checkpoint"} /\ \A d \in Coords \ {c} : pc'[d] = pc[d]
    BY <1>8, <1>o, <2>1 DEF AppendRecord, Labels
  <2>8. /\ \A i \in DOMAIN ring'[c] :
              ring'[c][i] = ReplyTo(rec) \/ \E j \in DOMAIN ring[c] : ring'[c][i] = ring[c][j]
        /\ \A d \in Coords \ {c} : ring'[d] = ring[d]
    BY <2>1, <2>7, RememberFacts
  <2>9. job'[c].rec = rec /\ job'[c].bytes = Len(journal')
    BY <1>8, <2>1 DEF AppendRecord, TypeOK, Job
  <2>10. HandJournaled(c)' /\ Repaired(c)'
    BY <1>n, <2>2, <2>3, <2>6, <2>7, <2>9 DEF HandJournaled, Repaired
  <2> QED BY <1>f, <2>2, <2>4, <2>5, <2>6, <2>7, <2>8, <2>10
<1>9. ASSUME NEW c \in Coords, WriteState(c) PROVE ReplyInvariant'
  <2>1. PICK rec \in Record, bytes \in Nat : rec = job[c].rec /\ bytes = job[c].bytes
    BY <1>9, JobReply DEF WriteState, TypeOK, Job
  <2>2. /\ pc[c] = "state" /\ UNCHANGED <<journal, torn, replies, ring>>
        /\ Goto(c, "status") /\ MaterializeState(c, rec, bytes)
    BY <1>9, <2>1 DEF WriteState, net
  <2>3. job'[c].rec = rec /\ job'[c].bytes = bytes
    BY <2>2 DEF MaterializeState, TypeOK
  <2>4. "status" \in Labels \ {"gc"} /\ pc'[c] = "status"
    BY <1>o, <2>2 DEF Labels
  <2>5. HandJournaled(c)' /\ ~torn'
    BY <1>g, <1>q, <2>1, <2>2, <2>3, <2>4 DEF HandJournaled, Repaired
  <2> QED BY <1>e, <2>2, <2>4, <2>5
<1>10. ASSUME NEW c \in Coords, WriteStatus(c) PROVE ReplyInvariant'
  <2>1. PICK rec \in Record : rec = job[c].rec /\ ReplyTo(rec) \in Reply
    BY <1>10, JobReply DEF WriteStatus, TypeOK
  <2>2. /\ pc[c] = "status" /\ UNCHANGED <<journal, torn, replies, job>>
        /\ Journaled(ReplyTo(rec))
    BY <1>10, <1>q, <2>1 DEF WriteStatus, net, HandJournaled
  <2>3. /\ UNCHANGED ring \/ Remember(c, ReplyTo(rec))
        /\ pc'[c] \in {"reply", "checkpoint"} /\ \A d \in Coords \ {c} : pc'[d] = pc[d]
    BY <1>10, <1>o, <2>1 DEF WriteStatus, Labels
  <2>4. /\ \A i \in DOMAIN ring'[c] :
              ring'[c][i] = ReplyTo(rec) \/ \E j \in DOMAIN ring[c] : ring'[c][i] = ring[c][j]
        /\ \A d \in Coords \ {c} : ring'[d] = ring[d]
    BY <2>1, <2>3, RememberFacts
  <2>5. HandJournaled(c)' /\ Repaired(c)' /\ Journaled(ReplyTo(rec))'
    BY <1>g, <1>q, <2>2, <2>3 DEF HandJournaled, Repaired
  <2> QED BY <1>f, <1>g, <2>2, <2>3, <2>4, <2>5
<1>11. ASSUME NEW c \in Coords, SkipCheckpoint(c) PROVE ReplyInvariant'
  <2>1. /\ pc[c] = "checkpoint" /\ UNCHANGED <<journal, torn, replies, job, ring>>
        /\ Goto(c, "reply") /\ "reply" \in Labels \ {"gc"}
    BY <1>11 DEF SkipCheckpoint, disk, net, Labels
  <2>2. pc'[c] = "reply"
    BY <1>o, <2>1
  <2>3. HandJournaled(c)' /\ ~torn'
    BY <1>g, <1>q, <2>1, <2>2 DEF HandJournaled, Repaired
  <2> QED BY <1>e, <2>1, <2>3
<1>12. ASSUME NEW c \in Coords, WriteCheckpoint(c) PROVE FALSE
  <2>1. /\ pc[c] = "checkpoint" /\ job[c].bytes >= lastBytes[c] + CheckpointEvery
        /\ job[c].bytes <= Len(journal)
    BY <1>12, <1>q DEF WriteCheckpoint, CheckpointDue, HandJournaled
  <2>2. job[c].bytes \in Nat /\ lastBytes[c] \in Nat /\ CheckpointEvery \in Nat
    BY <2>1, CoordinatorAssumption DEF TypeOK, Job
  <2>3. Len(journal) <= Cardinality(Commands) /\ Cardinality(Commands) \in Nat
    BY JournalIsShort DEF ReplyInvariant
  <2> QED BY <1>n, <2>1, <2>2, <2>3
<1>13. ASSUME NEW c \in Coords, CollectGarbage(c) \/ CollectNothing(c) PROVE FALSE
  BY <1>13, <1>q DEF CollectGarbage, CollectNothing
<1>14. ASSUME NEW c \in Coords, Answer(c) PROVE ReplyInvariant'
  <2>1. PICK reply : reply = ReplyTo(job[c].rec)
    OBVIOUS
  <2>2. /\ pc[c] = "reply" /\ Journaled(reply) /\ replies' = replies \cup {reply}
        /\ UNCHANGED <<journal, torn, job, ring>>
    BY <1>14, <1>q, <2>1 DEF Answer, HandJournaled, disk
  <2>3. pc'[c] = "idle" /\ \A d \in Coords \ {c} : pc'[d] = pc[d]
    BY <1>14, <1>o DEF Answer, Labels
  <2>4. HandJournaled(c)' /\ Repaired(c)' /\ Journaled(reply)'
    BY <1>g, <1>q, <2>2, <2>3 DEF HandJournaled, Repaired
  <2> QED BY <1>f, <1>g, <2>2, <2>3, <2>4
<1>15. ASSUME NEW c \in Coords, Crash(c) \/ Shutdown(c) PROVE ReplyInvariant'
  <2>1. /\ pc[c] # "down" /\ Goto(c, "down") /\ UNCHANGED <<journal, replies>>
        /\ ring'[c] = <<>> /\ \A d \in Coords \ {c} : ring'[d] = ring[d]
    BY <1>15 DEF Crash, Shutdown, Vanish, TypeOK
  <2>2. "down" \in Labels \ {"gc"} /\ pc'[c] = "down"
    BY <1>o, <2>1 DEF Labels
  <2>3. HandJournaled(c)'
    BY <2>2 DEF HandJournaled
  <2> QED BY <1>e, <2>1, <2>2, <2>3
<1>16. ASSUME NEW cmd \in Commands, Send(cmd) PROVE ReplyInvariant'
  BY <1>16, <1>s DEF Send, disk, memory
<1>17. CASE UNCHANGED vars
  BY <1>17, <1>s DEF vars, disk, net, memory
<1> QED
  BY <1>1, <1>2, <1>3, <1>4, <1>5, <1>6, <1>7, <1>8, <1>9, <1>10, <1>11, <1>12, <1>13,
     <1>14, <1>15, <1>16, <1>17 DEF Next, Boot, Serve

\* A command sent again, to the same process or to one that booted after a
\* crash, gets the reply of the first time: as long as a lease is only taken
\* from the dead, the torn tail can be cut, and the journal has not grown to the
\* size that makes a checkpoint due.  The last is needed: what is collected is
\* forgotten by the next boot.
THEOREM RepliesStay ==
    ASSUME ~StaleReclaim, ~DiskFails,
           IsFiniteSet(Commands), Cardinality(Commands) < CheckpointEvery
    PROVE  Spec => []SameReplyForever
<1>1. Init => ReplyInvariant
  BY DEF Init, ReplyInvariant, JournaledOnce, NeverCollects, RepliesJournaled, Repaired,
     HandJournaled
<1>2. TypeOK /\ RevisionInvariant /\ ReplyInvariant /\ [Next]_vars => ReplyInvariant'
  BY ReplyStep
<1>3. TypeOK /\ ReplyInvariant => SameReplyForever
  <2> SUFFICES ASSUME ReplyInvariant, NEW a \in replies, NEW b \in replies, NEW cmd \in Commands,
                      a.id = cmd.id, b.id = cmd.id, ~Transient(cmd)
               PROVE  a = b
    BY DEF SameReplyForever
  <2>1. PICK i \in DOMAIN journal : a = ReplyTo(journal[i])
    BY DEF ReplyInvariant, Journaled
  <2>2. PICK j \in DOMAIN journal : b = ReplyTo(journal[j])
    BY DEF ReplyInvariant, Journaled
  <2>3. journal[i].cmd.id = journal[j].cmd.id
    BY <2>1, <2>2 DEF ReplyTo
  <2> QED BY <2>1, <2>2, <2>3 DEF ReplyInvariant, JournaledOnce
<1> QED BY <1>1, <1>2, <1>3, TypeCorrect, RevisionsInvariant, PTL DEF Spec


----------------------------------------------------------------------------
(* StateCoordinator implements AtomicBoard, and its files are paired, as    *)
(* long as no live holder is overtaken, no rename fails, and clients put a  *)
(* run on a row only before that run has a status.                          *)

\* What a command would put on the row is the run it shows, none, or a new one.
TakesNewRun(cmd) ==
    LET row == state[cmd.view].row
        run == MergeRow(row, Decision(cmd).row).run
    IN  Decision(cmd).action = "apply" /\ run \notin {row.run, None} =>
            status[cmd.view][run].st = Absent

\* The hypothesis on the clients: a run is announced before it writes a status.
NewRunsOnly == \A c \in Coords, cmd \in Commands : Decide(c, cmd) => TakesNewRun(cmd)
RunsComeNew == [][NewRunsOnly]_vars

\* The hypothesis on beats that PairingHolds needs in addition: none is torn by a crash.
TornBeat == \E c \in Coords : pc[c] = "status" /\ Transient(job[c].rec.cmd) /\ pc'[c] = "down"
BeatsEnd == [][~TornBeat]_vars

\* A status file that writing the patch under revision n would leave alone.
Kept(file, kind, patch, n) ==
    IF file.st = Absent THEN patch = NoPatch \/ kind \notin StatusBootstrapKinds
                        ELSE n <= file.rev

KeptBy(rec, run) ==
    run = None \/ Kept(status[rec.cmd.view][run], rec.cmd.kind, rec.patch, rec.rev)

\* A record whose two halves are written.
Finished(rec) == Landed(rec) /\ KeptBy(rec, DecidedRun(rec))
Applied(i) == journal[i].status = "applied"

\* Every view with applied records has a last one, and only the last record of
\* all may be unfinished; no beat is journaled.
JournalOrdered ==
    /\ \A v \in Views : Pending(v) # {} => \E i \in Pending(v) : \A j \in Pending(v) : j <= i
    /\ \A i, j \in DOMAIN journal : Applied(i) /\ Applied(j) /\ ~Finished(journal[i]) =>
          j <= i /\ journal[j].rev <= journal[i].rev
    /\ \A i \in DOMAIN journal : ~Transient(journal[i].cmd)

\* A record that was decided while the row showed no run is not a bootstrap, and
\* leaves the status of the run the row shows now alone.
Unbound(rec) == DecidedRun(rec) = None
KeepsShown(rec) ==
    Unbound(rec) =>
        /\ rec.cmd.kind \notin StatusBootstrapKinds
        /\ LET run == state[rec.cmd.view].row.run IN
              IF Landed(rec) THEN KeptBy(rec, run) ELSE run = None

\* What is still to be written puts a new run on the row, if any.
PutsNewRun(rec) ==
    LET row == state[rec.cmd.view].row
        run == MergeRow(row, rec.row).run
    IN  ~Landed(rec) /\ run \notin {row.run, None} => status[rec.cmd.view][run].st = Absent

RecordsKept ==
    \A i \in DOMAIN journal : Applied(i) => KeepsShown(journal[i]) /\ PutsNewRun(journal[i])

\* No status is ahead of its row.
StatusBehind == \A v \in Views, r \in Runs : status[v][r].rev <= state[v].rev

\* A revision that some row has reached.
Seen(n) == n = 0 \/ \E v \in Views : n <= state[v].rev
CountersSeen ==
    /\ Seen(checkpoint.rev)
    /\ \A c \in Coords : Seen(counter[c])

\* The run in hand: what is to be written to it.
Bound(c) ==
    LET rec == job[c].rec IN
        pc[c] \in {"status", "replayStatus"} =>
            /\ Landed(rec) /\ rec.status = "applied"
            /\ IF Unbound(rec) THEN KeptBy(rec, job[c].bound) ELSE job[c].bound = DecidedRun(rec)

\* The record in hand is as it was decided, or the last one of the journal.
InHand(c) ==
    LET rec == job[c].rec IN
        /\ pc[c] = "append" =>
              rec = Decided(c, rec.cmd) /\ ~Transient(rec.cmd) /\ TakesNewRun(rec.cmd)
        /\ pc[c] = "state" /\ Transient(rec.cmd) =>
              rec = Decided(c, rec.cmd) /\ Decision(rec.cmd).action = "apply"
        /\ pc[c] = "status" /\ Transient(rec.cmd) =>
              /\ rec.rev = state[rec.cmd.view].rev /\ rec.cmd.run \in Runs
              /\ state[rec.cmd.view].row.run = rec.cmd.run
              /\ rec.patch =
                    DiffStatus(status[rec.cmd.view][rec.cmd.run].st, rec.cmd.payload.status)
        /\ pc[c] \in {"state", "status"} /\ ~Transient(rec.cmd) =>
              \E i \in DOMAIN journal :
                 /\ journal[i] = rec
                 /\ \A j \in DOMAIN journal : Applied(j) => j <= i /\ journal[j].rev <= rec.rev
        /\ pc[c] \in {"append", "state"} /\ rec.status = "applied" =>
              KeepsShown(rec) /\ PutsNewRun(rec)

\* What a serving coordinator has not finished is in its hand ...
ServedFinished(c) ==
    pc[c] \in Serving =>
        /\ \A i \in DOMAIN journal : Applied(i) =>
              \/ Finished(journal[i])
              \/ pc[c] \in {"state", "status"} /\ journal[i] = job[c].rec
        /\ ~torn

\* ... and what a replaying one has not, is yet to be replayed.
ReplayedFinished(c) ==
    /\ pc[c] \in {"replay", "replayStatus"} =>
          /\ \A i \in DOMAIN journal : Applied(i) =>
                \/ Finished(journal[i])
                \/ \E j \in DOMAIN todo[c] : todo[c][j] = journal[i]
                \/ pc[c] = "replayStatus" /\ journal[i] = job[c].rec
          /\ ~torn
    /\ pc[c] = "replayStatus" => \E i \in DOMAIN journal : journal[i] = job[c].rec

FilesKept == JournalOrdered /\ RecordsKept /\ StatusBehind
Hand(c) == Bound(c) /\ InHand(c) /\ ServedFinished(c) /\ ReplayedFinished(c)

BoardInvariant == FilesKept /\ CountersSeen /\ \A c \in Coords : Hand(c)

\* The shown row and the status of the run it shows carry one revision, but for a
\* beat that is half written.
PairShown(v) ==
    LET run == ShownRow(v).row.run
    IN  run # None /\ ShownRuns(v)[run].st # Absent => ShownRuns(v)[run].rev = ShownRow(v).rev
HalfBeat(v) ==
    \E c \in Coords : pc[c] = "status" /\ Transient(job[c].rec.cmd) /\ job[c].rec.cmd.view = v
PairInvariant == \A v \in Views : PairShown(v) \/ HalfBeat(v)

----------------------------------------------------------------------------
(* What a record, in hand or replayed, does to the files of its view.      *)

\* A stamped status is one the stamp would leave alone; and a stamp keeps what an
\* older or equal revision would have left alone.
LEMMA StampKeeps ==
    ASSUME NEW file \in StatusFile, NEW kind, NEW patch \in StatusPatch \cup {NoPatch},
           NEW n \in Nat
    PROVE  LET new == StampStatus(file, kind, patch, n)
           IN  /\ new \in StatusFile /\ new.rev \in {file.rev, n}
               /\ Kept(new, kind, patch, n)
               /\ \A k \in Kinds, p \in StatusPatch \cup {NoPatch}, m \in Nat :
                     m <= n /\ Kept(file, k, p, m) => Kept(new, k, p, m)
<1> DEFINE new == StampStatus(file, kind, patch, n)
<1>1. new \in StatusFile
  BY StampStatusType
<1>2. file.rev \in Nat
  BY DEF StatusFile, NoStatus
<1>3. file.st = Absent => file = NoStatus
  BY AbsentAssumption DEF StatusFile
<1>4. CASE file.st = Absent
  <2>1. CASE patch # NoPatch /\ kind \in StatusBootstrapKinds
    <3>1. MergeStatus(BlankStatus, patch) \in Status
      BY <2>1, BlankStatusType, MergeStatusType
    <3>2. new.st # Absent /\ new.rev = n
      BY <1>4, <2>1, <3>1, AbsentAssumption DEF StampStatus
    <3> QED BY <1>1, <1>4, <2>1, <3>2 DEF Kept
  <2>2. CASE ~(patch # NoPatch /\ kind \in StatusBootstrapKinds)
    <3>1. new = file
      BY <1>4, <2>2 DEF StampStatus
    <3> QED BY <1>1, <1>4, <2>2, <3>1 DEF Kept
  <2> QED BY <2>1, <2>2
<1>5. CASE file.st # Absent
  <2>1. CASE file.rev < n
    <3>1. file.st \in Status
      BY <1>5 DEF StatusFile, NoStatus
    <3>2. patch # NoPatch => MergeStatus(file.st, patch) \in Status
      BY <3>1, MergeStatusType
    <3>3. new.st # Absent /\ new.rev = n
      BY <1>5, <2>1, <3>1, <3>2, AbsentAssumption DEF StampStatus
    <3> QED BY <1>1, <1>2, <1>5, <2>1, <3>3 DEF Kept
  <2>2. CASE ~(file.rev < n)
    <3>1. new = file
      BY <1>5, <2>2 DEF StampStatus
    <3> QED BY <1>1, <1>2, <1>5, <2>2, <3>1 DEF Kept
  <2> QED BY <2>1, <2>2
<1> QED BY <1>4, <1>5

\* A status that a stamp would leave alone is left alone.
LEMMA KeptStamp ==
    ASSUME NEW file \in StatusFile, NEW kind, NEW patch, NEW n \in Nat,
           Kept(file, kind, patch, n)
    PROVE  StampStatus(file, kind, patch, n) = file
<1>1. file.rev \in Nat
  BY DEF StatusFile, NoStatus
<1> QED BY <1>1 DEF Kept, StampStatus

\* What the state half does to every state.json.
LEMMA StateWritten ==
    ASSUME TypeOK, NEW c \in Coords, NEW rec \in Record, NEW bytes,
           MaterializeState(c, rec, bytes)
    PROVE  /\ \A v \in Views : state'[v] = IF v = rec.cmd.view
                                           THEN StampState(state[v], rec.row, rec.rev)
                                           ELSE state[v]
           /\ job'[c].rec = rec
           /\ job'[c].bound = BoundRun(rec.cmd, rec.run, state[rec.cmd.view].row)
<1>1. state \in [Views -> StateFile] /\ rec.cmd.view \in Views
  BY RecordFacts DEF TypeOK
<1>2. job \in [Coords -> Job \cup {None}]
  BY DEF TypeOK
<1>3. state' = [state EXCEPT ![rec.cmd.view] =
                   StampState(state[rec.cmd.view], rec.row, rec.rev)]
  BY <1>1 DEF MaterializeState
<1> QED BY <1>1, <1>2, <1>3 DEF MaterializeState

\* What the status half does to every status.json.
LEMMA StatusWritten ==
    ASSUME TypeOK, NEW c \in Coords, job[c] \in Job, MaterializeStatus(c)
    PROVE  LET rec == job[c].rec
           IN  \A v \in Views, r \in Runs :
                  status'[v][r] = IF v = rec.cmd.view /\ r = job[c].bound
                                  THEN StampStatus(status[v][r], rec.cmd.kind, rec.patch, rec.rev)
                                  ELSE status[v][r]
<1> DEFINE rec == job[c].rec
           w == rec.cmd.view
           new == StampRuns(status[w], job[c].bound, rec.cmd.kind, rec.patch, rec.rev)
<1>1. rec \in Record /\ job[c].bound \in RunRef
  BY DEF Job
<1>2. w \in Views
  BY <1>1, RecordFacts
<1>3. status \in [Views -> [Runs -> StatusFile]]
  BY DEF TypeOK
<1>4. status' = [status EXCEPT ![w] = new]
  BY <1>2, <1>3 DEF MaterializeStatus
<1>5. \A r \in Runs : new[r] = IF r = job[c].bound
                               THEN StampStatus(status[w][r], rec.cmd.kind, rec.patch, rec.rev)
                               ELSE status[w][r]
  <2>1. status[w] \in [Runs -> StatusFile]
    BY <1>2, <1>3
  <2>2. CASE job[c].bound = None
    BY <2>2, RunsAssumption DEF StampRuns
  <2>3. CASE job[c].bound # None
    <3>1. new = [status[w] EXCEPT ![job[c].bound] =
                    StampStatus(@, rec.cmd.kind, rec.patch, rec.rev)]
      BY <2>3 DEF StampRuns
    <3> QED BY <2>1, <3>1
  <2> QED BY <2>2, <2>3
<1> HIDE DEF new, w
<1>6. \A v \in Views : status'[v] = IF v = w THEN new ELSE status[v]
  BY <1>2, <1>3, <1>4
<1> QED BY <1>5, <1>6 DEF w

\* The run a record was decided for is a run or none.
LEMMA DecidedRunType ==
    ASSUME NEW rec \in Record
    PROVE  DecidedRun(rec) \in RunRef
BY RecordFacts DEF DecidedRun

\* Writing the row of a record finishes no record less, and leaves what the other
\* records of its view hold as they are, when none of them is newer.
LEMMA AfterState ==
    ASSUME TypeOK, NEW c \in Coords, NEW rec \in Record, NEW bytes \in Nat,
           MaterializeState(c, rec, bytes), UNCHANGED status, PutsNewRun(rec)
    PROVE  \A x \in Record :
              /\ Landed(x) => Landed(x)'
              /\ Finished(x) => Finished(x)'
              /\ (x.cmd.view = rec.cmd.view /\ ~Landed(rec) => x.rev <= rec.rev) =>
                    /\ KeepsShown(x) => KeepsShown(x)'
                    /\ PutsNewRun(x) => PutsNewRun(x)'
<1> SUFFICES ASSUME NEW x \in Record
             PROVE  /\ Landed(x) => Landed(x)'
                    /\ Finished(x) => Finished(x)'
                    /\ (x.cmd.view = rec.cmd.view /\ ~Landed(rec) => x.rev <= rec.rev) =>
                          /\ KeepsShown(x) => KeepsShown(x)'
                          /\ PutsNewRun(x) => PutsNewRun(x)'
  OBVIOUS
<1>1. /\ x.cmd.view \in Views /\ rec.cmd.view \in Views
      /\ x.rev \in Nat /\ rec.rev \in Nat /\ x.cmd \in Commands
  BY RecordFacts
<1>2. state[x.cmd.view].rev \in Nat /\ state[x.cmd.view].row.run \in RunRef
  BY <1>1 DEF TypeOK, StateFile, Row
<1>3. state'[x.cmd.view] = IF x.cmd.view = rec.cmd.view
                           THEN StampState(state[x.cmd.view], rec.row, rec.rev)
                           ELSE state[x.cmd.view]
  BY <1>1, StateWritten
<1>4. CASE state'[x.cmd.view] = state[x.cmd.view]
  BY <1>4 DEF Landed, Finished, KeptBy, KeepsShown, PutsNewRun
<1>5. CASE state'[x.cmd.view] # state[x.cmd.view]
  <2>1. /\ x.cmd.view = rec.cmd.view /\ state[x.cmd.view].rev < rec.rev
        /\ state'[x.cmd.view].rev = rec.rev
        /\ state'[x.cmd.view].row = MergeRow(state[x.cmd.view].row, rec.row)
    BY <1>3, <1>5 DEF StampState
  <2>2. ~Landed(rec)
    BY <1>1, <1>2, <2>1 DEF Landed
  <2>3. Landed(x) => Landed(x)'
    BY <1>1, <1>2, <2>1 DEF Landed
  <2>4. Finished(x) => Finished(x)'
    BY <2>3 DEF Finished, KeptBy
  <2>5. ASSUME x.rev <= rec.rev PROVE Landed(x)'
    BY <2>1, <2>5 DEF Landed
  <2>6. ASSUME x.rev <= rec.rev PROVE PutsNewRun(x)'
    BY <2>5, <2>6 DEF PutsNewRun
  <2>7. ASSUME x.rev <= rec.rev, KeepsShown(x) PROVE KeepsShown(x)'
    <3> DEFINE old == state[x.cmd.view].row.run
               new == state'[x.cmd.view].row.run
    <3>1. SUFFICES ASSUME Unbound(x)
                   PROVE  x.cmd.kind \notin StatusBootstrapKinds /\ KeptBy(x, new)
      BY <2>5, <2>7 DEF KeepsShown, KeptBy, Unbound, DecidedRun
    <3>2. x.cmd.kind \notin StatusBootstrapKinds
      BY <2>7, <3>1 DEF KeepsShown
    <3>3. CASE new = old
      BY <2>7, <3>1, <3>2, <3>3 DEF KeepsShown, KeptBy
    <3>4. CASE new = None
      BY <3>2, <3>4 DEF KeptBy
    <3>5. CASE new \notin {old, None}
      <4>1. status[x.cmd.view][new].st = Absent
        BY <2>1, <2>2, <3>5 DEF PutsNewRun
      <4> QED BY <3>2, <4>1 DEF KeptBy, Kept
    <3> QED BY <3>2, <3>3, <3>4, <3>5
  <2> QED BY <2>1, <2>2, <2>3, <2>4, <2>6, <2>7
<1> QED BY <1>4, <1>5

\* Writing the status of a landed record finishes no record less, and leaves what
\* the other records hold as they are, when none of them is newer and unfinished.
LEMMA AfterStatus ==
    ASSUME TypeOK, NEW c \in Coords, job[c] \in Job, MaterializeStatus(c), UNCHANGED state
    PROVE  \A x \in Record :
              x.rev <= job[c].rec.rev \/ UNCHANGED status =>
                 /\ Finished(x) => Finished(x)'
                 /\ KeepsShown(x) => KeepsShown(x)'
                 /\ \A run \in RunRef : KeptBy(x, run) => KeptBy(x, run)'
                 /\ Landed(x) \/ UNCHANGED status => (PutsNewRun(x) => PutsNewRun(x)')
<1> SUFFICES ASSUME NEW x \in Record, x.rev <= job[c].rec.rev \/ UNCHANGED status
             PROVE  /\ Finished(x) => Finished(x)'
                    /\ KeepsShown(x) => KeepsShown(x)'
                    /\ \A run \in RunRef : KeptBy(x, run) => KeptBy(x, run)'
                    /\ Landed(x) \/ UNCHANGED status => (PutsNewRun(x) => PutsNewRun(x)')
  OBVIOUS
<1>1. PICK rec \in Record : rec = job[c].rec
  BY JobReply
<1>2. /\ x.cmd.view \in Views /\ x.cmd.kind \in Kinds
      /\ x.rev \in Nat /\ x.patch \in StatusPatch \cup {NoPatch}
  BY RecordFacts, CommandFacts
<1>3. /\ rec.rev \in Nat /\ rec.patch \in StatusPatch \cup {NoPatch}
  BY RecordFacts
<1>4. Landed(x)' <=> Landed(x)
  BY DEF Landed
<1>5. ASSUME NEW run \in RunRef, KeptBy(x, run) PROVE KeptBy(x, run)'
  <2>1. CASE run = None \/ UNCHANGED status
    BY <1>5, <2>1 DEF KeptBy
  <2>2. CASE run # None /\ ~UNCHANGED status
    <3>1. run \in Runs /\ x.rev <= rec.rev
      BY <1>1, <2>2 DEF RunRef
    <3> DEFINE file == status[x.cmd.view][run]
    <3>2. file \in StatusFile
      BY <1>2, <3>1 DEF TypeOK
    <3>3. status'[x.cmd.view][run] \in {file, StampStatus(file, rec.cmd.kind, rec.patch, rec.rev)}
      BY <1>1, <1>2, <3>1, StatusWritten
    <3>4. Kept(file, x.cmd.kind, x.patch, x.rev)
      BY <1>5, <2>2 DEF KeptBy
    <3>5. Kept(StampStatus(file, rec.cmd.kind, rec.patch, rec.rev), x.cmd.kind, x.patch, x.rev)
      BY <1>2, <1>3, <3>1, <3>2, <3>4, StampKeeps
    <3> QED BY <3>3, <3>4, <3>5 DEF KeptBy
  <2> QED BY <2>1, <2>2
<1>6. Finished(x) => Finished(x)'
  BY <1>4, <1>5, DecidedRunType DEF Finished, DecidedRun
<1>7. state[x.cmd.view].row.run \in RunRef
  BY <1>2 DEF TypeOK, StateFile, Row
<1>8. KeepsShown(x) => KeepsShown(x)'
  BY <1>4, <1>5, <1>7 DEF KeepsShown, Unbound, DecidedRun
<1>9. Landed(x) \/ UNCHANGED status => (PutsNewRun(x) => PutsNewRun(x)')
  BY <1>4 DEF PutsNewRun
<1> QED BY <1>5, <1>6, <1>8, <1>9

\* After the status half the record in hand is finished; writing a finished one
\* changes nothing.
LEMMA HandFinished ==
    ASSUME TypeOK, NEW c \in Coords, job[c] \in Job, MaterializeStatus(c), UNCHANGED <<state, job>>,
           Bound(c), pc[c] \in {"status", "replayStatus"}
    PROVE  /\ Finished(job[c].rec)'
           /\ Finished(job[c].rec) => UNCHANGED status
<1>1. PICK rec \in Record, run \in RunRef : rec = job[c].rec /\ run = job[c].bound
  BY JobReply DEF Job
<1>2. /\ rec.cmd.view \in Views /\ rec.rev \in Nat /\ rec.patch \in StatusPatch \cup {NoPatch}
      /\ rec.cmd.kind \in Kinds
  BY RecordFacts, CommandFacts
<1>3. Landed(rec) /\ Landed(rec)'
  BY <1>1 DEF Bound, Landed
<1>4. \A v \in Views, r \in Runs :
         status'[v][r] = IF v = rec.cmd.view /\ r = run
                         THEN StampStatus(status[v][r], rec.cmd.kind, rec.patch, rec.rev)
                         ELSE status[v][r]
  BY <1>1, StatusWritten
<1>5. /\ status' \in [Views -> [Runs -> StatusFile]]
      /\ status \in [Views -> [Runs -> StatusFile]]
  BY MaterializeStatusFacts DEF TypeOK
<1>6. ASSUME KeptBy(rec, run) PROVE UNCHANGED status
  <2>1. ASSUME NEW v \in Views, NEW r \in Runs PROVE status'[v][r] = status[v][r]
    <3>1. CASE v = rec.cmd.view /\ r = run
      <4>1. Kept(status[v][r], rec.cmd.kind, rec.patch, rec.rev)
        BY <1>6, <3>1, RunsAssumption DEF KeptBy
      <4>2. status[v][r] \in StatusFile
        BY <1>5
      <4>3. StampStatus(status[v][r], rec.cmd.kind, rec.patch, rec.rev) = status[v][r]
        BY <1>2, <4>1, <4>2, KeptStamp
      <4> QED BY <1>4, <3>1, <4>3
    <3>2. CASE ~(v = rec.cmd.view /\ r = run)
      BY <1>4, <3>2
    <3> QED BY <3>1, <3>2
  <2>2. ASSUME NEW v \in Views PROVE status'[v] = status[v]
    <3>1. status'[v] \in [Runs -> StatusFile] /\ status[v] \in [Runs -> StatusFile]
      BY <1>5
    <3> QED BY <2>1, <3>1
  <2> QED BY <1>5, <2>2
<1>7. KeptBy(rec, run)'
  <2>1. CASE run = None
    BY <2>1 DEF KeptBy
  <2>2. CASE run # None
    <3>1. run \in Runs
      BY <2>2 DEF RunRef
    <3>2. status[rec.cmd.view][run] \in StatusFile
      BY <1>2, <1>5, <3>1
    <3>3. Kept(status'[rec.cmd.view][run], rec.cmd.kind, rec.patch, rec.rev)
      BY <1>2, <1>4, <3>1, <3>2, StampKeeps
    <3> QED BY <3>3 DEF KeptBy
  <2> QED BY <2>1, <2>2
<1>8. CASE Unbound(rec)
  <2>1. KeptBy(rec, run)
    BY <1>1, <1>8 DEF Bound
  <2>2. KeptBy(rec, DecidedRun(rec))'
    BY <1>8 DEF Unbound, KeptBy, DecidedRun
  <2> QED BY <1>1, <1>3, <1>6, <2>1, <2>2 DEF Finished
<1>9. CASE ~Unbound(rec)
  <2>1. run = DecidedRun(rec)
    BY <1>1, <1>9 DEF Bound
  <2>2. KeptBy(rec, DecidedRun(rec)) => UNCHANGED status
    BY <1>6, <2>1
  <2>3. KeptBy(rec, DecidedRun(rec))'
    BY <1>7, <2>1 DEF DecidedRun
  <2> QED BY <1>1, <1>3, <2>2, <2>3 DEF Finished
<1> QED BY <1>8, <1>9

\* What an applied beat is: its run is the one the row shows, before and after.
LEMMA BeatDecided ==
    ASSUME TypeOK, NEW cmd \in Commands, Transient(cmd), Decision(cmd).action = "apply"
    PROVE  LET row == state[cmd.view].row
           IN  /\ cmd.run \in Runs /\ row.run = cmd.run /\ StatusRun(cmd, row) = cmd.run
               /\ MergeRow(row, Decision(cmd).row).run = cmd.run
               /\ Decision(cmd).status =
                        DiffStatus(status[cmd.view][cmd.run].st, cmd.payload.status)
<1> DEFINE row == state[cmd.view].row
           st == StatusOf(status[cmd.view], StatusRun(cmd, row))
<1>1. cmd.kind = "run_progress" /\ cmd.run \in RunRef
  BY CommandFacts DEF Transient, TransientKinds
<1>2. Decision(cmd) = DecideStateTransition(cmd, row, state[cmd.view].rev, st)
  BY DEF Decision
<1>3. DecideKind(cmd, row, st) = DecideRunProgress(cmd, row, st)
  BY <1>1 DEF DecideKind
<1> HIDE DEF st, row
<1>4. /\ Decision(cmd) = DecideRunProgress(cmd, row, st)
  BY <1>2, <1>3 DEF DecideStateTransition, Reject
<1>5. /\ cmd.run # None /\ row.run = cmd.run
      /\ Decision(cmd).row = DiffRow(row, ProjectViewState(cmd.payload.status, cmd.run, row))
      /\ Decision(cmd).status = DiffStatus(st, cmd.payload.status)
  BY <1>4 DEF DecideRunProgress, Reject, Apply
<1>6. StatusRun(cmd, row) = cmd.run
  BY <1>1, <1>5 DEF StatusRun
<1>7. st = status[cmd.view][cmd.run].st
  BY <1>5, <1>6 DEF st, StatusOf, row
<1>8. Decision(cmd).row.run = Keep
  BY <1>5 DEF DiffRow, Changed, ProjectViewState
<1> QED BY <1>1, <1>5, <1>6, <1>7, <1>8 DEF RunRef, MergeRow, Patched, row

\* A record that was just decided, for a run that comes new, is as the invariant
\* wants the records to be.
LEMMA DecidedFresh ==
    ASSUME TypeOK, NEW c \in Coords, NEW cmd \in Commands, Decision(cmd).action = "apply",
           state[cmd.view].rev <= counter[c], TakesNewRun(cmd)
    PROVE  LET rec == Decided(c, cmd)
           IN  /\ KeepsShown(rec) /\ PutsNewRun(rec) /\ ~Landed(rec)
               /\ rec.cmd = cmd /\ rec.status = "applied" /\ rec.rev = counter[c] + 1
               /\ Unbound(rec) => state[cmd.view].row.run = None
<1> DEFINE row == state[cmd.view].row
<1>1. PICK rec \in Record : rec = Decided(c, cmd)
  BY DecidedType
<1>2. /\ rec.cmd = cmd /\ rec.status = "applied" /\ rec.rev = counter[c] + 1
      /\ rec.row = Decision(cmd).row /\ rec.run = StatusRun(cmd, row)
  BY <1>1 DEF Decided
<1>3. /\ cmd.view \in Views /\ cmd.run \in RunRef /\ WellFormed(cmd)
      /\ counter[c] \in Nat /\ state[cmd.view].rev \in Nat
  BY CommandFacts DEF TypeOK, StateFile
<1>4. ~Landed(rec)
  BY <1>2, <1>3 DEF Landed
<1>5. PutsNewRun(rec)
  BY <1>2 DEF PutsNewRun, TakesNewRun
<1>6. ASSUME Unbound(rec) PROVE row.run = None /\ cmd.kind \notin StatusBootstrapKinds
  <2>1. cmd.run = None /\ StatusRun(cmd, row) = None
    BY <1>2, <1>6 DEF Unbound, DecidedRun
  <2>2. cmd.kind # "run_started"
    BY <1>3, <2>1 DEF WellFormed, ValidCommand
  <2>3. cmd.kind # "run_progress"
    BY <2>1, BeatDecided, RunsAssumption DEF Transient, TransientKinds
  <2>4. cmd.kind # "followup_started"
    <3>1. SUFFICES ASSUME cmd.kind = "followup_started" PROVE FALSE
      OBVIOUS
    <3>2. cmd.payload \in [newRunId : Runs, status : Status]
      BY <1>3, <3>1 DEF WellFormed, ValidCommand, Payload
    <3> QED BY <2>1, <3>1, <3>2, RunsAssumption DEF StatusRun
  <2> QED BY <2>1, <2>2, <2>3, <2>4 DEF StatusRun, StatusBootstrapKinds
<1>7. KeepsShown(rec)
  BY <1>2, <1>4, <1>6 DEF KeepsShown
<1> QED BY <1>1, <1>2, <1>4, <1>5, <1>6, <1>7

----------------------------------------------------------------------------
(* The invariant of half-written records, step by step.                    *)

\* The run the status half goes to is the one the record was decided for; if
\* there was none, the status it goes to is past the record.
LEMMA BoundAfter ==
    ASSUME TypeOK, NEW c \in Coords, NEW rec \in Record, NEW bytes \in Nat,
           MaterializeState(c, rec, bytes), UNCHANGED status,
           rec.status = "applied", KeepsShown(rec)
    PROVE  Bound(c)'
<1>1. rec.cmd.view \in Views /\ rec.rev \in Nat /\ state'[rec.cmd.view].rev \in Nat
  BY RecordFacts, MaterializeStateFacts DEF StateFile
<1>2. Landed(rec)'
  BY <1>1, MaterializeStateFacts DEF Landed
<1>3. PICK run : run = BoundRun(rec.cmd, rec.run, state[rec.cmd.view].row)
  OBVIOUS
<1>4. job'[c].rec = rec /\ job'[c].bound = run
  BY <1>3, StateWritten
<1>5. CASE Unbound(rec)
  <2>1. run = state[rec.cmd.view].row.run
    BY <1>3, <1>5 DEF Unbound, DecidedRun, BoundRun
  <2>2. KeptBy(rec, run)
    BY <1>5, <2>1 DEF KeepsShown, KeptBy
  <2>3. KeptBy(rec, run)' /\ Unbound(rec)'
    BY <1>5, <2>2 DEF KeptBy, Unbound, DecidedRun
  <2> QED BY <1>2, <1>4, <2>3 DEF Bound
<1>6. CASE ~Unbound(rec)
  <2>1. run = DecidedRun(rec)
    BY <1>3, <1>6 DEF Unbound, DecidedRun, BoundRun
  <2>2. run = DecidedRun(rec)' /\ ~Unbound(rec)'
    BY <1>6, <2>1 DEF Unbound, DecidedRun
  <2> QED BY <1>2, <1>4, <2>2 DEF Bound
<1> QED BY <1>5, <1>6

\* What a row has reached stays reached.
LEMMA SeenStays ==
    ASSUME TypeOK, TypeOK', Monotonic
    PROVE  /\ \A n \in Nat : Seen(n) => Seen(n)'
           /\ \A rec \in Record : Landed(rec) => Seen(rec.rev)
           /\ \A rec \in Record : Landed(rec)' => Seen(rec.rev)'
<1>1. \A v \in Views :
            state[v].rev \in Nat /\ state'[v].rev \in Nat /\ state[v].rev <= state'[v].rev
  BY DEF TypeOK, StateFile, Monotonic
<1>2. \A rec \in Record : rec.cmd.view \in Views
  BY RecordFacts
<1> QED BY <1>1, <1>2 DEF Seen, Landed

\* Finished records only get more: what holds of the journal while it stays.
LEMMA JournalStays ==
    ASSUME TypeOK, JournalOrdered, UNCHANGED journal,
           \A i \in DOMAIN journal : Finished(journal[i]) => Finished(journal[i])'
    PROVE  JournalOrdered'
<1>1. \A v \in Views : Pending(v)' = Pending(v)
  BY DEF Pending
<1>2. \A i \in DOMAIN journal : Applied(i)' <=> Applied(i)
  BY DEF Applied
<1> QED BY <1>1, <1>2 DEF JournalOrdered, Transient

\* A record appended to a journal of finished records is its last.
LEMMA JournalGrows ==
    ASSUME TypeOK, JournalOrdered, NEW rec \in Record, UNCHANGED <<state, status>>,
           journal' = Append(journal, rec), ~Transient(rec.cmd),
           \A i \in DOMAIN journal : Applied(i) => Finished(journal[i]),
           \A i \in DOMAIN journal : Applied(i) /\ rec.status = "applied" =>
                                        journal[i].rev <= rec.rev
    PROVE  /\ JournalOrdered'
           /\ \E n \in DOMAIN journal' :
                 /\ journal'[n] = rec
                 /\ \A i \in DOMAIN journal' :
                          i <= n /\ (i = n \/ (i \in DOMAIN journal /\ journal'[i] = journal[i]))
<1>1. PICK n \in Nat : n = Len(journal)
  BY LenProperties DEF TypeOK
<1>2. /\ DOMAIN journal = 1..n /\ DOMAIN journal' = 1..(n + 1) /\ journal'[n + 1] = rec
      /\ \A i \in 1..n : journal'[i] = journal[i]
  BY <1>1, AppendProperties, LenProperties DEF TypeOK
<1>3. \A x : Finished(x)' <=> Finished(x)
  BY DEF Finished, Landed, KeptBy, DecidedRun
<1>4. \A i \in 1..n : Applied(i)' <=> Applied(i)
  BY <1>2 DEF Applied
<1>5. Applied(n + 1)' <=> rec.status = "applied"
  BY <1>2 DEF Applied
<1>6. rec.rev \in Nat /\ \A i \in 1..n : journal[i].rev \in Nat
  BY <1>2, RecordFacts DEF TypeOK
<1>7. ASSUME NEW v \in Views, Pending(v)' # {}
      PROVE  \E i \in Pending(v)' : \A j \in Pending(v)' : j <= i
  <2>1. CASE n + 1 \in Pending(v)'
    <3>1. \A j \in Pending(v)' : j <= n + 1
      BY <1>2 DEF Pending
    <3> QED BY <2>1, <3>1
  <2>2. CASE n + 1 \notin Pending(v)'
    <3>1. Pending(v)' = Pending(v)
      <4>1. \A i \in 1..n : i \in Pending(v)' <=> i \in Pending(v)
        BY <1>2 DEF Pending
      <4>2. Pending(v) \subseteq 1..n /\ Pending(v)' \subseteq 1..(n + 1)
        BY <1>2 DEF Pending
      <4>3. Pending(v)' \subseteq 1..n
        BY <2>2, <4>2
      <4> QED BY <4>1, <4>2, <4>3
    <3> QED BY <1>7, <3>1 DEF JournalOrdered
  <2> QED BY <2>1, <2>2
<1>8. \A i, j \in DOMAIN journal' :
         Applied(i)' /\ Applied(j)' /\ ~Finished(journal[i])' =>
            j <= i /\ journal'[j].rev <= journal'[i].rev
  <2>1. SUFFICES ASSUME NEW i \in 1..(n + 1), NEW j \in 1..(n + 1),
                        Applied(i)', Applied(j)', ~Finished(journal[i])'
                 PROVE  j <= i /\ journal'[j].rev <= journal'[i].rev
    BY <1>2
  <2>2. i = n + 1
    <3>1. SUFFICES ASSUME i \in 1..n PROVE FALSE
      OBVIOUS
    <3>2. Applied(i) /\ journal'[i] = journal[i]
      BY <1>2, <1>4, <2>1, <3>1
    <3>3. Finished(journal[i])
      BY <1>2, <3>1, <3>2
    <3>4. Finished(journal[i])'
      BY <3>2, <3>3 DEF Finished, Landed, KeptBy, DecidedRun
    <3> QED BY <2>1, <3>4
  <2>3. journal'[i] = rec /\ rec.status = "applied"
    BY <1>2, <1>5, <2>1, <2>2
  <2>4. CASE j = n + 1
    <3>1. j = i
      BY <2>2, <2>4
    <3>2. rec.rev <= rec.rev /\ i <= i
      BY <1>6
    <3> QED BY <2>3, <3>1, <3>2
  <2>5. CASE j \in 1..n
    <3>1. journal'[j] = journal[j] /\ Applied(j)
      BY <1>2, <1>4, <2>1, <2>5
    <3>2. journal[j].rev <= rec.rev
      BY <1>2, <2>3, <2>5, <3>1
    <3>3. j <= i
      BY <2>2, <2>5
    <3> QED BY <2>3, <3>1, <3>2, <3>3
  <2>6. j = n + 1 \/ j \in 1..n
    BY <2>1
  <2> QED BY <2>4, <2>5, <2>6
<1>9. \A i \in DOMAIN journal' : ~Transient(journal'[i].cmd)
  BY <1>2 DEF JournalOrdered, Transient
<1>10. JournalOrdered'
  BY <1>7, <1>8, <1>9 DEF JournalOrdered, Transient
<1>11. /\ n + 1 \in DOMAIN journal' /\ journal'[n + 1] = rec
       /\ \A i \in DOMAIN journal' :
             i <= n + 1 /\ (i = n + 1 \/ (i \in DOMAIN journal /\ journal'[i] = journal[i]))
  BY <1>1, <1>2
<1> QED BY <1>10, <1>11

\* Collecting a journal of finished records keeps it ordered.
LEMMA JournalShrinks ==
    ASSUME TypeOK, JournalOrdered, NEW c \in Coords, CollectGarbage(c),
           \A i \in DOMAIN journal : Applied(i) => Finished(journal[i])
    PROVE  /\ JournalOrdered'
           /\ \A i \in DOMAIN journal' : \E j \in DOMAIN journal : journal'[i] = journal[j]
<1>1. PICK m \in Nat \ {0}, n \in Nat : m = checkpoint.bytes + 1 /\ n = Len(journal)
  BY JournalType, LenProperties
<1>2. journal \in Seq(Record) /\ DOMAIN journal = 1..n
  BY <1>1, LenProperties DEF TypeOK
<1>3. journal' = SubSeq(journal, m, n) /\ UNCHANGED <<state, status>>
  BY <1>1 DEF CollectGarbage
<1>4. \A i \in m..n : journal[i] \in Record
  BY <1>2
<1>5. /\ journal' \in Seq(Record) /\ Len(journal') = IF m <= n THEN n - m + 1 ELSE 0
      /\ \A i \in 1..(n - m + 1) : journal'[i] = journal[m + i - 1]
  BY <1>3, <1>4, SubSeqProperties
<1>6. DOMAIN journal' = 1..Len(journal')
  BY <1>5, LenProperties
<1>7. DOMAIN journal' = IF m <= n THEN 1..(n - m + 1) ELSE {}
  BY <1>1, <1>5, <1>6
<1>8. ASSUME NEW i \in DOMAIN journal'
      PROVE  m + i - 1 \in DOMAIN journal /\ journal'[i] = journal[m + i - 1]
  BY <1>1, <1>2, <1>5, <1>7
<1>9. ASSUME NEW i \in DOMAIN journal, i >= m
      PROVE  i - m + 1 \in DOMAIN journal' /\ journal'[i - m + 1] = journal[i]
  <2>1. i \in 1..n /\ m <= n /\ i - m + 1 \in 1..(n - m + 1)
    BY <1>1, <1>2, <1>9
  <2>2. m + (i - m + 1) - 1 = i
    BY <1>1, <2>1
  <2>3. journal'[i - m + 1] = journal[m + (i - m + 1) - 1]
    BY <1>5, <2>1
  <2> QED BY <1>7, <2>1, <2>2, <2>3
<1>10. DOMAIN journal' \subseteq Nat /\ DOMAIN journal \subseteq Nat
  BY <1>1, <1>2, <1>7
<1>11. ASSUME NEW v \in Views, Pending(v)' # {}
       PROVE  \E i \in Pending(v)' : \A j \in Pending(v)' : j <= i
  <2>1. \A i \in DOMAIN journal' : i \in Pending(v)' => m + i - 1 \in Pending(v)
    BY <1>8 DEF Pending
  <2>2. PICK i \in DOMAIN journal' : i \in Pending(v)'
    BY <1>11 DEF Pending
  <2>3. PICK k \in Pending(v) : \A j \in Pending(v) : j <= k
    BY <2>1, <2>2 DEF JournalOrdered
  <2>4. k \in DOMAIN journal /\ k >= m
    <3>1. k \in DOMAIN journal /\ m + i - 1 <= k
      BY <2>1, <2>2, <2>3 DEF Pending
    <3>2. i >= 1 /\ i \in Nat /\ k \in Nat
      BY <1>1, <1>7, <1>10, <3>1
    <3> QED BY <1>1, <3>1, <3>2
  <2>5. k - m + 1 \in Pending(v)'
    BY <1>9, <2>4 DEF Pending
  <2>6. ASSUME NEW j \in Pending(v)' PROVE j <= k - m + 1
    <3>1. j \in DOMAIN journal'
      BY DEF Pending
    <3> QED BY <1>1, <1>10, <2>1, <2>3, <2>4, <3>1
  <2> QED BY <2>5, <2>6
<1>12. \A i \in DOMAIN journal' : Applied(i)' => Finished(journal[i])'
  <2>1. SUFFICES ASSUME NEW i \in DOMAIN journal', Applied(i)' PROVE Finished(journal[i])'
    OBVIOUS
  <2>2. PICK j \in DOMAIN journal : journal'[i] = journal[j]
    BY <1>8
  <2>3. Finished(journal[j])
    BY <2>1, <2>2 DEF Applied
  <2> QED BY <1>3, <2>2, <2>3 DEF Finished, Landed, KeptBy, DecidedRun
<1>13. \A i \in DOMAIN journal' : ~Transient(journal'[i].cmd)
  BY <1>8 DEF JournalOrdered, Transient
<1>14. JournalOrdered'
  BY <1>11, <1>12, <1>13 DEF JournalOrdered, Transient
<1> QED BY <1>8, <1>14

\* A status is stamped with the revision of a landed record: it does not get
\* ahead of its row.
LEMMA StatusStaysBehind ==
    ASSUME TypeOK, StatusBehind, NEW c \in Coords, job[c] \in Job, MaterializeStatus(c),
           UNCHANGED state, Landed(job[c].rec)
    PROVE  StatusBehind'
<1>1. PICK rec \in Record : rec = job[c].rec
  BY JobReply
<1>2. /\ rec.cmd.view \in Views /\ rec.rev \in Nat /\ rec.patch \in StatusPatch \cup {NoPatch}
      /\ rec.rev <= state[rec.cmd.view].rev
  BY <1>1, RecordFacts DEF Landed
<1> SUFFICES ASSUME NEW v \in Views, NEW r \in Runs
             PROVE  status'[v][r].rev <= state'[v].rev
  BY DEF StatusBehind
<1>3. status[v][r].rev <= state[v].rev /\ status[v][r] \in StatusFile
  BY DEF StatusBehind, TypeOK
<1>4. CASE v = rec.cmd.view /\ r = job[c].bound
  <2>1. status'[v][r] = StampStatus(status[v][r], rec.cmd.kind, rec.patch, rec.rev)
    BY <1>1, <1>4, StatusWritten
  <2>2. status'[v][r].rev \in {status[v][r].rev, rec.rev}
    <3>1. PICK file \in StatusFile : file = status[v][r]
      BY <1>3
    <3>2. StampStatus(file, rec.cmd.kind, rec.patch, rec.rev).rev \in {file.rev, rec.rev}
      BY <1>2, StampKeeps
    <3> QED BY <2>1, <3>1, <3>2
  <2> QED BY <1>2, <1>3, <1>4, <2>2
<1>5. CASE ~(v = rec.cmd.view /\ r = job[c].bound)
  BY <1>1, <1>3, <1>5, StatusWritten
<1> QED BY <1>4, <1>5

\* Rows that get newer stay ahead of statuses that stay.
LEMMA RowsLead ==
    ASSUME TypeOK, TypeOK', Monotonic, StatusBehind, UNCHANGED status
    PROVE  StatusBehind'
<1> SUFFICES ASSUME NEW v \in Views, NEW r \in Runs
             PROVE  status'[v][r].rev <= state'[v].rev
  BY DEF StatusBehind
<1>1. status[v][r].rev <= state[v].rev /\ state[v].rev <= state'[v].rev
  BY DEF StatusBehind, Monotonic, TypeOK, StateFile
<1>2. status[v][r] \in StatusFile /\ state[v] \in StateFile /\ state'[v] \in StateFile
  BY DEF TypeOK
<1>3. status[v][r].rev \in Nat /\ state[v].rev \in Nat /\ state'[v].rev \in Nat
  BY <1>2 DEF StatusFile, StateFile, NoStatus
<1> QED BY <1>1, <1>3

\* Every step keeps the invariant: what a coordinator leaves half written is the
\* last record of the journal, and the next one finishes it before it serves.
LEMMA BoardStep ==
    ASSUME ~StaleReclaim, ~DiskFails, TypeOK, RevisionInvariant, BoardInvariant,
           [Next]_vars, [NewRunsOnly]_vars
    PROVE  BoardInvariant'
<1> USE DEF Serving
<1>t. TypeOK' /\ RevisionInvariant' /\ Monotonic
  BY TypeStep, RevisionStep, MonotonicStep
<1>j. \A i \in DOMAIN journal : journal[i] \in Record
  BY DEF TypeOK
<1>l. \A rec \in Record : Landed(rec) => Landed(rec)'
  BY <1>t, LandedStays
<1>n. /\ \A n \in Nat : Seen(n) => Seen(n)'
      /\ \A rec \in Record : Landed(rec) => Seen(rec.rev)
      /\ \A rec \in Record : Landed(rec)' => Seen(rec.rev)'
  BY <1>t, SeenStays
<1>c. /\ checkpoint.rev \in Nat /\ Seen(checkpoint.rev) /\ Seen(0)'
      /\ \A d \in Coords : counter[d] \in Nat /\ Seen(counter[d])
  BY DEF TypeOK, BoardInvariant, CountersSeen, Seen
<1>h. \A d \in Coords : Hand(d) /\ Ahead(d)
  BY DEF BoardInvariant, RevisionInvariant
<1>k. JournalOrdered /\ RecordsKept /\ StatusBehind
  BY DEF BoardInvariant, FilesKept
<1>a. ASSUME UNCHANGED <<state, status, journal>>
      PROVE  FilesKept' /\ \A x : Finished(x)' <=> Finished(x)
  <2>1. \A x : /\ Finished(x)' <=> Finished(x)
               /\ KeepsShown(x)' <=> KeepsShown(x)
               /\ PutsNewRun(x)' <=> PutsNewRun(x)
    BY <1>a DEF Finished, Landed, KeptBy, DecidedRun, KeepsShown, Unbound, PutsNewRun
  <2>2. \A i \in DOMAIN journal : Applied(i)' <=> Applied(i)
    BY <1>a DEF Applied
  <2>3. JournalOrdered'
    BY <1>a, <1>k, <2>1, JournalStays
  <2>4. RecordsKept'
    <3>1. SUFFICES ASSUME NEW i \in DOMAIN journal, Applied(i)
                   PROVE  KeepsShown(journal[i])' /\ PutsNewRun(journal[i])'
      BY <1>a, <2>2 DEF RecordsKept
    <3>2. PICK x \in Record : x = journal[i]
      BY <1>j
    <3>3. KeepsShown(x) /\ PutsNewRun(x)
      BY <1>k, <3>1, <3>2 DEF RecordsKept
    <3>4. KeepsShown(x)' /\ PutsNewRun(x)' /\ x = journal'[i]
      BY <1>a, <2>1, <3>2, <3>3
    <3> QED BY <3>4
  <2>5. StatusBehind'
    BY <1>a, <1>k DEF StatusBehind
  <2> QED BY <2>1, <2>3, <2>4, <2>5 DEF FilesKept
<1>d. ASSUME NEW d \in Coords, pc'[d] \in {"down", "repair"} PROVE Hand(d)'
  BY <1>d DEF Hand, Bound, InHand, ServedFinished, ReplayedFinished
<1>o. ASSUME NEW c \in Coords, NEW label \in Labels, Goto(c, label)
      PROVE  pc'[c] = label /\ \A d \in Coords \ {c} : pc'[d] = pc[d]
  BY <1>o, GotoFacts
<1>f. ASSUME NEW c \in Coords, pc[c] # "down", FilesKept', Hand(c)',
             \A d \in Coords \ {c} : pc'[d] = pc[d] /\ counter'[d] = counter[d],
             Seen(checkpoint.rev)', Seen(counter[c])'
      PROVE  BoardInvariant'
  <2>1. ASSUME NEW d \in Coords \ {c} PROVE Hand(d)'
    <3>1. pc'[d] = "down"
      BY <1>f, Alone DEF RevisionInvariant
    <3> QED BY <1>d, <3>1
  <2>2. ASSUME NEW d \in Coords \ {c} PROVE Seen(counter[d])'
    <3>1. PICK n \in Nat : n = counter[d] /\ Seen(n)
      BY <1>c
    <3>2. n = counter'[d] /\ Seen(n)'
      BY <1>f, <1>n, <3>1
    <3> QED BY <3>2 DEF Seen
  <2> QED BY <1>f, <2>1, <2>2 DEF BoardInvariant, CountersSeen
<1>p. ASSUME UNCHANGED checkpoint PROVE Seen(checkpoint.rev)'
  <2>1. PICK n \in Nat : n = checkpoint.rev /\ Seen(n)
    BY <1>c
  <2>2. n = checkpoint'.rev /\ Seen(n)'
    BY <1>n, <1>p, <2>1
  <2> QED BY <2>2 DEF Seen
<1>q. ASSUME NEW c \in Coords, UNCHANGED counter PROVE Seen(counter[c])'
  <2>1. PICK n \in Nat : n = counter[c] /\ Seen(n)
    BY <1>c
  <2>2. n = counter'[c] /\ Seen(n)'
    BY <1>n, <1>q, <2>1
  <2> QED BY <2>2 DEF Seen
\* Nothing the invariant speaks of moves.
<1>1. ASSUME UNCHANGED <<state, status, journal, torn, checkpoint, pc, job, todo, counter>>
      PROVE  BoardInvariant'
  <2>1. ASSUME NEW d \in Coords PROVE Hand(d)'
    <3>1. Bound(d)'
      BY <1>1, <1>h DEF Hand, Bound, Landed, Unbound, DecidedRun, KeptBy
    <3>2. InHand(d)'
      BY <1>1, <1>h DEF Hand, InHand, Decided, Decision, Transient, TakesNewRun, KeepsShown,
                        PutsNewRun, Unbound, DecidedRun, Landed, KeptBy, Applied
    <3>3. ServedFinished(d)'
      BY <1>1, <1>h DEF Hand, ServedFinished, Finished, Landed, KeptBy, DecidedRun, Applied
    <3>4. ReplayedFinished(d)'
      BY <1>1, <1>h DEF Hand, ReplayedFinished, Finished, Landed, KeptBy, DecidedRun, Applied
    <3> QED BY <3>1, <3>2, <3>3, <3>4 DEF Hand
  <2> QED BY <1>1, <1>a, <1>p, <1>q, <2>1 DEF BoardInvariant, CountersSeen
<1>2. ASSUME NEW c \in Coords, AcquireLease(c) PROVE BoardInvariant'
  <2>1. \A d \in Coords : pc[d] = "down"
    BY <1>2, CoordinatorAssumption
    DEF AcquireLease, LeaseAvailable, RevisionInvariant, OneHolder
  <2>2. pc'[c] = "repair" /\ \A d \in Coords \ {c} : pc'[d] = "down"
    BY <1>2, <1>o, <2>1 DEF AcquireLease, Labels, Booting
  <2>3. UNCHANGED <<state, status, journal, checkpoint, counter>>
    BY <1>2 DEF AcquireLease, disk
  <2> QED BY <1>a, <1>d, <1>p, <1>q, <2>2, <2>3 DEF BoardInvariant, CountersSeen
<1>3. ASSUME NEW c \in Coords, Repair(c) PROVE BoardInvariant'
  <2>1. pc'[c] = "replay" /\ \A d \in Coords \ {c} : pc'[d] = pc[d]
    BY <1>3, <1>o DEF Repair, Labels, Booting
  <2>2. /\ UNCHANGED <<state, status, journal, checkpoint>>
        /\ torn' = FALSE /\ todo'[c] = journal /\ counter'[c] = checkpoint.rev
        /\ \A d \in Coords \ {c} : counter'[d] = counter[d]
    BY <1>3 DEF Repair, TypeOK
  <2>3. ReplayedFinished(c)'
    BY <2>1, <2>2 DEF ReplayedFinished
  <2>4. Hand(c)'
    BY <2>1, <2>3 DEF Hand, Bound, InHand, ServedFinished
  <2>5. Seen(counter[c])'
    BY <1>p, <2>2 DEF Seen
  <2> QED BY <1>3, <1>a, <1>f, <1>p, <2>1, <2>2, <2>4, <2>5 DEF Repair
<1>4. ASSUME NEW c \in Coords, ReplayRejected(c) PROVE BoardInvariant'
  <2>1. PICK rec \in Record :
        /\ rec = Head(todo[c])
        /\ \E j \in DOMAIN todo[c] : rec = todo[c][j]
        /\ \A j \in DOMAIN todo[c] :
              todo[c][j] = rec \/ \E i \in DOMAIN Tail(todo[c]) : Tail(todo[c])[i] = todo[c][j]
    <3>1. todo[c] # <<>>
      BY <1>4 DEF ReplayRejected
    <3> QED BY <3>1, NextRecord
  <2>2. /\ pc[c] = "replay" /\ rec.status = "rejected" /\ UNCHANGED pc
        /\ UNCHANGED <<state, status, journal, torn, checkpoint, job>>
    BY <1>4, <2>1 DEF ReplayRejected, disk
  <2>3. /\ todo'[c] = Tail(todo[c]) /\ counter'[c] = Larger(counter[c], rec.rev)
        /\ \A d \in Coords \ {c} : counter'[d] = counter[d]
    BY <1>4, <2>1 DEF ReplayRejected, TakeUp, TypeOK
  <2>4. Seen(counter[c])'
    <3>1. Landed(rec)
      <4>1. PICK i \in DOMAIN journal : rec = journal[i]
        BY <1>h, <2>1, <2>2 DEF Ahead, ReplayedJournal
      <4>2. RejectedLanded
        BY DEF RevisionInvariant
      <4> QED BY <2>2, <4>1, <4>2 DEF RejectedLanded
    <3>2. PICK n \in Nat : n = counter[c] /\ Seen(n)'
      BY <1>c, <1>n
    <3>3. Seen(rec.rev)'
      BY <1>l, <1>n, <3>1
    <3> QED BY <2>3, <3>2, <3>3 DEF Larger, Seen
  <2>5. ReplayedFinished(c)'
    <3>1. ASSUME NEW i \in DOMAIN journal, Applied(i)
          PROVE  Finished(journal[i]) \/ \E j \in DOMAIN todo'[c] : todo'[c][j] = journal[i]
      <4>1. CASE Finished(journal[i])
        BY <4>1
      <4>2. CASE ~Finished(journal[i])
        <5>1. PICK j \in DOMAIN todo[c] : todo[c][j] = journal[i]
          BY <1>h, <2>2, <3>1, <4>2 DEF Hand, ReplayedFinished
        <5>2. todo[c][j] # rec
          BY <2>2, <3>1, <5>1 DEF Applied
        <5> QED BY <2>1, <2>3, <5>1, <5>2
      <4> QED BY <4>1, <4>2
    <3>2. ~torn'
      BY <1>h, <2>2 DEF Hand, ReplayedFinished
    <3>3. \A i \in DOMAIN journal : /\ Applied(i)' <=> Applied(i)
                                    /\ Finished(journal[i])' <=> Finished(journal[i])
      BY <2>2 DEF Applied, Finished, Landed, KeptBy, DecidedRun
    <3> QED BY <2>2, <3>1, <3>2, <3>3 DEF ReplayedFinished
  <2>6. Hand(c)'
    BY <2>2, <2>5 DEF Hand, Bound, InHand, ServedFinished
  <2> QED BY <1>a, <1>f, <1>p, <2>2, <2>3, <2>4, <2>6
\* A record is replayed: the row ...
<1>5. ASSUME NEW c \in Coords, ReplayState(c) PROVE BoardInvariant'
  <2>1. PICK rec \in Record :
        /\ rec = Head(todo[c])
        /\ \E j \in DOMAIN todo[c] : rec = todo[c][j]
        /\ \A j \in DOMAIN todo[c] :
              todo[c][j] = rec \/ \E i \in DOMAIN Tail(todo[c]) : Tail(todo[c])[i] = todo[c][j]
    <3>1. todo[c] # <<>>
      BY <1>5 DEF ReplayState
    <3> QED BY <3>1, NextRecord
  <2>2. /\ pc[c] = "replay" /\ rec.status = "applied" /\ MaterializeState(c, rec, 0)
        /\ UNCHANGED <<status, journal, torn, checkpoint>> /\ 0 \in Nat
    BY <1>5, <2>1 DEF ReplayState
  <2>3. /\ todo'[c] = Tail(todo[c]) /\ counter'[c] = Larger(counter[c], rec.rev)
        /\ \A d \in Coords \ {c} : counter'[d] = counter[d]
    BY <1>5, <2>1 DEF ReplayState, TakeUp, TypeOK
  <2>4. pc'[c] = "replayStatus" /\ \A d \in Coords \ {c} : pc'[d] = pc[d]
    BY <1>5, <1>o DEF ReplayState, Labels, Booting
  <2>5. PICK i \in DOMAIN journal : journal[i] = rec
    BY <1>h, <2>1, <2>2 DEF Ahead, ReplayedJournal
  <2>6. Applied(i) /\ KeepsShown(rec) /\ PutsNewRun(rec)
    BY <1>k, <2>2, <2>5 DEF Applied, RecordsKept
  <2>7. \A x \in Record :
           /\ Finished(x) => Finished(x)'
           /\ (x.cmd.view = rec.cmd.view /\ ~Landed(rec) => x.rev <= rec.rev) =>
                 /\ KeepsShown(x) => KeepsShown(x)'
                 /\ PutsNewRun(x) => PutsNewRun(x)'
    BY <2>2, <2>6, AfterState
  <2>8. Bound(c)' /\ job'[c].rec = rec
    BY <2>2, <2>6, BoundAfter, StateWritten
  <2>9. \A k \in DOMAIN journal : Applied(k)' <=> Applied(k)
    BY <2>2 DEF Applied
  <2>10. FilesKept'
    <3>1. \A k \in DOMAIN journal : Finished(journal[k]) => Finished(journal[k])'
      <4>1. SUFFICES ASSUME NEW k \in DOMAIN journal, Finished(journal[k])
                     PROVE  Finished(journal[k])'
        OBVIOUS
      <4>2. PICK x \in Record : x = journal[k]
        BY <1>j
      <4>3. Finished(x)' /\ x = journal'[k]
        BY <2>2, <2>7, <4>1, <4>2
      <4> QED BY <4>3
    <3>2. JournalOrdered'
      BY <1>k, <2>2, <3>1, JournalStays
    <3>3. RecordsKept'
      <4>1. SUFFICES ASSUME NEW k \in DOMAIN journal, Applied(k)
                     PROVE  KeepsShown(journal[k])' /\ PutsNewRun(journal[k])'
        BY <2>2, <2>9 DEF RecordsKept
      <4>2. PICK x \in Record : x = journal[k]
        BY <1>j
      <4>3. KeepsShown(x) /\ PutsNewRun(x)
        BY <1>k, <4>1, <4>2 DEF RecordsKept
      <4>4. ~Landed(rec) => x.rev <= rec.rev
        BY <1>k, <2>5, <2>6, <4>1, <4>2 DEF JournalOrdered, Finished
      <4>5. KeepsShown(x)' /\ PutsNewRun(x)' /\ x = journal'[k]
        BY <2>2, <2>7, <4>2, <4>3, <4>4
      <4> QED BY <4>5
    <3>4. StatusBehind'
      BY <1>k, <1>t, <2>2, RowsLead
    <3> QED BY <3>2, <3>3, <3>4 DEF FilesKept
  <2>11. ReplayedFinished(c)'
    <3>1. ASSUME NEW k \in DOMAIN journal, Applied(k)
          PROVE  \/ Finished(journal[k])'
                 \/ \E j \in DOMAIN todo'[c] : todo'[c][j] = journal[k]
                 \/ journal[k] = rec
      <4>1. PICK x \in Record : x = journal[k]
        BY <1>j
      <4>2. CASE Finished(x)
        <5>1. Finished(x)' /\ x = journal'[k]
          BY <2>2, <2>7, <4>1, <4>2
        <5> QED BY <5>1
      <4>3. CASE ~Finished(x) /\ x # rec
        <5>1. PICK j \in DOMAIN todo[c] : todo[c][j] = journal[k]
          BY <1>h, <2>2, <3>1, <4>1, <4>3 DEF Hand, ReplayedFinished
        <5> QED BY <2>1, <2>3, <4>1, <4>3, <5>1
      <4> QED BY <4>1, <4>2, <4>3
    <3>2. ~torn'
      BY <1>h, <2>2 DEF Hand, ReplayedFinished
    <3> QED BY <2>2, <2>4, <2>5, <2>8, <2>9, <3>1, <3>2 DEF ReplayedFinished
  <2>12. Hand(c)'
    BY <2>4, <2>8, <2>11 DEF Hand, InHand, ServedFinished
  <2>13. Seen(counter[c])'
    <3>1. Landed(rec)'
      BY <2>4, <2>8 DEF Bound, Landed
    <3>2. PICK n \in Nat : n = counter[c] /\ Seen(n)'
      BY <1>c, <1>n
    <3>3. Seen(rec.rev)'
      BY <1>n, <3>1
    <3> QED BY <2>3, <3>2, <3>3 DEF Larger, Seen
  <2> QED BY <1>f, <1>p, <2>2, <2>3, <2>4, <2>10, <2>12, <2>13
\* ... and the status.
<1>6. ASSUME NEW c \in Coords, ReplayStatus(c) PROVE BoardInvariant'
  <2>1. PICK rec \in Record : rec = job[c].rec
    BY <1>6, JobReply DEF ReplayStatus, TypeOK
  <2>2. /\ pc[c] = "replayStatus" /\ MaterializeStatus(c) /\ job[c] \in Job
        /\ UNCHANGED <<state, journal, torn, checkpoint, job, todo, counter>>
        /\ Bound(c) /\ Landed(rec)
    BY <1>6, <1>h, <2>1 DEF ReplayStatus, TypeOK, Hand, Bound
  <2>3. pc'[c] = "replay" /\ \A d \in Coords \ {c} : pc'[d] = pc[d]
    BY <1>6, <1>o DEF ReplayStatus, Labels, Booting
  <2>4. PICK i \in DOMAIN journal : journal[i] = rec /\ Applied(i)
    BY <1>h, <2>1, <2>2 DEF Hand, ReplayedFinished, Bound, Applied
  <2>5. Finished(rec)' /\ (Finished(rec) => UNCHANGED status)
    BY <2>1, <2>2, HandFinished
  <2>6. ASSUME NEW k \in DOMAIN journal, Applied(k)
        PROVE  \/ UNCHANGED status
               \/ journal[k].rev <= rec.rev /\ Landed(journal[k])
    <3>1. SUFFICES ASSUME ~Finished(rec)
                   PROVE  journal[k].rev <= rec.rev /\ Landed(journal[k])
      BY <2>5
    <3>2. k <= i /\ journal[k].rev <= rec.rev
      BY <1>k, <2>4, <2>6, <3>1 DEF JournalOrdered
    <3>3. Finished(journal[k]) \/ i <= k
      BY <1>k, <2>4, <2>6 DEF JournalOrdered
    <3>4. Finished(journal[k]) \/ k = i
      <4>1. k \in Nat /\ i \in Nat
        BY LenProperties DEF TypeOK
      <4> QED BY <3>2, <3>3, <4>1
    <3> QED BY <2>2, <2>4, <3>2, <3>4 DEF Finished
  <2>7. \A k \in DOMAIN journal : Applied(k) =>
           /\ Finished(journal[k]) => Finished(journal[k])'
           /\ KeepsShown(journal[k])' /\ PutsNewRun(journal[k])'
    <3>1. SUFFICES ASSUME NEW k \in DOMAIN journal, Applied(k)
                   PROVE  /\ Finished(journal[k]) => Finished(journal[k])'
                          /\ KeepsShown(journal[k])' /\ PutsNewRun(journal[k])'
      OBVIOUS
    <3>2. PICK x \in Record : x = journal[k]
      BY <1>j
    <3>3. KeepsShown(x) /\ PutsNewRun(x)
      BY <1>k, <3>1, <3>2 DEF RecordsKept
    <3>4. UNCHANGED status \/ (x.rev <= rec.rev /\ Landed(x))
      BY <2>6, <3>1, <3>2
    <3>5. (Finished(x) => Finished(x)') /\ KeepsShown(x)' /\ PutsNewRun(x)' /\ x = journal'[k]
      BY <2>1, <2>2, <3>2, <3>3, <3>4, AfterStatus
    <3> QED BY <3>2, <3>5
  <2>8. \A k \in DOMAIN journal : Applied(k)' <=> Applied(k)
    BY <2>2 DEF Applied
  <2>9. FilesKept'
    <3>1. JournalOrdered'
      <4>1. \A v \in Views : Pending(v)' = Pending(v)
        BY <2>2 DEF Pending
      <4> QED BY <1>k, <2>2, <2>7, <2>8, <4>1 DEF JournalOrdered, Transient
    <3>2. RecordsKept'
      BY <2>2, <2>7, <2>8 DEF RecordsKept
    <3>3. StatusBehind'
      BY <2>1, <2>2, <1>k, StatusStaysBehind
    <3> QED BY <3>1, <3>2, <3>3 DEF FilesKept
  <2>10. ReplayedFinished(c)'
    <3>1. ~torn'
      BY <1>h, <2>2 DEF Hand, ReplayedFinished
    <3>2. Finished(journal[i])'
      <4>1. rec = journal'[i]
        BY <2>2, <2>4
      <4> QED BY <2>5, <4>1
    <3>3. ASSUME NEW k \in DOMAIN journal, Applied(k)
          PROVE  Finished(journal[k])' \/ \E j \in DOMAIN todo'[c] : todo'[c][j] = journal[k]
      <4>1. CASE Finished(journal[k])
        BY <2>7, <3>3, <4>1
      <4>2. CASE journal[k] = rec
        <5>1. rec = journal'[k]
          BY <2>2, <4>2
        <5> QED BY <2>5, <5>1
      <4>3. CASE ~Finished(journal[k]) /\ journal[k] # rec
        BY <1>h, <2>1, <2>2, <3>3, <4>3 DEF Hand, ReplayedFinished
      <4> QED BY <4>1, <4>2, <4>3
    <3> QED BY <2>2, <2>3, <2>8, <3>1, <3>3 DEF ReplayedFinished
  <2>11. Hand(c)'
    BY <2>3, <2>10 DEF Hand, Bound, InHand, ServedFinished
  <2> QED BY <1>f, <1>p, <1>q, <2>2, <2>3, <2>9, <2>11
<1>7. ASSUME NEW c \in Coords, FinishBoot(c) PROVE BoardInvariant'
  <2>1. /\ pc[c] = "replay" /\ todo[c] = <<>>
        /\ UNCHANGED <<state, status, journal, torn, checkpoint, job>>
    BY <1>7 DEF FinishBoot, disk
  <2>2. pc'[c] = "idle" /\ \A d \in Coords \ {c} : pc'[d] = pc[d]
    BY <1>7, <1>o DEF FinishBoot, Labels
  <2>3. /\ counter'[c] \in {counter[c]} \cup {state[v].rev : v \in Views}
        /\ \A d \in Coords \ {c} : counter'[d] = counter[d]
    BY <1>7 DEF FinishBoot, TypeOK
  <2>4. Seen(counter[c])'
    <3>1. CASE counter'[c] = counter[c]
      <4>1. PICK n \in Nat : n = counter[c] /\ Seen(n)'
        BY <1>c, <1>n
      <4> QED BY <3>1, <4>1 DEF Seen
    <3>2. CASE counter'[c] # counter[c]
      <4>1. PICK v \in Views : counter'[c] = state[v].rev
        BY <2>3, <3>2
      <4>2. state'[v].rev <= state'[v].rev
        BY <1>t DEF TypeOK, StateFile
      <4> QED BY <2>1, <4>1, <4>2 DEF Seen
    <3> QED BY <3>1, <3>2
  <2>5. ServedFinished(c)'
    <3>1. \A i \in DOMAIN journal : Applied(i) => Finished(journal[i])
      BY <1>h, <2>1 DEF Hand, ReplayedFinished
    <3>2. ~torn
      BY <1>h, <2>1 DEF Hand, ReplayedFinished
    <3> QED BY <2>1, <3>1, <3>2 DEF ServedFinished, Applied, Finished, Landed, KeptBy, DecidedRun
  <2>6. Hand(c)'
    BY <2>2, <2>5 DEF Hand, Bound, InHand, ReplayedFinished
  <2> QED BY <1>a, <1>f, <1>p, <2>1, <2>2, <2>3, <2>4, <2>6
<1>8. ASSUME NEW c \in Coords, NEW cmd \in Commands, Decide(c, cmd) PROVE BoardInvariant'
  <2>1. PICK rec \in Record : rec = Decided(c, cmd)
    BY DecidedType
  <2>2. /\ pc[c] = "idle" /\ job'[c].rec = rec
        /\ UNCHANGED <<state, status, journal, torn, checkpoint, counter>>
    BY <1>8, <2>1 DEF Decide, Receive, disk, TypeOK
  <2>3. /\ pc'[c] \in {"state", "append"} /\ \A d \in Coords \ {c} : pc'[d] = pc[d]
        /\ pc'[c] = "state" <=> Transient(cmd)
        /\ pc'[c] = "state" => Decision(cmd).action = "apply"
    BY <1>8, <1>o DEF Decide, Labels
  <2>4. TakesNewRun(cmd)
    <3>1. vars' # vars
      BY <2>2, <2>3 DEF vars, memory
    <3> QED BY <1>8, <3>1 DEF NewRunsOnly
  <2>5. rec = Decided(c, cmd)' /\ TakesNewRun(cmd)' /\ Decision(cmd)' = Decision(cmd)
    BY <2>1, <2>2, <2>4 DEF Decided, Decision, TakesNewRun
  <2>6. rec.cmd = cmd /\ (rec.status = "applied" => Decision(cmd).action = "apply")
    BY <2>1 DEF Decided
  <2>7. rec.status = "applied" => KeepsShown(rec) /\ PutsNewRun(rec)
    <3>1. state[cmd.view].rev <= counter[c]
      BY <1>h, <2>2, CommandFacts DEF Ahead, CounterLeads
    <3> QED BY <2>1, <2>4, <2>6, <3>1, DecidedFresh
  <2>8. rec.status = "applied" => KeepsShown(rec)' /\ PutsNewRun(rec)'
    BY <2>2, <2>7 DEF KeepsShown, PutsNewRun, Unbound, DecidedRun, Landed, KeptBy
  <2>9. InHand(c)'
    BY <2>2, <2>3, <2>5, <2>6, <2>8 DEF InHand, Transient
  <2>10. ServedFinished(c)'
    BY <1>h, <2>2 DEF Hand, ServedFinished, Applied, Finished, Landed, KeptBy, DecidedRun
  <2>11. Hand(c)'
    BY <2>3, <2>9, <2>10 DEF Hand, Bound, ReplayedFinished
  <2> QED BY <1>a, <1>f, <1>p, <1>q, <2>2, <2>3, <2>11
<1>9. ASSUME NEW c \in Coords, AppendRecord(c) PROVE BoardInvariant'
  <2>1. PICK rec \in Record : rec = job[c].rec
    BY <1>9, JobReply DEF AppendRecord, TypeOK
  <2>2. /\ pc[c] = "append" /\ job'[c].rec = rec /\ ~torn
        /\ UNCHANGED <<state, status, checkpoint, counter>>
        /\ torn' = FALSE /\ journal' = Append(journal, rec)
    BY <1>9, <1>h, <2>1 DEF AppendRecord, TypeOK, Job, Hand, ServedFinished
  <2>3. /\ \A d \in Coords \ {c} : pc'[d] = pc[d]
        /\ IF rec.status = "applied" THEN pc'[c] = "state" ELSE pc'[c] = "checkpoint"
    BY <1>9, <1>o, <2>1 DEF AppendRecord, Labels
  <2>4. /\ ~Transient(rec.cmd)
        /\ rec.status = "applied" => rec.rev = counter[c] + 1 /\ KeepsShown(rec) /\ PutsNewRun(rec)
    BY <1>h, <2>1, <2>2 DEF Hand, InHand, Ahead, JobInHand
  <2>5. \A i \in DOMAIN journal : Applied(i) => Finished(journal[i])
    BY <1>h, <2>2 DEF Hand, ServedFinished
  <2>6. \A i \in DOMAIN journal : Applied(i) /\ rec.status = "applied" => journal[i].rev <= rec.rev
    <3>1. SUFFICES ASSUME NEW i \in DOMAIN journal, Applied(i), rec.status = "applied"
                   PROVE  journal[i].rev <= rec.rev
      OBVIOUS
    <3>2. PICK x \in Record : x = journal[i]
      BY <1>j
    <3>3. x.rev <= state[x.cmd.view].rev /\ x.rev \in Nat /\ x.cmd.view \in Views
      BY <2>5, <3>1, <3>2, RecordFacts DEF Finished, Landed
    <3>4. state[x.cmd.view].rev <= counter[c] /\ state[x.cmd.view].rev \in Nat
      BY <1>h, <2>2, <3>3 DEF Ahead, CounterLeads, TypeOK, StateFile
    <3>5. x.rev <= rec.rev
      BY <1>c, <2>4, <3>1, <3>3, <3>4
    <3> QED BY <3>2, <3>5
  <2>7. /\ JournalOrdered'
        /\ \E n \in DOMAIN journal' :
              /\ journal'[n] = rec
              /\ \A i \in DOMAIN journal' :
                    i <= n /\ (i = n \/ (i \in DOMAIN journal /\ journal'[i] = journal[i]))
    BY <1>k, <2>2, <2>4, <2>5, <2>6, JournalGrows
  <2>8. PICK n \in DOMAIN journal' :
           /\ journal'[n] = rec
           /\ \A i \in DOMAIN journal' :
                 i <= n /\ (i = n \/ (i \in DOMAIN journal /\ journal'[i] = journal[i]))
    BY <2>7
  <2>9. \A x : /\ Finished(x)' <=> Finished(x)
               /\ KeepsShown(x)' <=> KeepsShown(x)
               /\ PutsNewRun(x)' <=> PutsNewRun(x)
    BY <2>2 DEF Finished, Landed, KeptBy, DecidedRun, KeepsShown, Unbound, PutsNewRun
  <2>10. ASSUME NEW i \in DOMAIN journal', Applied(i)'
         PROVE  /\ KeepsShown(journal[i])' /\ PutsNewRun(journal[i])'
                /\ Finished(journal[i])' \/ (journal'[i] = rec /\ rec.status = "applied")
                /\ rec.status = "applied" => journal'[i].rev <= rec.rev
    <3>1. CASE i = n
      <4>1. journal'[i] = rec /\ rec.status = "applied" /\ rec.rev \in Nat
        BY <2>8, <2>10, <3>1, RecordFacts DEF Applied
      <4>2. KeepsShown(rec)' /\ PutsNewRun(rec)' /\ rec.rev <= rec.rev
        BY <2>4, <2>9, <4>1
      <4> QED BY <4>1, <4>2
    <3>2. CASE i # n
      <4>1. PICK x \in Record : x = journal[i] /\ x = journal'[i] /\ i \in DOMAIN journal
        BY <1>j, <2>8, <3>2
      <4>2. Applied(i)
        BY <2>10, <4>1 DEF Applied
      <4>3. Finished(x) /\ KeepsShown(x) /\ PutsNewRun(x)
        BY <1>k, <2>5, <4>1, <4>2 DEF RecordsKept
      <4>4. Finished(x)' /\ KeepsShown(x)' /\ PutsNewRun(x)'
        BY <2>9, <4>3
      <4>5. rec.status = "applied" => x.rev <= rec.rev
        BY <2>6, <4>1, <4>2
      <4> QED BY <4>1, <4>4, <4>5
    <3> QED BY <3>1, <3>2
  <2>11. FilesKept'
    <3>1. RecordsKept'
      BY <2>10 DEF RecordsKept
    <3>2. StatusBehind'
      BY <1>k, <2>2 DEF StatusBehind
    <3> QED BY <2>7, <3>1, <3>2 DEF FilesKept
  <2>12. InHand(c)'
    <3>1. CASE rec.status = "applied"
      <4>1. KeepsShown(rec)' /\ PutsNewRun(rec)' /\ ~Transient(rec.cmd)'
        BY <2>4, <2>9, <3>1 DEF Transient
      <4>2. \E i \in DOMAIN journal' : journal'[i] = rec /\
                \A j \in DOMAIN journal' : Applied(j)' => j <= i /\ journal'[j].rev <= rec.rev
        BY <2>8, <2>10, <3>1
      <4> QED BY <2>2, <2>3, <3>1, <4>1, <4>2 DEF InHand, Transient
    <3>2. CASE rec.status # "applied"
      BY <2>3, <3>2 DEF InHand
    <3> QED BY <3>1, <3>2
  <2>13. ServedFinished(c)'
    BY <2>2, <2>3, <2>10 DEF ServedFinished
  <2>14. Hand(c)'
    BY <2>3, <2>12, <2>13 DEF Hand, Bound, ReplayedFinished
  <2> QED BY <1>f, <1>p, <1>q, <2>2, <2>3, <2>11, <2>14
\* Materialization: the row ...
<1>10. ASSUME NEW c \in Coords, WriteState(c) PROVE BoardInvariant'
  <2>1. PICK rec \in Record, bytes \in Nat : rec = job[c].rec /\ bytes = job[c].bytes
    BY <1>10, JobReply DEF WriteState, TypeOK, Job
  <2>2. /\ pc[c] = "state" /\ MaterializeState(c, rec, bytes)
        /\ UNCHANGED <<status, journal, torn, checkpoint, counter>>
    BY <1>10, <2>1 DEF WriteState
  <2>3. pc'[c] = "status" /\ \A d \in Coords \ {c} : pc'[d] = pc[d]
    BY <1>10, <1>o DEF WriteState, Labels
  <2>4. rec.status = "applied" /\ rec.rev = counter[c] + 1
    BY <1>h, <2>1, <2>2 DEF Ahead, JobInHand
  <2>5. KeepsShown(rec) /\ PutsNewRun(rec)
    BY <1>h, <2>1, <2>2, <2>4 DEF Hand, InHand
  <2>6. \A x \in Record :
           /\ Finished(x) => Finished(x)'
           /\ (x.cmd.view = rec.cmd.view /\ ~Landed(rec) => x.rev <= rec.rev) =>
                 /\ KeepsShown(x) => KeepsShown(x)'
                 /\ PutsNewRun(x) => PutsNewRun(x)'
    BY <2>2, <2>5, AfterState
  <2>7. Bound(c)' /\ job'[c].rec = rec
    BY <2>2, <2>4, <2>5, BoundAfter, StateWritten
  <2>8. \A k \in DOMAIN journal : Applied(k)' <=> Applied(k)
    BY <2>2 DEF Applied
  <2>9. ASSUME NEW k \in DOMAIN journal PROVE journal[k].rev <= rec.rev
    <3>1. PICK x \in Record : x = journal[k]
      BY <1>j
    <3>2. Landed(x) \/ x = rec
      BY <1>h, <2>1, <2>2, <3>1 DEF Ahead, ServedJournal
    <3>3. x.rev \in Nat /\ rec.rev \in Nat /\ x.cmd.view \in Views
      BY RecordFacts
    <3>4. state[x.cmd.view].rev <= counter[c] /\ state[x.cmd.view].rev \in Nat
      BY <1>h, <2>2, <3>3 DEF Ahead, CounterLeads, TypeOK, StateFile
    <3>5. x.rev <= rec.rev
      BY <1>c, <2>4, <3>2, <3>3, <3>4 DEF Landed
    <3> QED BY <3>1, <3>5
  <2>10. FilesKept'
    <3>1. \A k \in DOMAIN journal : Finished(journal[k]) => Finished(journal[k])'
      <4>1. SUFFICES ASSUME NEW k \in DOMAIN journal, Finished(journal[k])
                     PROVE  Finished(journal[k])'
        OBVIOUS
      <4>2. PICK x \in Record : x = journal[k]
        BY <1>j
      <4>3. Finished(x)' /\ x = journal'[k]
        BY <2>2, <2>6, <4>1, <4>2
      <4> QED BY <4>3
    <3>2. JournalOrdered'
      BY <1>k, <2>2, <3>1, JournalStays
    <3>3. RecordsKept'
      <4>1. SUFFICES ASSUME NEW k \in DOMAIN journal, Applied(k)
                     PROVE  KeepsShown(journal[k])' /\ PutsNewRun(journal[k])'
        BY <2>2, <2>8 DEF RecordsKept
      <4>2. PICK x \in Record : x = journal[k]
        BY <1>j
      <4>3. KeepsShown(x) /\ PutsNewRun(x)
        BY <1>k, <4>1, <4>2 DEF RecordsKept
      <4>4. x.rev <= rec.rev
        BY <2>9, <4>2
      <4>5. KeepsShown(x)' /\ PutsNewRun(x)' /\ x = journal'[k]
        BY <2>2, <2>6, <4>2, <4>3, <4>4
      <4> QED BY <4>5
    <3>4. StatusBehind'
      BY <1>k, <1>t, <2>2, RowsLead
    <3> QED BY <3>2, <3>3, <3>4 DEF FilesKept
  <2>11. ServedFinished(c)'
    <3>1. ASSUME NEW k \in DOMAIN journal, Applied(k)
          PROVE  Finished(journal[k])' \/ journal[k] = rec
      <4>1. PICK x \in Record : x = journal[k]
        BY <1>j
      <4>2. Finished(x) \/ x = rec
        BY <1>h, <2>1, <2>2, <3>1, <4>1 DEF Hand, ServedFinished
      <4>3. CASE Finished(x)
        <5>1. Finished(x)' /\ x = journal'[k]
          BY <2>2, <2>6, <4>1, <4>3
        <5> QED BY <5>1
      <4> QED BY <4>1, <4>2, <4>3
    <3>2. ~torn'
      BY <1>h, <2>2 DEF Hand, ServedFinished
    <3> QED BY <2>2, <2>3, <2>7, <2>8, <3>1, <3>2 DEF ServedFinished
  <2>12. InHand(c)'
    <3>1. CASE Transient(rec.cmd)
      <4>1. rec = Decided(c, rec.cmd) /\ Decision(rec.cmd).action = "apply"
        BY <1>h, <2>1, <2>2, <3>1 DEF Hand, InHand
      <4> DEFINE cmd == rec.cmd
                 file == state[cmd.view]
      <4>2. cmd \in Commands /\ cmd.view \in Views /\ rec.rev \in Nat
        BY RecordFacts
      <4>3. /\ cmd.run \in Runs /\ file.row.run = cmd.run
            /\ MergeRow(file.row, Decision(cmd).row).run = cmd.run
            /\ Decision(cmd).status = DiffStatus(status[cmd.view][cmd.run].st, cmd.payload.status)
        BY <3>1, <4>1, <4>2, BeatDecided
      <4>4. rec.row = Decision(cmd).row /\ rec.patch = Decision(cmd).status
        BY <4>1 DEF Decided
      <4>5. file.rev <= counter[c] /\ file.rev \in Nat
        BY <1>h, <2>2, <4>2 DEF Ahead, CounterLeads, TypeOK, StateFile
      <4>6. state'[cmd.view] = StampState(file, rec.row, rec.rev)
        BY <2>2, <4>2, StateWritten
      <4>7. state'[cmd.view] = [row |-> MergeRow(file.row, rec.row), rev |-> rec.rev]
        BY <1>c, <2>4, <4>2, <4>5, <4>6 DEF StampState
      <4>8. /\ rec.rev = state'[rec.cmd.view].rev /\ rec.cmd.run \in Runs
            /\ state'[rec.cmd.view].row.run = rec.cmd.run
            /\ rec.patch = DiffStatus(status'[rec.cmd.view][rec.cmd.run].st, rec.cmd.payload.status)
        BY <2>2, <4>3, <4>4, <4>7
      <4> QED BY <2>3, <2>7, <3>1, <4>8 DEF InHand, Transient
    <3>2. CASE ~Transient(rec.cmd)
      <4>1. PICK i \in DOMAIN journal :
               journal[i] = rec /\ \A j \in DOMAIN journal :
                                         Applied(j) => j <= i /\ journal[j].rev <= rec.rev
        BY <1>h, <2>1, <2>2, <3>2 DEF Hand, InHand
      <4> QED BY <2>2, <2>3, <2>7, <2>8, <3>2, <4>1 DEF InHand, Transient
    <3> QED BY <3>1, <3>2
  <2>13. Hand(c)'
    BY <2>3, <2>7, <2>11, <2>12 DEF Hand, ReplayedFinished
  <2> QED BY <1>f, <1>p, <1>q, <2>2, <2>3, <2>10, <2>13
\* ... and the status.
<1>11. ASSUME NEW c \in Coords, WriteStatus(c) PROVE BoardInvariant'
  <2>1. PICK rec \in Record : rec = job[c].rec
    BY <1>11, JobReply DEF WriteStatus, TypeOK
  <2>2. /\ pc[c] = "status" /\ MaterializeStatus(c) /\ job[c] \in Job
        /\ UNCHANGED <<state, journal, torn, checkpoint, job>>
        /\ counter'[c] = rec.rev /\ \A d \in Coords \ {c} : counter'[d] = counter[d]
        /\ Bound(c) /\ Landed(rec) /\ rec.rev = counter[c] + 1
    BY <1>11, <1>h, <2>1 DEF WriteStatus, TypeOK, Hand, Bound, Ahead, JobInHand
  <2>3. pc'[c] \in {"reply", "checkpoint"} /\ \A d \in Coords \ {c} : pc'[d] = pc[d]
    BY <1>11, <1>o, <2>1 DEF WriteStatus, Labels
  <2>4. Finished(rec)'
    BY <2>1, <2>2, HandFinished
  <2>5. \A k \in DOMAIN journal :
           /\ Finished(journal[k]) => Finished(journal[k])'
           /\ KeepsShown(journal[k]) => KeepsShown(journal[k])'
           /\ PutsNewRun(journal[k]) => PutsNewRun(journal[k])'
    <3>1. SUFFICES ASSUME NEW k \in DOMAIN journal
                   PROVE  /\ Finished(journal[k]) => Finished(journal[k])'
                          /\ KeepsShown(journal[k]) => KeepsShown(journal[k])'
                          /\ PutsNewRun(journal[k]) => PutsNewRun(journal[k])'
      OBVIOUS
    <3>2. PICK x \in Record : x = journal[k]
      BY <1>j
    <3>3. Landed(x) /\ x.rev \in Nat /\ x.cmd.view \in Views /\ rec.rev \in Nat
      BY <1>h, <2>2, <3>2, RecordFacts DEF Ahead, ServedJournal
    <3>4. state[x.cmd.view].rev <= counter[c] + 1 /\ state[x.cmd.view].rev \in Nat
      BY <1>h, <2>2, <3>3 DEF Ahead, CounterLeads, TypeOK, StateFile
    <3>5. x.rev <= rec.rev
      BY <1>c, <2>2, <3>3, <3>4 DEF Landed
    <3>6. /\ (Finished(x) => Finished(x)') /\ (KeepsShown(x) => KeepsShown(x)')
          /\ (PutsNewRun(x) => PutsNewRun(x)') /\ x = journal'[k]
      BY <2>1, <2>2, <3>2, <3>3, <3>5, AfterStatus
    <3> QED BY <3>2, <3>6
  <2>6. \A k \in DOMAIN journal : Applied(k)' <=> Applied(k)
    BY <2>2 DEF Applied
  <2>7. FilesKept'
    <3>1. JournalOrdered'
      BY <1>k, <2>2, <2>5, JournalStays
    <3>2. RecordsKept'
      BY <1>k, <2>2, <2>5, <2>6 DEF RecordsKept
    <3>3. StatusBehind'
      BY <1>k, <2>1, <2>2, StatusStaysBehind
    <3> QED BY <3>1, <3>2, <3>3 DEF FilesKept
  <2>8. ServedFinished(c)'
    <3>1. ASSUME NEW k \in DOMAIN journal, Applied(k) PROVE Finished(journal[k])'
      <4>1. CASE Finished(journal[k])
        BY <2>5, <4>1
      <4>2. CASE journal[k] = rec
        <5>1. rec = journal'[k]
          BY <2>2, <4>2
        <5> QED BY <2>4, <5>1
      <4> QED BY <1>h, <2>1, <2>2, <3>1, <4>1, <4>2 DEF Hand, ServedFinished
    <3>2. ~torn'
      BY <1>h, <2>2 DEF Hand, ServedFinished
    <3> QED BY <2>2, <2>6, <3>1, <3>2 DEF ServedFinished
  <2>9. Hand(c)'
    BY <2>3, <2>8 DEF Hand, Bound, InHand, ReplayedFinished
  <2>10. Seen(counter[c])'
    <3>1. Seen(rec.rev)'
      BY <1>l, <1>n, <2>2
    <3> QED BY <2>2, <3>1 DEF Seen
  <2> QED BY <1>f, <1>p, <2>2, <2>3, <2>7, <2>9, <2>10
<1>12. ASSUME NEW c \in Coords,
              SkipCheckpoint(c) \/ WriteCheckpoint(c) \/ CollectNothing(c) \/ Answer(c)
       PROVE  BoardInvariant'
  <2>1. /\ pc[c] \in {"checkpoint", "gc", "reply"} /\ pc'[c] \in {"idle", "gc", "reply"}
        /\ \A d \in Coords \ {c} : pc'[d] = pc[d]
    BY <1>12, <1>o DEF SkipCheckpoint, WriteCheckpoint, CollectNothing, Answer, Labels
  <2>2. UNCHANGED <<state, status, journal, torn, job, counter>>
    BY <1>12 DEF SkipCheckpoint, WriteCheckpoint, CollectNothing, Answer, disk, net
  <2>3. checkpoint'.rev \in {checkpoint.rev, counter[c]}
    BY <1>12 DEF SkipCheckpoint, WriteCheckpoint, CollectNothing, Answer, disk, net
  <2>4. Seen(checkpoint.rev)'
    <3>1. PICK n \in Nat : n = checkpoint'.rev /\ Seen(n)'
      BY <1>c, <1>n, <2>3
    <3> QED BY <3>1 DEF Seen
  <2>5. ServedFinished(c)'
    BY <1>h, <2>1, <2>2
    DEF Hand, ServedFinished, Applied, Finished, Landed, KeptBy, DecidedRun
  <2>6. Hand(c)'
    BY <2>1, <2>5 DEF Hand, Bound, InHand, ReplayedFinished
  <2> QED BY <1>a, <1>f, <1>q, <2>1, <2>2, <2>4, <2>6
<1>13. ASSUME NEW c \in Coords, CollectGarbage(c) PROVE BoardInvariant'
  <2>1. /\ pc[c] = "gc" /\ UNCHANGED <<state, status, torn, checkpoint, job, counter>>
    BY <1>13 DEF CollectGarbage
  <2>2. pc'[c] = "reply" /\ \A d \in Coords \ {c} : pc'[d] = pc[d]
    BY <1>13, <1>o DEF CollectGarbage, Labels
  <2>3. ~torn /\ \A i \in DOMAIN journal : Applied(i) => Finished(journal[i])
    BY <1>h, <2>1 DEF Hand, ServedFinished
  <2>4. /\ JournalOrdered'
        /\ \A i \in DOMAIN journal' : \E j \in DOMAIN journal : journal'[i] = journal[j]
    BY <1>13, <1>k, <2>3, JournalShrinks
  <2>5. \A x : /\ Finished(x)' <=> Finished(x)
               /\ KeepsShown(x)' <=> KeepsShown(x)
               /\ PutsNewRun(x)' <=> PutsNewRun(x)
    BY <2>1 DEF Finished, Landed, KeptBy, DecidedRun, KeepsShown, Unbound, PutsNewRun
  <2>6. ASSUME NEW i \in DOMAIN journal', Applied(i)'
        PROVE  Finished(journal[i])' /\ KeepsShown(journal[i])' /\ PutsNewRun(journal[i])'
    <3>1. PICK j \in DOMAIN journal : journal'[i] = journal[j]
      BY <2>4
    <3>2. PICK x \in Record : x = journal[j] /\ x = journal'[i]
      BY <1>j, <3>1
    <3>3. Finished(x) /\ KeepsShown(x) /\ PutsNewRun(x)
      BY <1>k, <2>3, <2>6, <3>1, <3>2 DEF Applied, RecordsKept
    <3>4. Finished(x)' /\ KeepsShown(x)' /\ PutsNewRun(x)'
      BY <2>5, <3>3
    <3> QED BY <3>2, <3>4
  <2>7. FilesKept'
    BY <1>k, <2>1, <2>4, <2>6 DEF FilesKept, RecordsKept, StatusBehind
  <2>8. ServedFinished(c)'
    BY <2>1, <2>2, <2>3, <2>6 DEF ServedFinished
  <2>9. Hand(c)'
    BY <2>2, <2>8 DEF Hand, Bound, InHand, ReplayedFinished
  <2> QED BY <1>f, <1>p, <1>q, <2>1, <2>2, <2>7, <2>9
<1>14. ASSUME NEW c \in Coords, pc[c] # "down", Vanish(c) PROVE BoardInvariant'
  <2>1. pc'[c] = "down" /\ \A d \in Coords \ {c} : pc'[d] = pc[d]
    BY <1>14, <1>o DEF Vanish, Labels
  <2>2. /\ UNCHANGED <<state, status, journal, checkpoint>>
        /\ counter'[c] = 0 /\ \A d \in Coords \ {c} : counter'[d] = counter[d]
    BY <1>14 DEF Vanish, TypeOK
  <2>3. Hand(c)' /\ Seen(counter[c])'
    BY <1>d, <2>1, <2>2 DEF Seen
  <2> QED BY <1>14, <1>a, <1>f, <1>p, <2>1, <2>2, <2>3
<1>15. ASSUME NEW c \in Coords, Crash(c) \/ Shutdown(c) PROVE BoardInvariant'
  BY <1>14, <1>15 DEF Crash, Shutdown
<1>16. ASSUME \/ UNCHANGED vars
              \/ \E cmd \in Commands : Send(cmd)
              \/ \E c \in Coords, cmd \in Commands : AnswerDuplicate(c, cmd) \/ RejectBeat(c, cmd)
       PROVE  BoardInvariant'
  BY <1>1, <1>16 DEF Send, AnswerDuplicate, RejectBeat, vars, disk, memory
<1> QED
  BY <1>2, <1>3, <1>4, <1>5, <1>6, <1>7, <1>8, <1>9, <1>10, <1>11, <1>12, <1>13, <1>15, <1>16
  DEF Next, Boot, Serve

\* Initially nothing is journaled and nobody runs.
LEMMA InitBoard == Init => BoardInvariant
<1> SUFFICES ASSUME Init PROVE BoardInvariant
  OBVIOUS
<1>1. /\ \A v \in Views : state[v] = NewState
      /\ \A v \in Views, r \in Runs : status[v][r] = NoStatus
      /\ DOMAIN journal = {} /\ checkpoint.rev = 0
      /\ \A c \in Coords : pc[c] = "down" /\ counter[c] = 0
  BY DEF Init
<1>2. JournalOrdered /\ RecordsKept
  BY <1>1 DEF JournalOrdered, RecordsKept, Pending
<1>3. StatusBehind
  BY <1>1 DEF StatusBehind, NewState, NoStatus
<1>4. CountersSeen
  BY <1>1 DEF CountersSeen, Seen
<1>5. ASSUME NEW c \in Coords PROVE Hand(c)
  BY <1>1 DEF Hand, Bound, InHand, ServedFinished, ReplayedFinished, Serving
<1> QED BY <1>2, <1>3, <1>4, <1>5 DEF BoardInvariant, FilesKept

\* What a half-written record can do to the files, as long as no live holder is
\* overtaken, the disk replaces files, and clients put only new runs on a row.
THEOREM BoardInvariantHolds ==
    ASSUME ~StaleReclaim, ~DiskFails
    PROVE  Spec /\ RunsComeNew => []BoardInvariant
<1>1. Init => TypeOK /\ RevisionInvariant /\ BoardInvariant
  BY InitTyped, InitRevisions, InitBoard
<1>2. TypeOK /\ RevisionInvariant /\ BoardInvariant /\ [Next]_vars /\ [NewRunsOnly]_vars
         => (TypeOK /\ RevisionInvariant /\ BoardInvariant)'
  BY TypeStep, RevisionStep, BoardStep
<1> QED BY <1>1, <1>2, PTL DEF Spec, RunsComeNew

----------------------------------------------------------------------------
(* Every step of the coordinator is a step of the abstract board, or none. *)

\* The abstract board decides and stamps with the same functions.
LEMMA BoardDecide ==
    ASSUME NEW cmd, NEW row, NEW rev, NEW st
    PROVE  Board!DecideStateTransition(cmd, row, rev, st) = DecideStateTransition(cmd, row, rev, st)
  BY SMT
  DEF Board!TransientKinds, Board!StatusBootstrapKinds, Board!PatchableFields,
      Board!KeepRow, Board!KeepStatus, Board!Changed, Board!DiffRow, Board!DiffStatus,
      Board!IsManualVerdict, Board!SemanticStateForAutoKind, Board!AcceptsAutoState,
      Board!ApplyAutoStateToViewState, Board!ApplyAutoStateToStatus,
      Board!FinalizeSemanticState, Board!FinalizeRun, Board!ProjectViewState,
      Board!Reject, Board!Apply, Board!ClearAutoState, Board!Verdict, Board!StatusRun,
      Board!DecideMarkCompleted, Board!DecideMarkHolding, Board!DecideClearHolding,
      Board!DecideAutoState, Board!DecideRunFinalized, Board!DecideMarkQueued,
      Board!DecideRunStarted, Board!DecideRunProgress, Board!DecideFollowupStarted,
      Board!DecideReconcileFinalize, Board!DecideHostRunFailed, Board!DecideArchiveView,
      Board!DecideAdoptSession, Board!DecideSyncForeground, Board!DecidePlanReady,
      Board!DecidePatchFields, Board!DecideKind, Board!StaleRun, Board!FencedByVerdict,
      Board!DecideStateTransition, TransientKinds, StatusBootstrapKinds, PatchableFields,
      KeepRow, KeepStatus, Changed, DiffRow, DiffStatus, IsManualVerdict,
      SemanticStateForAutoKind, AcceptsAutoState, ApplyAutoStateToViewState,
      ApplyAutoStateToStatus, FinalizeSemanticState, FinalizeRun, ProjectViewState,
      Reject, Apply, ClearAutoState, Verdict, StatusRun, DecideMarkCompleted,
      DecideMarkHolding, DecideClearHolding, DecideAutoState, DecideRunFinalized,
      DecideMarkQueued, DecideRunStarted, DecideRunProgress, DecideFollowupStarted,
      DecideReconcileFinalize, DecideHostRunFailed, DecideArchiveView, DecideAdoptSession,
      DecideSyncForeground, DecidePlanReady, DecidePatchFields, DecideKind, StaleRun,
      FencedByVerdict, DecideStateTransition

\* ... and names everything else alike.
LEMMA BoardStamps ==
    /\ \A file, patch, rev : Board!StampState(file, patch, rev) = StampState(file, patch, rev)
    /\ \A file, kind, patch, rev :
          Board!StampStatus(file, kind, patch, rev) = StampStatus(file, kind, patch, rev)
    /\ \A files, run : Board!StatusOf(files, run) = StatusOf(files, run)
    /\ \A cmd, row : Board!StatusRun(cmd, row) = StatusRun(cmd, row)
    /\ \A cmd, run, row : Board!BoundRun(cmd, run, row) = BoundRun(cmd, run, row)
    /\ \A before, after : Board!DiffStatus(before, after) = DiffStatus(before, after)
    /\ Board!NewState = NewState /\ Board!NoStatus = NoStatus
    /\ Board!TransientKinds = TransientKinds
<1>1. \A row, patch : Board!MergeRow(row, patch) = MergeRow(row, patch)
  BY DEF Board!MergeRow, MergeRow, Board!Patched, Patched
<1>2. \A st, patch : Board!MergeStatus(st, patch) = MergeStatus(st, patch)
  BY DEF Board!MergeStatus, MergeStatus, Board!Patched, Patched
<1>3. Board!BlankStatus = BlankStatus /\ Board!StatusBootstrapKinds = StatusBootstrapKinds
  BY DEF Board!BlankStatus, BlankStatus, Board!StatusBootstrapKinds, StatusBootstrapKinds
<1>4. \A file, patch, rev : Board!StampState(file, patch, rev) = StampState(file, patch, rev)
  BY <1>1 DEF Board!StampState, StampState
<1>5. \A file, kind, patch, rev :
         Board!StampStatus(file, kind, patch, rev) = StampStatus(file, kind, patch, rev)
  BY <1>2, <1>3 DEF Board!StampStatus, StampStatus
<1>6. /\ \A files, run : Board!StatusOf(files, run) = StatusOf(files, run)
      /\ \A cmd, row : Board!StatusRun(cmd, row) = StatusRun(cmd, row)
      /\ \A cmd, run, row : Board!BoundRun(cmd, run, row) = BoundRun(cmd, run, row)
  BY DEF Board!StatusOf, StatusOf, Board!StatusRun, StatusRun, Board!BoundRun, BoundRun
<1>7. \A before, after : Board!DiffStatus(before, after) = DiffStatus(before, after)
  BY DEF Board!DiffStatus, DiffStatus, Board!Changed, Changed
<1>8. /\ Board!NewState = NewState /\ Board!NoStatus = NoStatus
      /\ Board!TransientKinds = TransientKinds
  BY DEF Board!NewState, NewState, Board!NewRow, NewRow, Board!NoStatus, NoStatus,
         Board!TransientKinds, TransientKinds
<1> QED BY <1>4, <1>5, <1>6, <1>7, <1>8

\* The same for the statuses of a view.
LEMMA BoardStampRuns ==
    ASSUME NEW files, NEW run, NEW kind, NEW patch, NEW rev
    PROVE  Board!StampRuns(files, run, kind, patch, rev) = StampRuns(files, run, kind, patch, rev)
BY BoardStamps DEF Board!StampRuns, StampRuns

\* Stamping a run's status that would be left alone leaves all of them alone.
LEMMA KeptRuns ==
    ASSUME NEW files \in [Runs -> StatusFile], NEW run \in RunRef, NEW kind, NEW patch,
           NEW n \in Nat, run = None \/ Kept(files[run], kind, patch, n)
    PROVE  StampRuns(files, run, kind, patch, n) = files
<1>1. CASE run = None
  BY <1>1 DEF StampRuns
<1>2. CASE run # None
  <2>1. run \in Runs /\ files[run] \in StatusFile
    BY <1>2 DEF RunRef
  <2>2. StampStatus(files[run], kind, patch, n) = files[run]
    BY <1>2, <2>1, KeptStamp
  <2>3. StampRuns(files, run, kind, patch, n) =
           [files EXCEPT ![run] = StampStatus(files[run], kind, patch, n)]
    BY <1>2, <2>1 DEF StampRuns
  <2> QED BY <2>1, <2>2, <2>3
<1> QED BY <1>1, <1>2

LastIsShown ==
    \A v \in Views : \A i \in Pending(v) :
        (\A j \in Pending(v) : j <= i) => LastOf(v) = journal[i]

\* The record a view is shown with is its last applied one.
LEMMA LastRecord == TypeOK => LastIsShown
<1> SUFFICES ASSUME TypeOK, NEW v \in Views, NEW i \in Pending(v), \A j \in Pending(v) : j <= i
             PROVE  LastOf(v) = journal[i]
  BY DEF LastIsShown
<1>1. Pending(v) \subseteq Nat
  BY LenProperties DEF TypeOK, Pending
<1>2. \A k \in Pending(v) : (\A j \in Pending(v) : j <= k) => k = i
  BY <1>1
<1>3. (CHOOSE k \in Pending(v) : \A j \in Pending(v) : j <= k) = i
  BY <1>2
<1> QED BY <1>3 DEF LastOf

FinishedIsActual ==
    \A v \in Views :
        (\A i \in Pending(v) : Finished(journal[i])) =>
           ShownRow(v) = state[v] /\ ShownRuns(v) = status[v]

\* When its records are finished a view is shown as the files have it.
LEMMA ShownActual == TypeOK /\ JournalOrdered => FinishedIsActual
<1> SUFFICES ASSUME TypeOK, JournalOrdered, NEW v \in Views,
                    \A i \in Pending(v) : Finished(journal[i])
             PROVE  ShownRow(v) = state[v] /\ ShownRuns(v) = status[v]
  BY DEF FinishedIsActual
<1>1. CASE Pending(v) = {}
  BY <1>1 DEF ShownRow, ShownRuns
<1>2. CASE Pending(v) # {}
  <2>1. PICK i \in Pending(v) : \A j \in Pending(v) : j <= i
    BY <1>2 DEF JournalOrdered
  <2>2. PICK rec \in Record : rec = journal[i] /\ rec = LastOf(v)
    <3>1. LastOf(v) = journal[i]
      BY <2>1, LastRecord DEF LastIsShown
    <3>2. journal[i] \in Record
      BY <2>1 DEF TypeOK, Pending
    <3> QED BY <3>1, <3>2
  <2>3. Finished(rec) /\ rec.cmd.view = v
    BY <2>1, <2>2 DEF Pending
  <2>4. rec.rev \in Nat /\ DecidedRun(rec) \in RunRef
    BY RecordFacts, DecidedRunType
  <2>5. state[v].rev \in Nat /\ status[v] \in [Runs -> StatusFile]
    BY DEF TypeOK, StateFile
  <2>6. StampState(state[v], rec.row, rec.rev) = state[v]
    BY <2>3, <2>4, <2>5 DEF Finished, Landed, StampState
  <2>7. StampRuns(status[v], DecidedRun(rec), rec.cmd.kind, rec.patch, rec.rev) = status[v]
    BY <2>3, <2>4, <2>5, KeptRuns DEF Finished, KeptBy
  <2> QED BY <1>2, <2>2, <2>6, <2>7 DEF ShownRow, ShownRuns
<1> QED BY <1>1, <1>2

BoardShown ==
    \A v \in Views : ShownRow(v)' = ShownRow(v) /\ ShownRuns(v)' = ShownRuns(v)

\* A board that shows the same has taken no step.
LEMMA BoardStutters ==
    ASSUME BoardShown
    PROVE  UNCHANGED Board!vars
BY DEF BoardShown, Board!vars

\* Files and journal that stay show the same.
LEMMA ShownStays ==
    ASSUME UNCHANGED <<state, status, journal>>
    PROVE  BoardShown
BY DEF BoardShown, ShownRow, ShownRuns, Pending, LastOf, DecidedRun

\* Writing the row of a journaled record is not seen: the row was shown with it.
LEMMA RowHalfUnseen ==
    ASSUME TypeOK, TypeOK', NEW c \in Coords, NEW rec \in Record, NEW bytes \in Nat,
           MaterializeState(c, rec, bytes), UNCHANGED <<status, journal>>,
           NEW i \in DOMAIN journal, journal[i] = rec, Applied(i),
           Landed(rec) \/ \A j \in DOMAIN journal : Applied(j) => j <= i
    PROVE  BoardShown
<1>1. CASE Landed(rec)
  <2>1. state' = state
    BY <1>1, StampMoves
  <2> QED BY <2>1, ShownStays
<1>2. CASE ~Landed(rec)
  <2> DEFINE w == rec.cmd.view
  <2>1. w \in Views /\ rec.rev \in Nat /\ state[w].rev \in Nat
    BY RecordFacts DEF TypeOK, StateFile
  <2>2. /\ state'[w] = StampState(state[w], rec.row, rec.rev)
        /\ \A v \in Views \ {w} : state'[v] = state[v]
    BY <2>1, StateWritten
  <2>3. \A v \in Views : Pending(v)' = Pending(v) /\ LastOf(v)' = LastOf(v)
    BY DEF Pending, LastOf
  <2>4. \A v \in Views : ShownRuns(v)' = ShownRuns(v)
    BY <2>3 DEF ShownRuns, DecidedRun
  <2>5. ASSUME NEW v \in Views, v # w PROVE ShownRow(v)' = ShownRow(v)
    BY <2>2, <2>3, <2>5 DEF ShownRow
  <2>6. ShownRow(w)' = ShownRow(w)
    <3>1. i \in Pending(w) /\ \A j \in Pending(w) : j <= i
      BY <1>2 DEF Pending, Applied
    <3>2. LastOf(w) = rec /\ LastOf(w)' = rec
      BY <2>1, <2>3, <3>1, LastRecord DEF LastIsShown
    <3>3. StampState(StampState(state[w], rec.row, rec.rev), rec.row, rec.rev)
             = StampState(state[w], rec.row, rec.rev)
      BY <2>1 DEF StampState
    <3> QED BY <2>1, <2>2, <2>3, <3>1, <3>2, <3>3 DEF ShownRow
  <2> QED BY <2>4, <2>5, <2>6 DEF BoardShown
<1> QED BY <1>1, <1>2

\* Nor is writing its status.
LEMMA StatusHalfUnseen ==
    ASSUME TypeOK, TypeOK', NEW c \in Coords, job[c] \in Job, MaterializeStatus(c),
           UNCHANGED <<state, journal, job>>, Bound(c), pc[c] \in {"status", "replayStatus"},
           NEW i \in DOMAIN journal, journal[i] = job[c].rec, Applied(i),
           Finished(job[c].rec) \/ \A j \in DOMAIN journal : Applied(j) => j <= i
    PROVE  BoardShown
<1>1. CASE Finished(job[c].rec)
  <2>1. status' = status
    BY <1>1, HandFinished
  <2> QED BY <2>1, ShownStays
<1>2. CASE ~Finished(job[c].rec)
  <2>1. PICK rec \in Record, run \in RunRef : rec = job[c].rec /\ run = job[c].bound
    BY JobReply DEF Job
  <2> DEFINE w == rec.cmd.view
             stamped(files) == StampRuns(files, run, rec.cmd.kind, rec.patch, rec.rev)
  <2>2. w \in Views /\ rec.rev \in Nat
    BY RecordFacts
  <2>3. status \in [Views -> [Runs -> StatusFile]] /\ status' \in [Views -> [Runs -> StatusFile]]
    BY DEF TypeOK
  <2>4. status' = [status EXCEPT ![w] = stamped(status[w])]
    BY <2>1, <2>2, <2>3 DEF MaterializeStatus
  <2> HIDE DEF stamped
  <2>5. status'[w] = stamped(status[w]) /\ \A v \in Views \ {w} : status'[v] = status[v]
    BY <2>2, <2>3, <2>4
  <2>6. \A v \in Views : Pending(v)' = Pending(v) /\ LastOf(v)' = LastOf(v)
    BY DEF Pending, LastOf
  <2>7. \A v \in Views : ShownRow(v)' = ShownRow(v)
    BY <2>6 DEF ShownRow
  <2>8. ASSUME NEW v \in Views, v # w PROVE ShownRuns(v)' = ShownRuns(v)
    BY <2>5, <2>6, <2>8 DEF ShownRuns, DecidedRun
  <2>9. run = DecidedRun(rec)
    <3>1. Landed(rec) /\ ~KeptBy(rec, DecidedRun(rec))
      BY <1>2, <2>1 DEF Finished, Bound
    <3>2. ~Unbound(rec)
      BY <3>1 DEF Unbound, KeptBy
    <3> QED BY <2>1, <3>2 DEF Bound
  <2>10. ShownRuns(w)' = ShownRuns(w)
    <3>1. i \in Pending(w) /\ \A j \in Pending(w) : j <= i
      BY <1>2, <2>1 DEF Pending, Applied
    <3>2. LastOf(w) = rec /\ LastOf(w)' = rec
      BY <2>1, <2>2, <2>6, <3>1, LastRecord DEF LastIsShown
    <3>3. stamped(status'[w]) = status'[w]
      <4>1. Finished(rec)'
        BY <2>1, HandFinished
      <4>2. KeptBy(rec, run)'
        BY <2>9, <4>1 DEF Finished, DecidedRun
      <4>3. run = None \/ Kept(status'[w][run], rec.cmd.kind, rec.patch, rec.rev)
        BY <4>2 DEF KeptBy
      <4>4. status'[w] \in [Runs -> StatusFile]
        BY <2>2, <2>3
      <4> QED BY <2>2, <4>3, <4>4, KeptRuns DEF stamped
    <3>4. ShownRuns(w) = stamped(status[w])
      BY <2>9, <3>1, <3>2 DEF ShownRuns, stamped
    <3>5. ShownRuns(w)' = stamped(status'[w])
      BY <2>2, <2>6, <2>9, <3>1, <3>2 DEF ShownRuns, stamped, DecidedRun
    <3> QED BY <2>5, <3>3, <3>4, <3>5
  <2> QED BY <2>7, <2>8, <2>10 DEF BoardShown
<1> QED BY <1>1, <1>2

\* The counter stands at the highest revision on the board when a record is due.
LEMMA CounterIsHighest ==
    ASSUME TypeOK, RevisionInvariant, BoardInvariant, NEW c \in Coords,
           pc[c] \in {"append", "state"}, NEW w \in Views
    PROVE  \E v \in Views : state[v].rev = counter[c] /\ \A u \in Views : state[u].rev <= counter[c]
<1>1. \A u \in Views : state[u].rev <= counter[c] /\ state[u].rev \in Nat
  BY DEF RevisionInvariant, Ahead, CounterLeads, Serving, TypeOK, StateFile
<1>2. Seen(counter[c]) /\ counter[c] \in Nat
  BY DEF BoardInvariant, CountersSeen, TypeOK
<1>3. CASE counter[c] = 0
  BY <1>1, <1>3
<1>4. CASE \E v \in Views : counter[c] <= state[v].rev
  BY <1>1, <1>2, <1>4
<1> QED BY <1>2, <1>3, <1>4 DEF Seen

\* The board when all records are finished.
LEMMA BoardIsFiles ==
    TypeOK /\ JournalOrdered /\ (\A i \in DOMAIN journal : Applied(i) => Finished(journal[i])) =>
        /\ [v \in Views |-> ShownRow(v)] = state
        /\ [v \in Views |-> ShownRuns(v)] = status
<1> SUFFICES ASSUME TypeOK, JournalOrdered,
                    \A i \in DOMAIN journal : Applied(i) => Finished(journal[i])
             PROVE  /\ [v \in Views |-> ShownRow(v)] = state
                    /\ [v \in Views |-> ShownRuns(v)] = status
  OBVIOUS
<1>1. \A v \in Views : \A i \in Pending(v) : Finished(journal[i])
  BY DEF Pending, Applied
<1>2. \A v \in Views : ShownRow(v) = state[v] /\ ShownRuns(v) = status[v]
  BY <1>1, ShownActual DEF FinishedIsActual
<1>3. state \in [Views -> StateFile] /\ status \in [Views -> [Runs -> StatusFile]]
  BY DEF TypeOK
<1> QED BY <1>2, <1>3

\* The abstract board decides as the coordinator does, when it is what the files say.
LEMMA BoardDecision ==
    ASSUME TypeOK, NEW cmd \in Commands,
           [v \in Views |-> ShownRow(v)] = state, [v \in Views |-> ShownRuns(v)] = status
    PROVE  Board!Decision(cmd) = Decision(cmd)
<1> USE BoardDecide, BoardStamps
<1>1. cmd.view \in Views
  BY CommandFacts
<1> QED BY <1>1 DEF Board!Decision, Decision

FilesShown ==
    /\ [v \in Views |-> ShownRow(v)] = state
    /\ [v \in Views |-> ShownRuns(v)] = status

\* Before an append the board is what the files say; after it the record's view is
\* shown with the record laid over.
LEMMA AppendShows ==
    ASSUME TypeOK, TypeOK', RevisionInvariant, BoardInvariant, BoardInvariant',
           NEW c \in Coords, NEW rec \in Record, rec = job[c].rec,
           AppendRecord(c), rec.status = "applied"
    PROVE  LET w == rec.cmd.view
           IN  /\ FilesShown
               /\ \A u \in Views : u # w => ShownRow(u)' = state[u] /\ ShownRuns(u)' = status[u]
               /\ ShownRow(w)' = StampState(state[w], rec.row, rec.rev)
               /\ ShownRuns(w)' =
                      StampRuns(status[w], DecidedRun(rec), rec.cmd.kind, rec.patch, rec.rev)
<1> DEFINE rows == [v \in Views |-> ShownRow(v)]
           runs == [v \in Views |-> ShownRuns(v)]
<1>1. rec = job[c].rec /\ rec \in Record
  OBVIOUS
<1>2. PICK cmd \in Commands : cmd = rec.cmd /\ cmd.view \in Views /\ cmd.run \in RunRef
  BY RecordFacts
<1> DEFINE w == cmd.view
<1>3. Hand(c) /\ Ahead(c) /\ pc[c] = "append" /\ JournalOrdered /\ JournalOrdered'
  BY DEF BoardInvariant, FilesKept, RevisionInvariant, AppendRecord
<1>4. /\ ~torn /\ journal' = Append(journal, rec) /\ UNCHANGED <<state, status>>
      /\ \A i \in DOMAIN journal : Applied(i) => Finished(journal[i])
  BY <1>1, <1>3 DEF AppendRecord, Hand, ServedFinished, Serving
<1>5. rec = Decided(c, cmd) /\ ~Transient(cmd) /\ TakesNewRun(cmd) /\ rec.rev = counter[c] + 1
  BY <1>1, <1>2, <1>3 DEF Hand, InHand, Ahead, JobInHand
<1>6. /\ Decision(cmd).action = "apply" /\ rec.row = Decision(cmd).row
      /\ rec.patch = Decision(cmd).status /\ rec.run = StatusRun(cmd, state[w].row)
  BY <1>1, <1>5 DEF Decided
<1>7. rows = state /\ runs = status
  BY <1>3, <1>4, BoardIsFiles
<1>8. PICK n \in Nat : n = Len(journal)
  BY LenProperties DEF TypeOK
<1>9. /\ DOMAIN journal = 1..n /\ DOMAIN journal' = 1..(n + 1) /\ journal'[n + 1] = rec
      /\ \A i \in 1..n : journal'[i] = journal[i]
  BY <1>4, <1>8, AppendProperties, LenProperties DEF TypeOK
<1>10. ASSUME NEW u \in Views, u # w
       PROVE  ShownRow(u)' = state[u] /\ ShownRuns(u)' = status[u]
  <2>1. \A i \in Pending(u)' : Finished(journal[i])'
    <3>1. SUFFICES ASSUME NEW i \in Pending(u)' PROVE Finished(journal[i])'
      OBVIOUS
    <3>2. i \in 1..n /\ journal'[i] = journal[i] /\ Applied(i)
      BY <1>2, <1>9, <1>10 DEF Pending, Applied
    <3>3. Finished(journal[i])
      BY <1>4, <1>9, <3>2
    <3> QED BY <1>4, <3>2, <3>3 DEF Finished, Landed, KeptBy, DecidedRun
  <2>2. (TypeOK /\ JournalOrdered => FinishedIsActual)'
    BY ShownActual, PTL
  <2> QED BY <1>3, <1>4, <2>1, <2>2 DEF FinishedIsActual
<1>11. /\ ShownRow(w)' = StampState(state[w], rec.row, rec.rev)
       /\ ShownRuns(w)' = StampRuns(status[w], DecidedRun(rec), cmd.kind, rec.patch, rec.rev)
  <2>1. n + 1 \in Pending(w)' /\ \A j \in Pending(w)' : j <= n + 1
    BY <1>1, <1>2, <1>9 DEF Pending
  <2>2. (TypeOK => LastIsShown)'
    BY LastRecord, PTL
  <2>3. LastOf(w)' = rec
    BY <1>2, <1>9, <2>1, <2>2 DEF LastIsShown
  <2> QED BY <1>2, <1>4, <2>1, <2>3 DEF ShownRow, ShownRuns, DecidedRun
<1> QED BY <1>2, <1>7, <1>10, <1>11 DEF FilesShown

\* Journaling an applied command is where it takes effect.
LEMMA AppendIsApply ==
    ASSUME TypeOK, TypeOK', RevisionInvariant, BoardInvariant, BoardInvariant',
           NEW c \in Coords, AppendRecord(c), job[c].rec.status = "applied"
    PROVE  Board!Next
<1> DEFINE rows == [v \in Views |-> ShownRow(v)]
           runs == [v \in Views |-> ShownRuns(v)]
<1>1. PICK rec \in Record : rec = job[c].rec
  BY JobReply DEF AppendRecord, TypeOK, Serving
<1>2. PICK cmd \in Commands : cmd = rec.cmd /\ cmd.view \in Views /\ cmd.run \in RunRef
  BY RecordFacts
<1> DEFINE w == cmd.view
<1>3. Hand(c) /\ Ahead(c) /\ pc[c] = "append" /\ JournalOrdered /\ JournalOrdered'
  BY DEF BoardInvariant, FilesKept, RevisionInvariant, AppendRecord
<1>4. /\ ~torn /\ journal' = Append(journal, rec) /\ UNCHANGED <<state, status>>
      /\ \A i \in DOMAIN journal : Applied(i) => Finished(journal[i])
  BY <1>1, <1>3 DEF AppendRecord, Hand, ServedFinished, Serving
<1>5. rec = Decided(c, cmd) /\ ~Transient(cmd) /\ TakesNewRun(cmd) /\ rec.rev = counter[c] + 1
  BY <1>1, <1>2, <1>3 DEF Hand, InHand, Ahead, JobInHand
<1>6. /\ Decision(cmd).action = "apply" /\ rec.row = Decision(cmd).row
      /\ rec.patch = Decision(cmd).status /\ rec.run = StatusRun(cmd, state[w].row)
  BY <1>1, <1>5 DEF Decided
<1>7. rows = state /\ runs = status
  BY <1>1, AppendShows DEF FilesShown
<1>10. ASSUME NEW u \in Views, u # w
       PROVE  ShownRow(u)' = state[u] /\ ShownRuns(u)' = status[u]
  BY <1>1, <1>2, <1>10, AppendShows
<1>11. /\ ShownRow(w)' = StampState(state[w], rec.row, rec.rev)
       /\ ShownRuns(w)' = StampRuns(status[w], DecidedRun(rec), cmd.kind, rec.patch, rec.rev)
  BY <1>1, <1>2, AppendShows
<1>12. BoundRun(cmd, StatusRun(cmd, state[w].row), state[w].row) = DecidedRun(rec)
  <2>1. Unbound(rec) => state[w].row.run = None
    <3>1. state[w].rev <= counter[c]
      BY <1>2, <1>3 DEF Ahead, CounterLeads, Serving
    <3> QED BY <1>2, <1>5, <1>6, <3>1, DecidedFresh
  <2> QED BY <1>2, <1>6, <2>1 DEF BoundRun, DecidedRun, Unbound
<1>13. PICK v \in Views : state[v].rev = counter[c] /\ \A u \in Views : state[u].rev <= counter[c]
  BY <1>2, <1>3, CounterIsHighest
<1>14. Board!Highest(state[v].rev)
  BY <1>7, <1>13 DEF Board!Highest
<1>15. Board!Decision(cmd) = Decision(cmd)
  BY <1>7, BoardDecision
<1>16. Board!RowStep(cmd, rec.rev)
  <2>1. rows' = [state EXCEPT ![w] = StampState(state[w], rec.row, rec.rev)]
    <3>1. \A u \in Views :
              ShownRow(u)' = [state EXCEPT ![w] = StampState(state[w], rec.row, rec.rev)][u]
      BY <1>2, <1>10, <1>11 DEF TypeOK
    <3>2. state \in [Views -> StateFile]
      BY DEF TypeOK
    <3> QED BY <3>1, <3>2
  <2> QED BY <1>2, <1>6, <1>7, <1>15, <2>1, BoardStamps DEF Board!RowStep
<1>17. Board!StatusStep(cmd, rec.rev)
  <2> DEFINE new == StampRuns(status[w], DecidedRun(rec), cmd.kind, rec.patch, rec.rev)
  <2>1. runs' = [status EXCEPT ![w] = new]
    <3> HIDE DEF new
    <3>1. \A u \in Views : ShownRuns(u)' = IF u = w THEN new ELSE status[u]
      BY <1>2, <1>10, <1>11 DEF new
    <3>2. status \in [Views -> [Runs -> StatusFile]]
      BY DEF TypeOK
    <3> QED BY <1>2, <3>1, <3>2
  <2>2. Board!StampRuns(status[w],
                        Board!BoundRun(cmd, Board!StatusRun(cmd, state[w].row), state[w].row),
                        cmd.kind, Board!Decision(cmd).status, rec.rev) = new
    <3>1. Board!BoundRun(cmd, Board!StatusRun(cmd, state[w].row), state[w].row) = DecidedRun(rec)
      BY <1>12, BoardStamps
    <3> QED BY <1>6, <1>15, <3>1, BoardStampRuns
  <2> HIDE DEF new
  <2> QED BY <1>2, <1>7, <2>1, <2>2 DEF Board!StatusStep, TypeOK
<1>18. cmd.kind \notin Board!TransientKinds /\ Board!Decision(cmd).action = "apply"
  BY <1>5, <1>6, <1>15, BoardStamps DEF Transient
<1>19. Board!ApplyCommand(cmd)
  <2>1. rows[v].rev + 1 = rec.rev /\ Board!Highest(rows[v].rev)
    BY <1>5, <1>7, <1>13, <1>14
  <2> QED BY <1>16, <1>17, <1>18, <2>1 DEF Board!ApplyCommand
<1> QED BY <1>19 DEF Board!Next

Whole(c) == pc[c] \in Serving /\ (pc[c] \in {"state", "status"} => Transient(job[c].rec.cmd))
SomeWhole == \E c \in Coords : Whole(c)

\* While a coordinator serves, and what it has in hand is at most a beat, the
\* board is what the files say.
LEMMA ServedIsShown == TypeOK /\ BoardInvariant /\ SomeWhole => FilesShown
<1> SUFFICES ASSUME TypeOK, BoardInvariant, NEW c \in Coords, Whole(c) PROVE FilesShown
  BY DEF SomeWhole
<1>1. JournalOrdered /\ ServedFinished(c)
  BY DEF BoardInvariant, FilesKept, Hand
<1>2. \A i \in DOMAIN journal : Applied(i) => Finished(journal[i])
  BY <1>1 DEF JournalOrdered, ServedFinished, Whole
<1> QED BY <1>1, <1>2, BoardIsFiles DEF FilesShown

\* The row of a beat ...
LEMMA BeatRowIsApply ==
    ASSUME TypeOK, TypeOK', RevisionInvariant, BoardInvariant, BoardInvariant',
           NEW c \in Coords, WriteState(c), Transient(job[c].rec.cmd)
    PROVE  Board!Next
<1> DEFINE rows == [v \in Views |-> ShownRow(v)]
           runs == [v \in Views |-> ShownRuns(v)]
<1>1. PICK rec \in Record, bytes \in Nat : rec = job[c].rec /\ bytes = job[c].bytes
  BY JobReply DEF WriteState, TypeOK, Serving, Job
<1>2. PICK cmd \in Commands : cmd = rec.cmd /\ cmd.view \in Views
  BY RecordFacts
<1> DEFINE w == cmd.view
<1>3. /\ Hand(c) /\ Ahead(c) /\ pc[c] = "state" /\ pc'[c] = "status"
      /\ MaterializeState(c, rec, bytes) /\ UNCHANGED <<status, journal>>
  BY <1>1, GotoFacts DEF BoardInvariant, RevisionInvariant, WriteState, Labels, Serving
<1>4. job'[c].rec = rec /\ state'[w] = StampState(state[w], rec.row, rec.rev)
      /\ \A v \in Views \ {w} : state'[v] = state[v]
  BY <1>2, <1>3, StateWritten
<1>5. rows = state /\ runs = status
  <2>1. SomeWhole
    BY <1>3 DEF SomeWhole, Whole, Serving
  <2> QED BY <2>1, ServedIsShown DEF FilesShown
<1>6. rows' = state' /\ runs' = status'
  <2>1. SomeWhole'
    BY <1>1, <1>3, <1>4 DEF SomeWhole, Whole, Serving, Transient
  <2>2. (TypeOK /\ BoardInvariant /\ SomeWhole => FilesShown)'
    BY ServedIsShown, PTL
  <2> QED BY <2>1, <2>2 DEF FilesShown
<1>7. rec = Decided(c, cmd) /\ Decision(cmd).action = "apply" /\ Transient(cmd)
  BY <1>1, <1>2, <1>3 DEF Hand, InHand
<1>8. rec.row = Decision(cmd).row /\ rec.rev = counter[c] + 1
  BY <1>7 DEF Decided
<1>9. PICK v \in Views : state[v].rev = counter[c] /\ \A u \in Views : state[u].rev <= counter[c]
  BY <1>2, <1>3, CounterIsHighest
<1>10. Board!Highest(state[v].rev)
  BY <1>5, <1>9 DEF Board!Highest
<1>11. Board!Decision(cmd) = Decision(cmd)
  BY <1>5, BoardDecision
<1>12. Board!RowStep(cmd, rec.rev)
  <2>1. rows' = [state EXCEPT ![w] = StampState(state[w], rec.row, rec.rev)]
    <3>1. \A u \in Views :
              state'[u] = [state EXCEPT ![w] = StampState(state[w], rec.row, rec.rev)][u]
      BY <1>2, <1>4 DEF TypeOK
    <3>2. state \in [Views -> StateFile] /\ state' \in [Views -> StateFile]
      BY DEF TypeOK
    <3> QED BY <1>6, <3>1, <3>2
  <2> QED BY <1>2, <1>5, <1>8, <1>11, <2>1, BoardStamps DEF Board!RowStep
<1>13. cmd.kind \in Board!TransientKinds /\ Board!Decision(cmd).action = "apply"
  BY <1>7, <1>11, BoardStamps DEF Transient
<1>14. Board!ApplyBeat(cmd)
  <2>1. rows[v].rev + 1 = rec.rev /\ Board!Highest(rows[v].rev)
    BY <1>5, <1>8, <1>9, <1>10
  <2>2. runs' = runs
    BY <1>3, <1>5, <1>6
  <2> QED BY <1>12, <1>13, <2>1, <2>2 DEF Board!ApplyBeat
<1> QED BY <1>14 DEF Board!Next

\* ... and its status, if the process lives to write it.
LEMMA BeatStatusIsFinish ==
    ASSUME TypeOK, TypeOK', RevisionInvariant, BoardInvariant, BoardInvariant',
           NEW c \in Coords, WriteStatus(c), Transient(job[c].rec.cmd)
    PROVE  Board!Next
<1> DEFINE rows == [v \in Views |-> ShownRow(v)]
           runs == [v \in Views |-> ShownRuns(v)]
<1>1. PICK rec \in Record : rec = job[c].rec /\ job[c] \in Job
  BY JobReply DEF WriteStatus, TypeOK, Serving
<1>2. PICK cmd \in Commands : cmd = rec.cmd /\ cmd.view \in Views
  BY RecordFacts
<1> DEFINE w == cmd.view
           file == status[w][cmd.run]
<1>3. /\ Hand(c) /\ pc[c] = "status" /\ pc'[c] = "reply"
      /\ MaterializeStatus(c) /\ UNCHANGED <<state, journal, job>>
  BY <1>1, GotoFacts DEF BoardInvariant, WriteStatus, Labels, Serving
<1>4. /\ rec.rev = state[w].rev /\ cmd.run \in Runs /\ state[w].row.run = cmd.run
      /\ rec.patch = DiffStatus(file.st, cmd.payload.status) /\ Transient(cmd)
  BY <1>1, <1>2, <1>3 DEF Hand, InHand
<1>5. job[c].bound = cmd.run
  BY <1>1, <1>2, <1>3, <1>4, RunsAssumption DEF Hand, Bound, Unbound, DecidedRun
<1>6. rows = state /\ runs = status
  <2>1. SomeWhole
    BY <1>3 DEF SomeWhole, Whole, Serving
  <2> QED BY <2>1, ServedIsShown DEF FilesShown
<1>7. rows' = state' /\ runs' = status'
  <2>1. SomeWhole'
    BY <1>3 DEF SomeWhole, Whole, Serving
  <2>2. (TypeOK /\ BoardInvariant /\ SomeWhole => FilesShown)'
    BY ServedIsShown, PTL
  <2> QED BY <2>1, <2>2 DEF FilesShown
<1>8. status' = [status EXCEPT ![w][cmd.run] =
                    StampStatus(file, cmd.kind, DiffStatus(file.st, cmd.payload.status),
                                                state[w].rev)]
  <2>1. status \in [Views -> [Runs -> StatusFile]]
    BY DEF TypeOK
  <2>2. status' = [status EXCEPT ![w] = StampRuns(status[w], cmd.run, cmd.kind, rec.patch, rec.rev)]
    BY <1>1, <1>2, <1>3, <1>5, <2>1 DEF MaterializeStatus
  <2>3. StampRuns(status[w], cmd.run, cmd.kind, rec.patch, rec.rev) =
           [status[w] EXCEPT ![cmd.run] = StampStatus(file, cmd.kind, rec.patch, rec.rev)]
    BY <1>2, <1>4, <2>1, RunsAssumption DEF StampRuns
  <2> QED BY <1>4, <2>2, <2>3
<1>9. Board!FinishBeat(cmd)
  <2>1. runs' = [runs EXCEPT ![w][cmd.run] =
                    Board!StampStatus(@, cmd.kind, Board!DiffStatus(@.st, cmd.payload.status),
                                      rows[w].rev)]
    <3>1. Board!StampStatus(file, cmd.kind, Board!DiffStatus(file.st, cmd.payload.status),
                            state[w].rev)
             = StampStatus(file, cmd.kind, DiffStatus(file.st, cmd.payload.status), state[w].rev)
      BY BoardStamps
    <3>2. rows[w].rev = state[w].rev
      BY <1>6
    <3> QED BY <1>6, <1>7, <1>8, <3>1, <3>2
  <2>2. rows' = rows /\ rows[w].row.run = cmd.run
    BY <1>3, <1>4, <1>6, <1>7
  <2>3. cmd.kind \in Board!TransientKinds
    BY <1>4, BoardStamps DEF Transient
  <2> QED BY <2>1, <2>2, <2>3 DEF Board!FinishBeat
<1> QED BY <1>9 DEF Board!Next

Appends(c) == AppendRecord(c) /\ job[c].rec.status = "applied"
BeatsRow(c) == WriteState(c) /\ Transient(job[c].rec.cmd)
BeatsStatus(c) == WriteStatus(c) /\ Transient(job[c].rec.cmd)

\* What the coordinators do is not seen on the board, but for three steps.
LEMMA BoardCases ==
    ASSUME ~StaleReclaim, ~DiskFails, TypeOK, TypeOK', RevisionInvariant,
           BoardInvariant, BoardInvariant', [Next]_vars
    PROVE  BoardShown \/ \E c \in Coords : Appends(c) \/ BeatsRow(c) \/ BeatsStatus(c)
<1> DEFINE Seldom == \E c \in Coords : Appends(c) \/ BeatsRow(c) \/ BeatsStatus(c)
<1> USE DEF Serving
<1>j. \A i \in DOMAIN journal : journal[i] \in Record
  BY DEF TypeOK
<1>h. \A d \in Coords : Hand(d) /\ Ahead(d)
  BY DEF BoardInvariant, RevisionInvariant
<1>k. JournalOrdered
  BY DEF BoardInvariant, FilesKept
<1>1. ASSUME UNCHANGED <<state, status, journal>> PROVE BoardShown
  BY <1>1, ShownStays
\* Replay: the board has shown the record since it was journaled.
<1>2. ASSUME NEW c \in Coords, ReplayState(c) PROVE BoardShown
  <2>1. PICK rec \in Record : rec = Head(todo[c]) /\ \E j \in DOMAIN todo[c] : rec = todo[c][j]
    <3>1. todo[c] # <<>>
      BY <1>2 DEF ReplayState
    <3> QED BY <3>1, NextRecord
  <2>2. /\ pc[c] = "replay" /\ rec.status = "applied" /\ MaterializeState(c, rec, 0)
        /\ UNCHANGED <<status, journal>> /\ 0 \in Nat
    BY <1>2, <2>1 DEF ReplayState
  <2>3. PICK i \in DOMAIN journal : journal[i] = rec /\ Applied(i)
    <3>1. PICK i \in DOMAIN journal : rec = journal[i]
      BY <1>h, <2>1, <2>2 DEF Ahead, ReplayedJournal
    <3> QED BY <2>2, <3>1 DEF Applied
  <2>4. Landed(rec) \/ \A j \in DOMAIN journal : Applied(j) => j <= i
    BY <1>k, <2>3 DEF JournalOrdered, Finished
  <2>5. BoardShown
    BY <2>2, <2>3, <2>4, RowHalfUnseen
  <2> QED BY <2>5
<1>3. ASSUME NEW c \in Coords, ReplayStatus(c) PROVE BoardShown
  <2>1. /\ pc[c] = "replayStatus" /\ MaterializeStatus(c) /\ job[c] \in Job
        /\ UNCHANGED <<state, journal, job>> /\ Bound(c)
    BY <1>3, <1>h DEF ReplayStatus, TypeOK, Hand
  <2>2. PICK i \in DOMAIN journal : journal[i] = job[c].rec /\ Applied(i)
    BY <1>h, <2>1 DEF Hand, ReplayedFinished, Bound, Applied
  <2>3. Finished(job[c].rec) \/ \A j \in DOMAIN journal : Applied(j) => j <= i
    BY <1>k, <2>2 DEF JournalOrdered
  <2>4. BoardShown
    BY <2>1, <2>2, <2>3, StatusHalfUnseen
  <2> QED BY <2>4
\* Appending.
<1>4. ASSUME NEW c \in Coords, AppendRecord(c), job[c].rec.status = "applied"
      PROVE  Seldom
  BY <1>4 DEF Appends
<1>5. ASSUME NEW c \in Coords, AppendRecord(c), job[c].rec.status # "applied"
      PROVE  BoardShown
  <2>1. PICK rec \in Record : rec = job[c].rec
    BY <1>5, JobReply DEF AppendRecord, TypeOK
  <2>2. /\ ~torn /\ journal' = Append(journal, rec) /\ UNCHANGED <<state, status>>
        /\ rec.status # "applied"
    BY <1>5, <1>h, <2>1 DEF AppendRecord, Hand, ServedFinished
  <2>3. PICK n \in Nat : n = Len(journal)
    BY LenProperties DEF TypeOK
  <2>4. /\ DOMAIN journal = 1..n /\ DOMAIN journal' = 1..(n + 1) /\ journal'[n + 1] = rec
        /\ \A i \in 1..n : journal'[i] = journal[i]
    BY <2>2, <2>3, AppendProperties, LenProperties DEF TypeOK
  <2>5. ASSUME NEW v \in Views
        PROVE  Pending(v)' = Pending(v) /\ (Pending(v) # {} => LastOf(v)' = LastOf(v))
    <3>1. Pending(v)' = Pending(v)
      BY <2>2, <2>4 DEF Pending
    <3>2. ASSUME Pending(v) # {} PROVE LastOf(v)' = LastOf(v)
      <4>1. PICK i \in Pending(v) : \A j \in Pending(v) : j <= i
        BY <1>k, <3>2 DEF JournalOrdered
      <4>2. LastOf(v) = journal[i]
        BY <4>1, LastRecord DEF LastIsShown
      <4>3. (TypeOK => LastIsShown)'
        BY LastRecord, PTL
      <4>4. LastOf(v)' = journal'[i]
        BY <3>1, <4>1, <4>3 DEF LastIsShown
      <4>5. journal'[i] = journal[i]
        BY <2>4 DEF Pending
      <4> QED BY <4>2, <4>4, <4>5
    <3> QED BY <3>1, <3>2
  <2>6. BoardShown
    BY <2>2, <2>5 DEF BoardShown, ShownRow, ShownRuns, DecidedRun
  <2> QED BY <2>6
\* Materialization of a journaled record is not seen, that of a beat is.
<1>6. ASSUME NEW c \in Coords, WriteState(c) PROVE BoardShown \/ Seldom
  <2>1. PICK rec \in Record, bytes \in Nat : rec = job[c].rec /\ bytes = job[c].bytes
    BY <1>6, JobReply DEF WriteState, TypeOK, Job
  <2>2. /\ pc[c] = "state" /\ MaterializeState(c, rec, bytes) /\ UNCHANGED <<status, journal>>
    BY <1>6, <2>1 DEF WriteState
  <2>3. CASE Transient(rec.cmd)
    BY <1>6, <2>1, <2>3 DEF BeatsRow
  <2>4. CASE ~Transient(rec.cmd)
    <3>1. PICK i \in DOMAIN journal :
             journal[i] = rec /\ \A j \in DOMAIN journal : Applied(j) => j <= i
      BY <1>h, <2>1, <2>2, <2>4 DEF Hand, InHand
    <3>2. Applied(i)
      BY <1>h, <2>1, <2>2, <3>1 DEF Ahead, JobInHand, Applied
    <3>3. BoardShown
      BY <2>2, <3>1, <3>2, RowHalfUnseen
    <3> QED BY <3>3
  <2> QED BY <2>3, <2>4
<1>7. ASSUME NEW c \in Coords, WriteStatus(c) PROVE BoardShown \/ Seldom
  <2>1. PICK rec \in Record : rec = job[c].rec
    BY <1>7, JobReply DEF WriteStatus, TypeOK
  <2>2. /\ pc[c] = "status" /\ MaterializeStatus(c) /\ job[c] \in Job
        /\ UNCHANGED <<state, journal, job>> /\ Bound(c)
    BY <1>7, <1>h DEF WriteStatus, TypeOK, Hand
  <2>3. CASE Transient(rec.cmd)
    BY <1>7, <2>1, <2>3 DEF BeatsStatus
  <2>4. CASE ~Transient(rec.cmd)
    <3>1. PICK i \in DOMAIN journal :
             journal[i] = rec /\ \A j \in DOMAIN journal : Applied(j) => j <= i
      BY <1>h, <2>1, <2>2, <2>4 DEF Hand, InHand
    <3>2. Applied(i)
      BY <1>h, <2>1, <2>2, <3>1 DEF Ahead, JobInHand, Applied
    <3>3. BoardShown
      BY <2>1, <2>2, <3>1, <3>2, StatusHalfUnseen
    <3> QED BY <3>3
  <2> QED BY <2>3, <2>4
\* What is collected was written.
<1>8. ASSUME NEW c \in Coords, CollectGarbage(c) PROVE BoardShown
  <2>1. pc[c] = "gc" /\ pc'[c] = "reply" /\ UNCHANGED <<state, status>>
    BY <1>8, GotoFacts DEF CollectGarbage, Labels
  <2>2. SomeWhole /\ SomeWhole'
    BY <2>1 DEF SomeWhole, Whole
  <2>3. FilesShown /\ FilesShown'
    <3>1. (TypeOK /\ BoardInvariant /\ SomeWhole => FilesShown)'
      BY ServedIsShown, PTL
    <3> QED BY <2>2, <3>1, ServedIsShown
  <2> QED BY <2>1, <2>3 DEF FilesShown, BoardShown
<1>9. ASSUME \/ UNCHANGED vars
             \/ \E cmd \in Commands : Send(cmd)
             \/ \E c \in Coords : \/ AcquireLease(c) \/ Repair(c) \/ ReplayRejected(c)
                                  \/ FinishBoot(c) \/ SkipCheckpoint(c) \/ WriteCheckpoint(c)
                                  \/ CollectNothing(c) \/ Answer(c) \/ Crash(c) \/ Shutdown(c)
             \/ \E c \in Coords, cmd \in Commands :
                   AnswerDuplicate(c, cmd) \/ RejectBeat(c, cmd) \/ Decide(c, cmd)
      PROVE  BoardShown
  <2>1. UNCHANGED <<state, status, journal>>
    BY <1>9 DEF vars, disk, Send, AcquireLease, Repair, ReplayRejected, FinishBoot,
                SkipCheckpoint, WriteCheckpoint, CollectNothing, Answer, Crash, Shutdown, Vanish,
                AnswerDuplicate, RejectBeat, Decide
  <2> QED BY <1>1, <2>1
<1> QED
  BY <1>2, <1>3, <1>4, <1>5, <1>6, <1>7, <1>8, <1>9 DEF Next, Boot, Serve

\* Every step of the coordinators is a step of the board, or not seen on it.
LEMMA BoardMaps ==
    ASSUME ~StaleReclaim, ~DiskFails, TypeOK, TypeOK', RevisionInvariant,
           BoardInvariant, BoardInvariant', [Next]_vars
    PROVE  [Board!Next]_(Board!vars)
BY BoardCases, BoardStutters, AppendIsApply, BeatRowIsApply, BeatStatusIsFinish
DEF Appends, BeatsRow, BeatsStatus

\* Initially nothing is journaled: the board is new.
LEMMA BoardInit == Init => Board!Init
<1> SUFFICES ASSUME Init PROVE Board!Init
  OBVIOUS
<1>1. /\ state = [v \in Views |-> NewState]
      /\ status = [v \in Views |-> [r \in Runs |-> NoStatus]]
      /\ \A v \in Views : Pending(v) = {}
  BY DEF Init, Pending
<1>2. \A v \in Views : ShownRow(v) = NewState /\ ShownRuns(v) = [r \in Runs |-> NoStatus]
  BY <1>1 DEF ShownRow, ShownRuns
<1> QED BY <1>2, BoardStamps DEF Board!Init

\* The coordinators keep what AtomicBoard promises: whatever crashes and boots,
\* clients see a board whose journaled commands take effect at once, each under
\* the next revision; as long as no live holder is overtaken, the disk replaces
\* files, and clients put only new runs on a row.
THEOREM ImplementsAtomicBoard ==
    ASSUME ~StaleReclaim, ~DiskFails
    PROVE  Spec /\ RunsComeNew => RefinesAtomicBoard
<1>1. Init => TypeOK /\ RevisionInvariant /\ BoardInvariant /\ Board!Init
  BY InitTyped, InitRevisions, InitBoard, BoardInit
<1>2. TypeOK /\ RevisionInvariant /\ BoardInvariant /\ [Next]_vars /\ [NewRunsOnly]_vars
         => (TypeOK /\ RevisionInvariant /\ BoardInvariant)'
  BY TypeStep, RevisionStep, BoardStep
<1>3. TypeOK /\ TypeOK' /\ RevisionInvariant /\ BoardInvariant /\ BoardInvariant' /\ [Next]_vars
         => [Board!Next]_(Board!vars)
  BY BoardMaps
<1> QED BY <1>1, <1>2, <1>3, PTL DEF Spec, RunsComeNew, RefinesAtomicBoard, Board!Spec

----------------------------------------------------------------------------
(* The row and the status of the run it shows carry one revision.           *)

\* A command that leaves the shown run on the row is bound to that run.
LEMMA ShownRunIsBound ==
    ASSUME TypeOK, NEW cmd \in Commands, Decision(cmd).action = "apply",
           state[cmd.view].row.run # None,
           MergeRow(state[cmd.view].row, Decision(cmd).row).run = state[cmd.view].row.run
    PROVE  IF cmd.run # None THEN cmd.run = state[cmd.view].row.run
                             ELSE StatusRun(cmd, state[cmd.view].row) = state[cmd.view].row.run
<1> DEFINE row == state[cmd.view].row
           rev == state[cmd.view].rev
           st == StatusOf(status[cmd.view], StatusRun(cmd, row))
<1>0. WellFormed(cmd) /\ cmd.view \in Views /\ row \in Row
  BY CommandFacts DEF TypeOK, StateFile
<1>1. Decision(cmd) = DecideStateTransition(cmd, row, rev, st)
  BY DEF Decision
<1> HIDE DEF st
<1>2. ~StaleRun(cmd, row) /\ Decision(cmd) = DecideKind(cmd, row, st)
  BY <1>1 DEF DecideStateTransition, Reject
<1>3. CASE cmd.kind = "run_started"
  <2>1. Decision(cmd).row = [KeepRow EXCEPT !.sem = "working", !.proc = "alive", !.run = cmd.run]
    BY <1>2, <1>3 DEF DecideKind, DecideRunStarted, Reject, Apply
  <2>2. cmd.run # None /\ Decision(cmd).row.run = cmd.run
    BY <1>0, <1>3, <2>1 DEF WellFormed, ValidCommand, KeepRow
  <2>3. cmd.run # Keep
    BY <1>0, KeepIsNoValue DEF WellFormed
  <2> QED BY <2>2, <2>3 DEF MergeRow, Patched
<1>4. CASE cmd.kind = "followup_started" /\ cmd.run = None
  <2>1. Decision(cmd).row.run = cmd.payload.newRunId
    <3> DEFINE diff == DiffRow(row, ProjectViewState(cmd.payload.status, cmd.payload.newRunId, row))
    <3>1. Decision(cmd).row = [diff EXCEPT !.run = cmd.payload.newRunId, !.proc = "alive"]
      BY <1>2, <1>4 DEF DecideKind, DecideFollowupStarted, Apply
    <3>2. "run" \in DOMAIN diff
      BY DEF DiffRow
    <3> HIDE DEF diff
    <3> QED BY <3>1, <3>2
  <2>2. cmd.payload.newRunId \in Runs
    BY <1>0, <1>4 DEF WellFormed, ValidCommand, Payload
  <2>3. StatusRun(cmd, row) = cmd.payload.newRunId
    BY <1>4 DEF StatusRun
  <2> QED BY <1>4, <2>1, <2>2, <2>3, RunsAssumption DEF MergeRow, Patched
<1>5. CASE cmd.kind # "run_started" /\ cmd.run # None
  BY <1>2, <1>5 DEF StaleRun
<1>6. CASE cmd.kind # "followup_started" /\ cmd.run = None
  BY <1>6 DEF StatusRun
<1> QED BY <1>0, <1>3, <1>4, <1>5, <1>6

\* Stamping an existing status that is not ahead gives it the revision; a missing
\* one stays missing or is created with it.
LEMMA StampedRev ==
    ASSUME NEW file \in StatusFile, NEW kind, NEW patch, NEW n \in Nat, file.rev <= n
    PROVE  LET new == StampStatus(file, kind, patch, n)
           IN  new.st # Absent => new.rev = n
<1>1. file.rev \in Nat
  BY DEF StatusFile, NoStatus
<1> QED BY <1>1 DEF StampStatus

\* Journaling a command for which the row takes no run that has a status pairs its view.
LEMMA AppendPairs ==
    ASSUME TypeOK, TypeOK', RevisionInvariant, BoardInvariant, BoardInvariant',
           NEW c \in Coords, Appends(c), NEW v \in Views, PairShown(v)
    PROVE  PairShown(v)'
<1>1. PICK rec \in Record : rec = job[c].rec
  BY JobReply DEF Appends, AppendRecord, TypeOK, Serving
<1>2. PICK cmd \in Commands : cmd = rec.cmd /\ cmd.view \in Views /\ cmd.run \in RunRef
  BY RecordFacts
<1> DEFINE w == cmd.view
           row == state[w].row
           run == MergeRow(row, rec.row).run
<1>3. Hand(c) /\ Ahead(c) /\ pc[c] = "append" /\ StatusBehind
  BY DEF BoardInvariant, FilesKept, RevisionInvariant, Appends, AppendRecord
<1>4. /\ rec = Decided(c, cmd) /\ TakesNewRun(cmd)
      /\ rec.rev = counter[c] + 1 /\ rec.status = "applied"
  BY <1>1, <1>2, <1>3 DEF Hand, InHand, Ahead, JobInHand, Appends
<1>5. /\ Decision(cmd).action = "apply" /\ rec.row = Decision(cmd).row
      /\ rec.run = StatusRun(cmd, row)
  BY <1>4 DEF Decided
<1>6. /\ FilesShown
      /\ \A u \in Views : u # w => ShownRow(u)' = state[u] /\ ShownRuns(u)' = status[u]
      /\ ShownRow(w)' = StampState(state[w], rec.row, rec.rev)
      /\ ShownRuns(w)' = StampRuns(status[w], DecidedRun(rec), cmd.kind, rec.patch, rec.rev)
  BY <1>1, <1>2, <1>4, AppendShows DEF Appends
<1>7. CASE v # w
  <2>1. ShownRow(v)' = ShownRow(v) /\ ShownRuns(v)' = ShownRuns(v)
    BY <1>6, <1>7 DEF FilesShown
  <2> QED BY <2>1 DEF PairShown
<1>8. CASE v = w
  <2>1. state[w].rev <= counter[c] /\ state[w].rev \in Nat /\ counter[c] \in Nat
    BY <1>2, <1>3 DEF Ahead, CounterLeads, Serving, TypeOK, StateFile
  <2>2. ShownRow(w)'.rev = rec.rev /\ ShownRow(w)'.row.run = run
    BY <1>4, <1>6, <2>1 DEF StampState
  <2>3. status[w] \in [Runs -> StatusFile] /\ DecidedRun(rec) \in RunRef /\ rec.rev \in Nat
    BY <1>2, RecordFacts, DecidedRunType DEF TypeOK
  <2>4. \A r \in Runs : status[w][r].rev <= rec.rev
    <3>1. SUFFICES ASSUME NEW r \in Runs PROVE status[w][r].rev <= rec.rev
      OBVIOUS
    <3>2. status[w][r].rev <= state[w].rev /\ status[w][r].rev \in Nat
      BY <1>2, <1>3, <2>3 DEF StatusBehind, StatusFile, NoStatus
    <3> QED BY <1>4, <2>1, <3>2
  <2>5. SUFFICES ASSUME run # None, ShownRuns(w)'[run].st # Absent
                 PROVE  ShownRuns(w)'[run].rev = rec.rev
    BY <1>8, <2>2 DEF PairShown
  <2>6. run \in Runs
    <3>1. row \in Row /\ rec.row \in RowPatch
      BY <1>2, RecordFacts DEF TypeOK, StateFile
    <3>2. MergeRow(row, rec.row) \in Row
      BY <3>1, MergeRowType
    <3> QED BY <2>5, <3>2 DEF Row, RunRef
  <2>7. CASE run = DecidedRun(rec)
    <3>1. ShownRuns(w)'[run] = StampStatus(status[w][run], cmd.kind, rec.patch, rec.rev)
      BY <1>6, <2>3, <2>5, <2>6, <2>7 DEF StampRuns
    <3> QED BY <2>3, <2>4, <2>5, <2>6, <3>1, StampedRev
  <2>8. CASE run # DecidedRun(rec)
    <3>1. run # row.run
      <4>1. ASSUME run = row.run PROVE run = DecidedRun(rec)
        BY <1>2, <1>5, <2>5, <4>1, ShownRunIsBound DEF DecidedRun
      <4> QED BY <2>8, <4>1
    <3>2. status[w][run].st = Absent
      BY <1>4, <1>5, <2>5, <3>1 DEF TakesNewRun
    <3>3. ShownRuns(w)'[run] = status[w][run]
      BY <1>6, <2>3, <2>6, <2>8 DEF StampRuns
    <3> QED BY <2>5, <3>2, <3>3
  <2> QED BY <2>7, <2>8
<1> QED BY <1>7, <1>8

\* The status of a beat brings its view to the revision of the row, and leaves
\* the other views alone.
LEMMA BeatPairs ==
    ASSUME TypeOK, TypeOK', RevisionInvariant, BoardInvariant, BoardInvariant',
           NEW c \in Coords, BeatsStatus(c), NEW v \in Views,
           v = job[c].rec.cmd.view \/ PairShown(v)
    PROVE  PairShown(v)'
<1>1. PICK rec \in Record : rec = job[c].rec /\ job[c] \in Job
  BY JobReply DEF BeatsStatus, WriteStatus, TypeOK, Serving
<1>2. PICK cmd \in Commands : cmd = rec.cmd /\ cmd.view \in Views
  BY RecordFacts
<1> DEFINE w == cmd.view
<1>3. /\ Hand(c) /\ pc[c] = "status" /\ pc'[c] = "reply" /\ StatusBehind
      /\ MaterializeStatus(c) /\ UNCHANGED <<state, journal, job>> /\ Transient(cmd)
  BY <1>1, <1>2, GotoFacts
  DEF BoardInvariant, FilesKept, BeatsStatus, WriteStatus, Labels, Serving
<1>4. rec.rev = state[w].rev /\ cmd.run \in Runs /\ state[w].row.run = cmd.run
  BY <1>1, <1>2, <1>3 DEF Hand, InHand
<1>5. job[c].bound = cmd.run
  BY <1>1, <1>2, <1>3, <1>4, RunsAssumption DEF Hand, Bound, Unbound, DecidedRun
<1>6. FilesShown
  <2>1. SomeWhole
    BY <1>1, <1>2, <1>3 DEF SomeWhole, Whole, Serving
  <2> QED BY <2>1, ServedIsShown
<1>7. FilesShown'
  <2>1. SomeWhole'
    BY <1>3 DEF SomeWhole, Whole, Serving
  <2>2. (TypeOK /\ BoardInvariant /\ SomeWhole => FilesShown)'
    BY ServedIsShown, PTL
  <2> QED BY <2>1, <2>2
<1>8. status' = [status EXCEPT ![w] = StampRuns(status[w], cmd.run, cmd.kind, rec.patch, rec.rev)]
  BY <1>1, <1>2, <1>3, <1>5 DEF MaterializeStatus, TypeOK
<1>9. /\ ShownRow(v) = state[v] /\ ShownRow(v)' = state[v]
      /\ ShownRuns(v) = status[v] /\ ShownRuns(v)' = status'[v]
  BY <1>3, <1>6, <1>7 DEF FilesShown
<1>10. ASSUME v = w PROVE PairShown(v)'
  <2> DEFINE file == status[w][cmd.run]
  <2>1. status[w] \in [Runs -> StatusFile] /\ file \in StatusFile /\ rec.rev \in Nat
    <3>1. status[w] \in [Runs -> StatusFile]
      BY <1>2 DEF TypeOK
    <3>2. rec.rev \in Nat
      BY RecordFacts
    <3> QED BY <1>4, <3>1, <3>2
  <2>2. status'[w][cmd.run] = StampStatus(file, cmd.kind, rec.patch, rec.rev)
    BY <1>2, <1>4, <1>8, <2>1, RunsAssumption DEF StampRuns, TypeOK
  <2>3. file.rev <= rec.rev
    BY <1>2, <1>3, <1>4 DEF StatusBehind
  <2>4. status'[w][cmd.run].st # Absent => status'[w][cmd.run].rev = rec.rev
    BY <2>1, <2>2, <2>3, StampedRev
  <2> QED BY <1>4, <1>9, <1>10, <2>4 DEF PairShown
<1>11. ASSUME v # w PROVE PairShown(v)'
  <2>1. status'[v] = status[v]
    BY <1>8, <1>11 DEF TypeOK
  <2>2. ShownRow(v)' = ShownRow(v) /\ ShownRuns(v)' = ShownRuns(v)
    BY <1>9, <2>1
  <2>3. PairShown(v)
    BY <1>1, <1>2, <1>11
  <2> QED BY <2>2, <2>3 DEF PairShown
<1> QED BY <1>10, <1>11

\* The row of a beat leaves the other views alone.
LEMMA BeatRowPairs ==
    ASSUME TypeOK, TypeOK', RevisionInvariant, BoardInvariant, BoardInvariant',
           NEW c \in Coords, BeatsRow(c)
    PROVE  /\ pc'[c] = "status" /\ job'[c].rec = job[c].rec
           /\ \A v \in Views : v # job[c].rec.cmd.view /\ PairShown(v) => PairShown(v)'
<1>1. PICK rec \in Record, bytes \in Nat : rec = job[c].rec /\ bytes = job[c].bytes
  BY JobReply DEF BeatsRow, WriteState, TypeOK, Serving, Job
<1>2. PICK cmd \in Commands : cmd = rec.cmd /\ cmd.view \in Views
  BY RecordFacts
<1> DEFINE w == cmd.view
<1>3. /\ Hand(c) /\ pc[c] = "state" /\ pc'[c] = "status"
      /\ MaterializeState(c, rec, bytes) /\ UNCHANGED <<status, journal>> /\ Transient(cmd)
  BY <1>1, <1>2, GotoFacts DEF BoardInvariant, BeatsRow, WriteState, Labels, Serving
<1>4. job'[c].rec = rec /\ \A v \in Views \ {w} : state'[v] = state[v]
  BY <1>2, <1>3, StateWritten
<1>5. FilesShown
  <2>1. SomeWhole
    BY <1>1, <1>2, <1>3 DEF SomeWhole, Whole, Serving
  <2> QED BY <2>1, ServedIsShown
<1>6. FilesShown'
  <2>1. SomeWhole'
    BY <1>2, <1>3, <1>4 DEF SomeWhole, Whole, Serving, Transient
  <2>2. (TypeOK /\ BoardInvariant /\ SomeWhole => FilesShown)'
    BY ServedIsShown, PTL
  <2> QED BY <2>1, <2>2
<1>7. ASSUME NEW v \in Views, v # w, PairShown(v) PROVE PairShown(v)'
  <2>1. ShownRow(v)' = ShownRow(v) /\ ShownRuns(v)' = ShownRuns(v)
    BY <1>3, <1>4, <1>5, <1>6, <1>7 DEF FilesShown
  <2> QED BY <1>7, <2>1 DEF PairShown
<1> QED BY <1>1, <1>2, <1>3, <1>4, <1>7

\* A half-written beat stays so until its status is written or its process dies.
LEMMA HalfBeatStep ==
    ASSUME ~StaleReclaim, TypeOK, RevisionInvariant, [Next]_vars, NEW d \in Coords,
           pc[d] = "status", Transient(job[d].rec.cmd)
    PROVE  (pc'[d] = pc[d] /\ job'[d] = job[d]) \/ BeatsStatus(d) \/ pc'[d] = "down"
<1>1. \A c \in Coords : c # d => pc[c] = "down"
  BY Alone DEF RevisionInvariant
<1>2. ASSUME UNCHANGED <<pc, job>> PROVE pc'[d] = pc[d] /\ job'[d] = job[d]
  BY <1>2
<1>3. CASE UNCHANGED vars \/ \E cmd \in Commands : Send(cmd)
  BY <1>2, <1>3 DEF vars, memory, Send
<1>4. ASSUME NEW c \in Coords, AcquireLease(c) PROVE FALSE
  <2>1. holder = d /\ d # NoCoord
    BY CoordinatorAssumption DEF RevisionInvariant, OneHolder
  <2> QED BY <1>4, <2>1 DEF AcquireLease, LeaseAvailable
<1>5. ASSUME NEW c \in Coords, Boot(c) \/ Serve(c) \/ Crash(c) \/ Shutdown(c) PROVE c = d
  <2>1. pc[c] # "down"
    BY <1>5 DEF Boot, Repair, ReplayRejected, ReplayState, ReplayStatus, FinishBoot, Serve,
                AnswerDuplicate, RejectBeat, Decide, Receive, AppendRecord, WriteState,
                WriteStatus, SkipCheckpoint, WriteCheckpoint, CollectGarbage, CollectNothing,
                Answer, Crash, Shutdown
  <2> QED BY <1>1, <2>1
<1>6. ASSUME Boot(d) \/ Shutdown(d) PROVE FALSE
  BY <1>6 DEF Boot, Repair, ReplayRejected, ReplayState, ReplayStatus, FinishBoot, Shutdown
<1>7. ASSUME Serve(d) PROVE BeatsStatus(d)
  BY <1>7 DEF Serve, AnswerDuplicate, RejectBeat, Decide, Receive, AppendRecord, WriteState,
              SkipCheckpoint, WriteCheckpoint, CollectGarbage, CollectNothing, Answer, BeatsStatus
<1>8. ASSUME Crash(d) PROVE pc'[d] = "down"
  BY <1>8, GotoFacts DEF Crash, Vanish, Labels
<1> QED BY <1>3, <1>4, <1>5, <1>6, <1>7, <1>8 DEF Next

\* A view is paired, or its beat is half written, until a crash tears the beat.
LEMMA PairStep ==
    ASSUME ~StaleReclaim, ~DiskFails, TypeOK, TypeOK', RevisionInvariant,
           BoardInvariant, BoardInvariant', PairInvariant, [Next]_vars, [~TornBeat]_vars
    PROVE  PairInvariant'
<1> SUFFICES ASSUME NEW v \in Views PROVE PairShown(v)' \/ HalfBeat(v)'
  BY DEF PairInvariant, HalfBeat
<1>1. PairShown(v) \/ HalfBeat(v)
  BY DEF PairInvariant, HalfBeat
<1>2. CASE HalfBeat(v)
  <2>1. PICK d \in Coords : /\ pc[d] = "status" /\ Transient(job[d].rec.cmd)
                            /\ job[d].rec.cmd.view = v
    BY <1>2 DEF HalfBeat
  <2>2. CASE pc'[d] = pc[d] /\ job'[d] = job[d]
    BY <2>1, <2>2 DEF HalfBeat, Transient
  <2>3. CASE BeatsStatus(d)
    BY <2>1, <2>3, BeatPairs
  <2>4. CASE pc'[d] = "down"
    BY <2>1, <2>4 DEF TornBeat, vars, memory
  <2> QED BY <2>1, <2>2, <2>3, <2>4, HalfBeatStep
<1>3. CASE PairShown(v)
  <2>1. CASE BoardShown
    BY <1>3, <2>1 DEF BoardShown, PairShown
  <2>2. ASSUME NEW c \in Coords, Appends(c) PROVE PairShown(v)'
    BY <1>3, <2>2, AppendPairs
  <2>3. ASSUME NEW c \in Coords, BeatsRow(c) PROVE PairShown(v)' \/ HalfBeat(v)'
    <3>1. /\ pc'[c] = "status" /\ job'[c].rec = job[c].rec
          /\ v # job[c].rec.cmd.view => PairShown(v)'
      BY <1>3, <2>3, BeatRowPairs
    <3>2. Transient(job[c].rec.cmd)
      BY <2>3 DEF BeatsRow
    <3> QED BY <3>1, <3>2 DEF HalfBeat, Transient
  <2>4. ASSUME NEW c \in Coords, BeatsStatus(c) PROVE PairShown(v)'
    BY <1>3, <2>4, BeatPairs
  <2> QED BY <2>1, <2>2, <2>3, <2>4, BoardCases
<1> QED BY <1>1, <1>2, <1>3

\* A new board is paired.
LEMMA InitPairs == Init => PairInvariant
<1> SUFFICES ASSUME Init, NEW v \in Views PROVE PairShown(v)
  BY DEF PairInvariant
<1>1. Pending(v) = {} /\ state[v] = NewState
  BY DEF Init, Pending
<1>2. ShownRow(v).row.run = None
  BY <1>1 DEF ShownRow, NewState, NewRow
<1> QED BY <1>2 DEF PairShown

\* What the readers' check relies on: a settled board is a paired board.
LEMMA SettledIsPaired ==
    ASSUME TypeOK, RevisionInvariant, BoardInvariant, PairInvariant
    PROVE  PairingHolds
<1> SUFFICES ASSUME NEW c \in Coords, pc[c] \in {"idle", "checkpoint", "gc", "reply"},
                    NEW v \in Views
             PROVE  LET run == state[v].row.run
                    IN  run # None /\ status[v][run].st # Absent =>
                              status[v][run].rev = state[v].rev
  BY DEF PairingHolds, Settled
<1>1. FilesShown
  <2>1. SomeWhole
    BY DEF SomeWhole, Whole, Serving
  <2> QED BY <2>1, ServedIsShown
<1>2. ShownRow(v) = state[v] /\ ShownRuns(v) = status[v]
  BY <1>1 DEF FilesShown
<1>3. ~HalfBeat(v)
  BY Alone DEF HalfBeat, RevisionInvariant
<1>4. PairShown(v)
  BY <1>3 DEF PairInvariant, HalfBeat
<1> QED BY <1>2, <1>4 DEF PairShown

\* The pairing invariant: as long as no live holder is overtaken, the disk replaces
\* files, clients put only new runs on a row, and no crash tears a beat, which no
\* journal repairs, a reader that finds two revisions has found a write in progress.
THEOREM PairingInvariant ==
    ASSUME ~StaleReclaim, ~DiskFails
    PROVE  Spec /\ RunsComeNew /\ BeatsEnd => []PairingHolds
<1>1. Init => TypeOK /\ RevisionInvariant /\ BoardInvariant /\ PairInvariant
  BY InitTyped, InitRevisions, InitBoard, InitPairs
<1>2. TypeOK /\ RevisionInvariant /\ BoardInvariant /\ [Next]_vars /\ [NewRunsOnly]_vars
         => (TypeOK /\ RevisionInvariant /\ BoardInvariant)'
  BY TypeStep, RevisionStep, BoardStep
<1>3. TypeOK /\ TypeOK' /\ RevisionInvariant /\ BoardInvariant /\ BoardInvariant'
         /\ PairInvariant /\ [Next]_vars /\ [~TornBeat]_vars => PairInvariant'
  BY PairStep
<1>4. TypeOK /\ RevisionInvariant /\ BoardInvariant /\ PairInvariant => PairingHolds
  BY SettledIsPaired
<1> QED BY <1>1, <1>2, <1>3, <1>4, PTL DEF Spec, RunsComeNew, BeatsEnd
=============================================================================
