------------------------ MODULE RunLifecycle_proofs ------------------------
(***************************************************************************)
(* What holds of a view's runs in every behaviour of RunLifecycle, for     *)
(* every set of runs, every classifier and every budget: a run is recorded *)
(* as over only when it is over, a stop is how a stopped run ends, and     *)
(* what is final stands.                                                   *)
(*                                                                         *)
(* The argument: a runner only ages, so what a command meant when it was   *)
(* sent it still means whenever it is decided, however late.  A final      *)
(* record is sent by a runner whose worker has closed, a reconcile for a   *)
(* runner that is gone, and neither state is ever left again.              *)
(***************************************************************************)
EXTENDS RunLifecycle, TLAPS

----------------------------------------------------------------------------
(* Rows and statuses, and what is decided of them.                         *)

\* What a decision relies on of a command that validateCommand accepted.
WellFormed(cmd) == cmd.kind \in Kinds /\ cmd.run \in RunRef /\ ValidCommand(cmd)

\* diffFields yields a sparse patch; against a missing status it is the status.
LEMMA DiffStatusType ==
    ASSUME NEW a \in Status \cup {Absent}, NEW b \in Status
    PROVE  DiffStatus(a, b) \in StatusPatch
BY DEF DiffStatus, Changed, Status, StatusPatch

\* Classifying keeps rows and statuses well formed.
LEMMA AutoStateType ==
    ASSUME NEW cls \in Classification
    PROVE  /\ \A old \in Row : ApplyAutoStateToViewState(old, cls) \in Row
           /\ \A st \in Status : ApplyAutoStateToStatus(st, cls) \in Status
<1>1. SemanticStateForAutoKind(cls.kind) \in SemanticState
  BY DEF SemanticStateForAutoKind, SemanticState, Classification, AutoKind
<1>2. cls \in AutoRef
  BY DEF AutoRef
<1>3. ASSUME NEW old \in Row PROVE ApplyAutoStateToViewState(old, cls) \in Row
  BY <1>1, <1>2 DEF ApplyAutoStateToViewState, Row
<1>4. ASSUME NEW st \in Status PROVE ApplyAutoStateToStatus(st, cls) \in Status
  BY <1>1, <1>2 DEF ApplyAutoStateToStatus, Status
<1> QED BY <1>3, <1>4

\* A finished status and the row projected from a status are well formed.
LEMMA ProjectionType ==
    /\ \A st \in Status, run \in RunRef, facts \in Payload("run_finalized") :
          FinalizeRun(st, run, facts) \in Status
    /\ \A st \in Status, run \in RunRef, old \in Row :
          ProjectViewState(st, run, old) \in Row
<1>1. ASSUME NEW st \in Status, NEW run \in RunRef, NEW facts \in Payload("run_finalized")
      PROVE  FinalizeRun(st, run, facts) \in Status
  <2>1. facts.asks \in BOOLEAN
    BY DEF Payload
  <2>2. (facts.asks \/ st.asks) \in BOOLEAN
    OBVIOUS
  <2>3. FinalizeSemanticState(facts, facts.asks \/ st.asks) \in SemanticState
    BY DEF FinalizeSemanticState, SemanticState
  <2> QED BY <2>2, <2>3 DEF FinalizeRun, Status, ProcessState
<1>2. ASSUME NEW st \in Status, NEW run \in RunRef, NEW old \in Row
      PROVE  ProjectViewState(st, run, old) \in Row
  BY DEF ProjectViewState, Status, Row
<1> QED BY <1>1, <1>2

\* undefined is not a value of any field.
LEMMA KeepIsNoValue ==
    Keep \notin SemanticState \cup ProcessState \cup BOOLEAN \cup RunRef \cup AutoRef
BY RunsAssumption, KeepAssumption DEF RunRef, AutoRef

\* Merging what diffFields found gives the row it was taken to.
LEMMA MergeDiffRow ==
    ASSUME NEW a \in Row, NEW b \in Row
    PROVE  MergeRow(a, DiffRow(a, b)) = b
<1>1. \A x, y : y # Keep => Patched(x, Changed(x, y)) = y
  BY DEF Patched, Changed
<1>2. b.sem # Keep /\ b.proc # Keep /\ b.run # Keep /\ b.auto # Keep /\ b.note # Keep
  BY KeepIsNoValue DEF Row
<1>3. MergeRow(a, DiffRow(a, b)) =
        [sem |-> b.sem, proc |-> b.proc, run |-> b.run, auto |-> b.auto, note |-> b.note]
  BY <1>1, <1>2 DEF MergeRow, DiffRow
<1> QED BY <1>3 DEF Row

\* The same for a status, and for the status a bootstrap creates.
LEMMA MergeDiffStatus ==
    ASSUME NEW b \in Status
    PROVE  /\ \A a \in Status : MergeStatus(a, DiffStatus(a, b)) = b
           /\ MergeStatus(BlankStatus, DiffStatus(Absent, b)) = b
<1>1. \A x, y : y # Keep => Patched(x, Changed(x, y)) = y /\ Patched(x, y) = y
  BY DEF Patched, Changed
<1>2. /\ b.sem # Keep /\ b.proc # Keep /\ b.auto # Keep /\ b.note # Keep
      /\ b.ended # Keep /\ b.asks # Keep
  BY KeepIsNoValue DEF Status
<1>3. b = [sem |-> b.sem, proc |-> b.proc, auto |-> b.auto, ended |-> b.ended,
           asks |-> b.asks, note |-> b.note]
  BY DEF Status
<1>4. ASSUME NEW a \in Status PROVE MergeStatus(a, DiffStatus(a, b)) = b
  <2>1. a # Absent
    BY AbsentAssumption
  <2> QED BY <1>1, <1>2, <1>3, <2>1 DEF MergeStatus, DiffStatus
<1>5. MergeStatus(BlankStatus, DiffStatus(Absent, b)) = b
  BY <1>1, <1>2, <1>3 DEF MergeStatus, DiffStatus
<1> QED BY <1>4, <1>5

\* A decision gives one of the reasons.
LEMMA DecisionReason ==
    ASSUME NEW cmd, cmd.kind \in Kinds, NEW old, NEW rev, NEW st
    PROVE  DecideStateTransition(cmd, old, rev, st).reason \in Reasons
<1> DEFINE Good(d) == d.reason \in Reasons
<1>1. /\ \A p, q : Good(Apply(p, q))
      /\ \A reason \in Reasons : Good(Reject(reason))
  BY DEF Apply, Reject, Reasons
<1>2. \A reason \in {"revision_conflict", "stale_run", "manual_fence", "busy", "no_change",
                      "source_not_allowed", "field_not_allowed"} : Good(Reject(reason))
  BY <1>1 DEF Reasons
<1> HIDE DEF Good
<1>3. /\ Good(DecideMarkCompleted(old)) /\ Good(DecideMarkHolding(cmd, old))
      /\ Good(DecideClearHolding(cmd, old)) /\ Good(DecideAdoptSession(old))
      /\ Good(DecidePlanReady(cmd, old))
  BY <1>1, <1>2 DEF DecideMarkCompleted, DecideMarkHolding, DecideClearHolding,
     DecideAdoptSession, DecidePlanReady
<1>4. /\ Good(DecideAutoState(cmd, old, st)) /\ Good(DecideRunFinalized(cmd, old, st))
      /\ Good(DecideRunStarted(cmd, old, st)) /\ Good(DecideRunProgress(cmd, old, st))
  BY <1>1, <1>2 DEF DecideAutoState, DecideRunFinalized, DecideRunStarted, DecideRunProgress
<1>5. Good(DecideReconcileFinalize(cmd, old, st)) /\ Good(DecidePatchFields(cmd, old, st))
  BY <1>1, <1>2 DEF DecideReconcileFinalize, DecidePatchFields
<1>6. /\ Good(DecideMarkQueued(cmd)) /\ Good(DecideFollowupStarted(cmd, old, st))
      /\ Good(DecideHostRunFailed(st)) /\ Good(DecideArchiveView)
      /\ Good(DecideSyncForeground(cmd, old))
  BY <1>1 DEF DecideMarkQueued, DecideFollowupStarted, DecideHostRunFailed, DecideArchiveView,
     DecideSyncForeground
<1>7. Good(DecideKind(cmd, old, st))
  BY <1>3, <1>4, <1>5, <1>6 DEF DecideKind, Kinds
<1>8. Good(DecideStateTransition(cmd, old, rev, st))
  BY <1>2, <1>7 DEF DecideStateTransition
<1> QED BY <1>8 DEF Good

----------------------------------------------------------------------------
(* The inductive invariant.                                                *)

Active == {"queued", "working"}

\* Where a runner may be once its worker has closed or could not be launched.
Past == {"closing", "heuristic", "model", "summary", "plan", "drain", "exit",
         "leaving", "gone"}

SentKinds == {"mark_completed", "mark_holding", "clear_holding",
              "auto_state_classified", "run_finalized", "mark_queued",
              "run_started", "run_progress", "reconcile_finalize",
              "archive_view", "plan_ready", "followup_started", "patch_fields"}

\* What a command on its way carries, and what it means of its run: a final
\* record that the worker has closed, with the stop its runner saw, a
\* reconcile that the runner is gone.
WellSent(cmd) ==
    /\ cmd = Command(cmd.from, cmd.kind, cmd.source, cmd.run, cmd.payload)
    /\ cmd.from \in RunRef /\ cmd.run \in RunRef /\ cmd.kind \in SentKinds
    /\ cmd.kind \in {"mark_completed", "mark_holding", "clear_holding", "archive_view"} =>
          cmd.payload = None
    /\ cmd.kind = "auto_state_classified" =>
          \E cls \in Classification : cmd.payload = [classification |-> cls]
    /\ cmd.kind = "run_finalized" =>
          /\ cmd.run \in Runs /\ cmd.payload \in Payload("run_finalized")
          /\ phase[cmd.run] \in Past
          /\ stopping[cmd.run] # "none" => cmd.payload.stoppedByUser
    /\ cmd.kind = "mark_queued" => \E n \in Runs : cmd.payload = [runId |-> n]
    /\ cmd.kind \in {"run_started", "run_progress"} =>
          cmd.run \in Runs /\ cmd.payload = [status |-> BootStatus]
    /\ cmd.kind = "reconcile_finalize" =>
          /\ cmd.run \in Runs /\ phase[cmd.run] = "gone"
          /\ \E p \in BOOLEAN : cmd.payload = [project |-> p, sem |-> "failed"]
    /\ cmd.kind = "plan_ready" => \E n \in Runs : cmd.payload = [runId |-> n]
    /\ cmd.kind = "followup_started" =>
          cmd.run = None /\ \E n \in Runs : cmd.payload = [newRunId |-> n, status |-> QueuedStatus]
    /\ cmd.kind = "patch_fields" =>
          \E n \in Runs :
             cmd.payload = [state |-> {"summary", "latestAssistantPreview"},
                            status |-> {"summary"}, note |-> n, differs |-> TRUE]

\* Every command on its way is such a one.
SentInvariant == \A cmd \in sent : WellSent(cmd)

\* A row at rest does not look active, unless it has never had a run.
RowInvariant == row.proc = "exited" => row.sem \notin Active \/ row.run = None

\* A status that has ended is at rest; it has ended only once its runner is
\* past its work, and as stopped or failed when the runner had seen a stop.
Rests(st) ==
    /\ st.ended <=> st.proc = "exited"
    /\ st.proc = "exited" => st.sem \notin Active
StatusInvariant ==
    \A r \in Runs : status[r] # Absent =>
        /\ Rests(status[r])
        /\ status[r].ended =>
             /\ phase[r] \in Past
             /\ stopping[r] # "none" => status[r].sem \in {"stopped", "failed"}

\* Only a working runner has an agent, unless it died and left it behind; up
\* to its end it holds the status it booted with; no stop stays latched.
RunnerInvariant ==
    \A r \in Runs :
        /\ phase[r] \notin {"working", "gone"} => ~AgentRuns(r)
        /\ phase[r] \notin Past => mem[r] = BootStatus
        /\ phase[r] \in {"working", "failing"} => stopping[r] # "latched"

\* reconcile only looks at runs whose runner is gone.
SeenInvariant == seen # None => phase[seen.run] = "gone"

----------------------------------------------------------------------------
(* What the coordinator's decision does to the two files.                  *)

\* The two files, the status a command is bound to, what materializing a
\* patch makes of a status, the decision on a command, and its application.
FilesTyped == row \in Row /\ status \in [Runs -> Status \cup {Absent}]
StatusAfter(st, kind, patch) == StampStatus([st |-> st, rev |-> 0], kind, patch, 1).st
Applied(cmd) ==
    /\ Decision(cmd) = DecideKind(cmd, row, BoundStatus(StatusRun(cmd, row)))
    /\ Decision(cmd).action = "apply"
    /\ ~StaleRun(cmd, row)
    /\ row' = MergeRow(row, Decision(cmd).row)
    /\ status' = [r \in Runs |->
                    IF r = StatusRun(cmd, row)
                    THEN StatusAfter(status[r], cmd.kind, Decision(cmd).status)
                    ELSE status[r]]

\* The run a command of this module is bound to.
LEMMA BoundToRun ==
    ASSUME row \in Row, NEW cmd, WellSent(cmd)
    PROVE  /\ StatusRun(cmd, row) \in RunRef
           /\ BoundRun(cmd, StatusRun(cmd, row), row) = StatusRun(cmd, row)
<1>1. row.run \in RunRef /\ cmd.run \in RunRef
  BY DEF Row, WellSent
<1>2. CASE cmd.kind = "followup_started"
  <2>1. PICK n \in Runs : cmd.run = None /\ cmd.payload = [newRunId |-> n, status |-> QueuedStatus]
    BY <1>2 DEF WellSent
  <2>2. StatusRun(cmd, row) = n
    BY <1>2, <2>1 DEF StatusRun
  <2> QED BY <2>1, <2>2, RunsAssumption DEF BoundRun, RunRef
<1>3. CASE cmd.kind # "followup_started"
  BY <1>1, <1>3 DEF StatusRun, BoundRun
<1> QED BY <1>2, <1>3

\* What materializing a patch makes of a status that is behind.
LEMMA StatusAfterIs ==
    ASSUME NEW st \in Status \cup {Absent}, NEW kind
    PROVE  /\ StatusAfter(st, kind, NoPatch) = st
           /\ \A b \in Status :
                 st # Absent \/ kind \in StatusBootstrapKinds =>
                    StatusAfter(st, kind, DiffStatus(st, b)) = b
           /\ kind \notin StatusBootstrapKinds =>
                 StatusAfter(st, kind, ClearAutoState) =
                    IF st = Absent THEN Absent ELSE [st EXCEPT !.auto = None]
<1>1. StatusAfter(st, kind, NoPatch) = st
  BY DEF StatusAfter, StampStatus
<1>2. ASSUME NEW b \in Status, st # Absent \/ kind \in StatusBootstrapKinds
      PROVE  StatusAfter(st, kind, DiffStatus(st, b)) = b
  <2>1. DiffStatus(st, b) # NoPatch
    BY DiffStatusType, KeepAssumption
  <2>2. CASE st = Absent
    BY <1>2, <2>1, <2>2, MergeDiffStatus DEF StatusAfter, StampStatus
  <2>3. CASE st # Absent
    BY <2>1, <2>3, MergeDiffStatus DEF StatusAfter, StampStatus
  <2> QED BY <2>2, <2>3
<1>3. ASSUME kind \notin StatusBootstrapKinds
      PROVE  StatusAfter(st, kind, ClearAutoState) =
                IF st = Absent THEN Absent ELSE [st EXCEPT !.auto = None]
  <2>1. ClearAutoState \in StatusPatch
    BY DEF ClearAutoState, KeepStatus, StatusPatch, AutoRef
  <2>2. ClearAutoState # NoPatch
    BY <2>1, KeepAssumption
  <2>3. CASE st = Absent
    BY <1>3, <2>2, <2>3 DEF StatusAfter, StampStatus
  <2>4. CASE st # Absent
    <3>1. StatusAfter(st, kind, ClearAutoState) = MergeStatus(st, ClearAutoState)
      BY <2>2, <2>4 DEF StatusAfter, StampStatus
    <3>2. MergeStatus(st, ClearAutoState) = [st EXCEPT !.auto = None]
      BY <2>4, RunsAssumption DEF MergeStatus, Patched, ClearAutoState, KeepStatus, Status
    <3> QED BY <2>4, <3>1, <3>2
  <2> QED BY <2>3, <2>4
<1> QED BY <1>1, <1>2, <1>3

\* A decision leaves the files alone, or merges its patches into the row and
\* the status of the run the command is bound to.
LEMMA DecidedFiles ==
    ASSUME FilesTyped, NEW cmd, WellSent(cmd), Decide(cmd)
    PROVE  UNCHANGED files \/ Applied(cmd)
<1> DEFINE run == StatusRun(cmd, row)
           at == [r \in Runs |-> [st |-> status[r], rev |-> 0]]
           d == Decision(cmd)
<1>1. run \in RunRef /\ BoundRun(cmd, run, row) = run
  BY BoundToRun DEF FilesTyped
<1>3. \/ UNCHANGED files
      \/ /\ d.action = "apply"
         /\ row' = StampState([row |-> row, rev |-> 0], d.row, 1).row
         /\ status' = [r \in Runs |-> StampRuns(at, run, cmd.kind, d.status, 1)[r].st]
  BY <1>1 DEF Decide
<1>4. CASE d.action = "apply"
  <2>1. StampState([row |-> row, rev |-> 0], d.row, 1).row = MergeRow(row, d.row)
    BY DEF StampState
  <2>2. \A r \in Runs : StampRuns(at, run, cmd.kind, d.status, 1)[r].st =
           IF r = run THEN StatusAfter(status[r], cmd.kind, d.status) ELSE status[r]
    <3>1. CASE run = None
      BY <3>1, RunsAssumption DEF StampRuns
    <3>2. CASE run # None
      BY <1>1, <3>2 DEF StampRuns, StatusAfter, RunRef
    <3> QED BY <3>1, <3>2
  <2>3. /\ d = DecideKind(cmd, row, BoundStatus(run))
        /\ ~StaleRun(cmd, row)
    BY <1>4 DEF Decision, DecideStateTransition, Reject
  <2>4. [r \in Runs |-> StampRuns(at, run, cmd.kind, d.status, 1)[r].st] =
           [r \in Runs |-> IF r = run THEN StatusAfter(status[r], cmd.kind, d.status)
                           ELSE status[r]]
    BY <2>2
  <2> HIDE DEF run, at, d
  <2> QED BY <1>3, <1>4, <2>1, <2>3, <2>4 DEF run, d, Applied
<1> QED BY <1>3, <1>4

\* A status that a decision may reclassify but neither ends nor reopens.
SameLife(st, after) ==
    /\ st = Absent <=> after = Absent
    /\ st # Absent =>
          /\ after.ended = st.ended /\ after.proc = st.proc
          /\ after.sem # st.sem =>
                st.proc # "alive" /\ st.sem \notin {"failed", "stopped"} /\ after.sem \notin Active

\* The decisions that start no run and end none.
JudgingKinds == {"mark_completed", "mark_holding", "clear_holding", "archive_view",
                 "auto_state_classified", "plan_ready", "patch_fields"}
Judgement(cmd) ==
    /\ row'.proc = "alive" => row.proc = "alive" /\ row'.run = row.run
    /\ \/ row'.sem \notin Active
       \/ row'.sem = row.sem /\ row'.proc = row.proc /\ row'.run = row.run
    /\ \A r \in Runs : SameLife(status[r], status'[r])

\* A launch, the announcement of a run, a beat, a final record, a reconcile.
Queueing(cmd) ==
    /\ row'.proc = "alive" /\ row'.run = cmd.payload.runId
    /\ UNCHANGED status

Starting(cmd) ==
    /\ row'.proc = "alive" /\ row'.run = StatusRun(cmd, row)
    /\ \E st \in {BootStatus, QueuedStatus} :
          status' = [status EXCEPT ![StatusRun(cmd, row)] = st]

Beating(cmd) ==
    /\ row.proc = "alive" /\ row.run = cmd.run
    /\ row'.proc = "alive" /\ row'.run = cmd.run
    /\ status' = [status EXCEPT ![cmd.run] = BootStatus]

Finalizing(cmd) ==
    /\ row.proc = "alive" /\ row'.proc = "exited" /\ row'.sem \notin Active
    /\ \E st \in Status :
          /\ status' = [status EXCEPT ![cmd.run] = st]
          /\ st.ended /\ st.proc = "exited" /\ st.sem \notin Active
          /\ cmd.payload.stoppedByUser => st.sem = "stopped"

Reconciling(cmd) ==
    /\ row.proc = "alive"
    /\ \/ /\ status[cmd.run] # Absent /\ UNCHANGED status
          /\ row'.run = cmd.run
          /\ row'.proc = status[cmd.run].proc /\ row'.sem = status[cmd.run].sem
       \/ /\ row'.proc = "exited" /\ row'.sem \notin Active
          /\ \/ UNCHANGED status
             \/ \E st \in Status :
                   /\ status' = [status EXCEPT ![cmd.run] = st]
                   /\ st.ended /\ st.proc = "exited" /\ st.sem = "failed"

\* What a decision may come to.
Outcome(cmd) ==
    \/ UNCHANGED files
    \/ cmd.kind \in JudgingKinds /\ Judgement(cmd)
    \/ cmd.kind = "mark_queued" /\ Queueing(cmd)
    \/ cmd.kind \in {"run_started", "followup_started"} /\ Starting(cmd)
    \/ cmd.kind = "run_progress" /\ Beating(cmd)
    \/ cmd.kind = "run_finalized" /\ Finalizing(cmd)
    \/ cmd.kind = "reconcile_finalize" /\ Reconciling(cmd)

\* Merging a verdict, and the verdict an archived row gets.
LEMMA VerdictMerged ==
    ASSUME row \in Row, NEW sem \in SemanticState, NEW patch,
           patch \in {Verdict(sem), [Verdict(sem) EXCEPT !.note = None]}
    PROVE  \E note \in RunRef :
              MergeRow(row, patch) =
                 [sem |-> sem, proc |-> "exited", run |-> row.run, auto |-> None, note |-> note]
<1>1. sem # Keep /\ "exited" # Keep /\ None # Keep
  BY KeepIsNoValue, RunsAssumption DEF ProcessState
<1>2. /\ patch.sem = sem /\ patch.proc = "exited" /\ patch.run = Keep /\ patch.auto = None
      /\ patch.note \in {Keep, None}
  BY DEF Verdict, KeepRow
<1>3. Patched(row.note, patch.note) \in RunRef
  BY <1>2 DEF Patched, Row, RunRef
<1> QED BY <1>1, <1>2, <1>3 DEF MergeRow, Patched

\* A user's verdict closes the row and clears a classification.
LEMMA VerdictOutcome ==
    ASSUME FilesTyped, NEW cmd, WellSent(cmd), Applied(cmd),
           cmd.kind \in {"mark_completed", "mark_holding", "clear_holding", "archive_view"}
    PROVE  /\ row' \in Row /\ status' \in [Runs -> Status \cup {Absent}]
           /\ Judgement(cmd)
<1> DEFINE d == Decision(cmd)
<1>1. \/ \E sem \in {"completed", "holding", "idle"} : d = Apply(Verdict(sem), ClearAutoState)
      \/ d = Apply([Verdict("stopped") EXCEPT !.note = None], NoPatch)
  <2>1. \/ cmd.kind = "mark_completed" /\ d = DecideMarkCompleted(row)
        \/ cmd.kind = "mark_holding" /\ d = DecideMarkHolding(cmd, row)
        \/ cmd.kind = "clear_holding" /\ d = DecideClearHolding(cmd, row)
        \/ cmd.kind = "archive_view" /\ d = DecideArchiveView
    BY Zenon DEF DecideKind, Applied
  <2>2. d.action = "apply"
    BY DEF Applied
  <2> QED BY <2>1, <2>2 DEF DecideMarkCompleted, DecideMarkHolding, DecideClearHolding,
                            DecideArchiveView, Reject
<1>2. \E sem \in {"completed", "holding", "idle", "stopped"}, note \in RunRef :
         row' = [sem |-> sem, proc |-> "exited", run |-> row.run, auto |-> None, note |-> note]
  <2>1. {"completed", "holding", "idle", "stopped"} \subseteq SemanticState
    BY DEF SemanticState
  <2>2. PICK sem \in {"completed", "holding", "idle", "stopped"} :
           d.row \in {Verdict(sem), [Verdict(sem) EXCEPT !.note = None]}
    BY <1>1 DEF Apply
  <2> QED BY <2>1, <2>2, VerdictMerged DEF FilesTyped, Applied
<1>3. row' \in Row /\ row'.proc = "exited" /\ row'.sem \notin Active
  BY <1>2 DEF Row, SemanticState, ProcessState, AutoRef, RunRef, Active, FilesTyped
<1>4. ASSUME NEW r \in Runs
      PROVE  status'[r] \in Status \cup {Absent} /\ SameLife(status[r], status'[r])
  <2>1. d.status \in {ClearAutoState, NoPatch}
    BY <1>1 DEF Apply
  <2>2. status[r] \in Status \cup {Absent}
    BY DEF FilesTyped
  <2>3. cmd.kind \notin StatusBootstrapKinds
    BY DEF StatusBootstrapKinds
  <2>4. \/ status'[r] = status[r]
        \/ status[r] # Absent /\ status'[r] = [status[r] EXCEPT !.auto = None]
    BY <2>1, <2>2, <2>3, StatusAfterIs DEF Applied
  <2>5. status[r] # Absent => /\ [status[r] EXCEPT !.auto = None] \in Status
                              /\ [status[r] EXCEPT !.auto = None].sem = status[r].sem
                              /\ [status[r] EXCEPT !.auto = None].proc = status[r].proc
                              /\ [status[r] EXCEPT !.auto = None].ended = status[r].ended
    BY <2>2 DEF Status, AutoRef
  <2> QED BY <2>2, <2>4, <2>5, AbsentAssumption DEF SameLife
<1>5. status' \in [Runs -> Status \cup {Absent}]
  BY <1>4 DEF Applied
<1> QED BY <1>3, <1>4, <1>5 DEF Judgement

\* A decision that patches no status leaves them all as they are.
LEMMA NoStatusPatch ==
    ASSUME FilesTyped, NEW cmd, Applied(cmd), Decision(cmd).status = NoPatch
    PROVE  status' = status
<1>1. \A r \in Runs : status[r] \in Status \cup {Absent}
  BY DEF FilesTyped
<1>2. \A r \in Runs : status'[r] = status[r]
  BY <1>1, StatusAfterIs DEF Applied
<1> QED BY <1>2 DEF Applied, FilesTyped

\* The status a decision computes is what the status becomes.
LEMMA StatusPatchApplied ==
    ASSUME FilesTyped, NEW cmd, Applied(cmd), NEW run \in Runs, run = StatusRun(cmd, row),
           NEW st \in Status, Decision(cmd).status = DiffStatus(status[run], st),
           status[run] # Absent \/ cmd.kind \in StatusBootstrapKinds
    PROVE  status' = [status EXCEPT ![run] = st]
<1>1. status[run] \in Status \cup {Absent}
  BY DEF FilesTyped
<1>2. StatusAfter(status[run], cmd.kind, DiffStatus(status[run], st)) = st
  BY <1>1, StatusAfterIs
<1> QED BY <1>2 DEF Applied, FilesTyped

\* A classification settles a row at rest, and its run's status.
LEMMA ClassifiedOutcome ==
    ASSUME FilesTyped, NEW cmd, WellSent(cmd), Applied(cmd), cmd.kind = "auto_state_classified"
    PROVE  /\ row' \in Row /\ status' \in [Runs -> Status \cup {Absent}]
           /\ Judgement(cmd)
<1> DEFINE run == StatusRun(cmd, row)
           st == BoundStatus(run)
           d == Decision(cmd)
<1>1. PICK cls \in Classification : cmd.payload = [classification |-> cls]
  BY DEF WellSent
<1> DEFINE newRow == ApplyAutoStateToViewState(row, cls)
           newStatus == IF st = Absent THEN Absent ELSE ApplyAutoStateToStatus(st, cls)
<1>2. d = DecideAutoState(cmd, row, st) /\ d.action = "apply"
  BY Zenon DEF DecideKind, Applied
<1>3. d = Apply(DiffRow(row, newRow),
                IF newStatus = st THEN NoPatch ELSE DiffStatus(st, newStatus))
  BY <1>1, <1>2 DEF DecideAutoState, Reject
<1>4. run \in RunRef
  BY BoundToRun DEF FilesTyped
<1>5. st \in Status \cup {Absent}
  BY <1>4 DEF BoundStatus, RunRef, FilesTyped
<1>6. newRow \in Row /\ (st # Absent => newStatus \in Status)
  BY <1>5, AutoStateType DEF FilesTyped
<1>7. row' = newRow
  BY <1>3, <1>6, MergeDiffRow DEF Applied, Apply, FilesTyped
<1>8. SemanticStateForAutoKind(cls.kind) \notin Active
  BY DEF SemanticStateForAutoKind, Active, Classification, AutoKind
<1>9. newRow = row \/ newRow = [row EXCEPT !.sem = SemanticStateForAutoKind(cls.kind), !.auto = cls]
  BY DEF ApplyAutoStateToViewState
<1>10. /\ row'.proc = row.proc /\ row'.run = row.run
       /\ row'.sem = row.sem \/ row'.sem \notin Active
  BY <1>7, <1>8, <1>9 DEF FilesTyped, Row
<1>11. SameLife(st, newStatus)
  <2>1. CASE st = Absent
    BY <2>1 DEF SameLife
  <2>2. CASE st # Absent
    <3>1. newStatus # Absent
      BY <1>6, <2>2, AbsentAssumption
    <3>2. st \in Status
      BY <1>5, <2>2
    <3>3. newStatus = ApplyAutoStateToStatus(st, cls)
      BY <2>2
    <3> HIDE DEF newStatus, st
    <3> QED BY <1>8, <2>2, <3>1, <3>2, <3>3 DEF SameLife, ApplyAutoStateToStatus, AcceptsAutoState, Status
  <2> QED BY <2>1, <2>2
<1>12. \A r \in Runs : status'[r] = IF r = run THEN newStatus ELSE status[r]
  <2>1. CASE newStatus = st
    <3>1. d.status = NoPatch
      BY <1>3, <2>1 DEF Apply
    <3>2. status' = status
      BY <3>1, NoStatusPatch
    <3>3. run \in Runs => status[run] = newStatus
      BY <2>1, RunsAssumption DEF BoundStatus
    <3> QED BY <3>2, <3>3
  <2>2. CASE newStatus # st
    <3>1. st # Absent
      BY <2>2
    <3>2. run \in Runs /\ st = status[run]
      BY <1>4, <3>1 DEF BoundStatus, RunRef
    <3>3. d.status = DiffStatus(status[run], newStatus)
      BY <1>3, <2>2, <3>2 DEF Apply
    <3>4. newStatus \in Status
      BY <1>6, <3>1
    <3> HIDE DEF newStatus, run, st, d
    <3>5. status' = [status EXCEPT ![run] = newStatus]
      BY <3>1, <3>2, <3>3, <3>4, StatusPatchApplied DEF run, d
    <3> QED BY <3>2, <3>5 DEF FilesTyped
  <2> QED BY <2>1, <2>2
<1>13. ASSUME NEW r \in Runs
       PROVE  status'[r] \in Status \cup {Absent} /\ SameLife(status[r], status'[r])
  <2>1. CASE r = run
    <3>1. st = status[r]
      BY <2>1, RunsAssumption DEF BoundStatus
    <3>2. newStatus \in Status \cup {Absent}
      BY <1>6
    <3> HIDE DEF newStatus, run, st
    <3> QED BY <1>11, <1>12, <2>1, <3>1, <3>2
  <2>2. CASE r # run
    <3>1. SameLife(status[r], status[r])
      BY DEF SameLife
    <3> QED BY <1>12, <2>2, <3>1 DEF FilesTyped
  <2> QED BY <2>1, <2>2
<1>14. status' \in [Runs -> Status \cup {Absent}]
  BY <1>13 DEF Applied
<1> QED BY <1>6, <1>7, <1>10, <1>13, <1>14 DEF Judgement

\* A plan that is ready asks for input on a row at rest.
LEMMA PlanReadyOutcome ==
    ASSUME FilesTyped, NEW cmd, WellSent(cmd), Applied(cmd), cmd.kind = "plan_ready"
    PROVE  /\ row' \in Row /\ status' \in [Runs -> Status \cup {Absent}]
           /\ Judgement(cmd)
<1> DEFINE d == Decision(cmd)
<1>1. PICK n \in Runs : cmd.payload = [runId |-> n]
  BY DEF WellSent
<1>2. d = DecidePlanReady(cmd, row) /\ d.action = "apply"
  BY Zenon DEF DecideKind, Applied
<1>3. d = Apply([KeepRow EXCEPT !.sem = "needs_input", !.proc = "exited", !.run = n,
                                !.note = None], NoPatch)
  BY <1>1, <1>2 DEF DecidePlanReady, Reject
<1>4. /\ d.row.sem = "needs_input" /\ d.row.proc = "exited" /\ d.row.run = n
      /\ d.row.auto = Keep /\ d.row.note = None /\ d.status = NoPatch
  <2> DEFINE patch == [KeepRow EXCEPT !.sem = "needs_input", !.proc = "exited", !.run = n,
                                      !.note = None]
  <2>1. /\ patch.sem = "needs_input" /\ patch.proc = "exited" /\ patch.run = n
        /\ patch.auto = Keep /\ patch.note = None
    BY DEF KeepRow
  <2>2. d.row = patch /\ d.status = NoPatch
    BY <1>3 DEF Apply
  <2> HIDE DEF patch, d
  <2> QED BY <2>1, <2>2
<1>5. status' = status
  BY <1>4, NoStatusPatch
<1>6. /\ "needs_input" # Keep /\ "exited" # Keep /\ n # Keep /\ None # Keep
  BY KeepIsNoValue, RunsAssumption DEF SemanticState, ProcessState
<1>7. row' = [sem |-> "needs_input", proc |-> "exited", run |-> n, auto |-> row.auto,
              note |-> None]
  BY <1>4, <1>6 DEF Applied, MergeRow, Patched
<1>8. row' \in Row /\ row'.proc = "exited" /\ row'.sem \notin Active
  BY <1>7 DEF Row, SemanticState, ProcessState, RunRef, Active, FilesTyped
<1> QED BY <1>5, <1>8 DEF Judgement, SameLife, FilesTyped

\* A summary changes nothing that matters to the life of a run.
LEMMA SummaryOutcome ==
    ASSUME FilesTyped, NEW cmd, WellSent(cmd), Applied(cmd), cmd.kind = "patch_fields"
    PROVE  /\ row' \in Row /\ status' \in [Runs -> Status \cup {Absent}]
           /\ Judgement(cmd)
<1> DEFINE run == StatusRun(cmd, row)
           st == BoundStatus(run)
           d == Decision(cmd)
<1>1. PICK n \in Runs : cmd.payload = [state |-> {"summary", "latestAssistantPreview"},
                                       status |-> {"summary"}, note |-> n, differs |-> TRUE]
  BY DEF WellSent
<1> DEFINE newRow == [row EXCEPT !.note = n]
           newStatus == IF st # Absent THEN [st EXCEPT !.note = n] ELSE st
<1>2. d = DecidePatchFields(cmd, row, st) /\ d.action = "apply"
  BY Zenon DEF DecideKind, Applied
<1>3. d = Apply(DiffRow(row, newRow), IF st # Absent THEN DiffStatus(st, newStatus) ELSE NoPatch)
  <2>1. /\ "summary" \in cmd.payload.state /\ "summary" \in cmd.payload.status
        /\ cmd.payload.note = n /\ cmd.payload.status # {}
    BY <1>1
  <2> QED BY <1>2, <2>1 DEF DecidePatchFields, Reject
<1>4. run \in RunRef
  BY BoundToRun DEF FilesTyped
<1>5. st \in Status \cup {Absent}
  BY <1>4 DEF BoundStatus, RunRef, FilesTyped
<1>6. newRow \in Row /\ (st # Absent => newStatus \in Status)
  BY <1>5 DEF Row, Status, RunRef, FilesTyped
<1>7. row' = newRow
  BY <1>3, <1>6, MergeDiffRow DEF Applied, Apply, FilesTyped
<1>8. row'.proc = row.proc /\ row'.run = row.run /\ row'.sem = row.sem
  BY <1>7 DEF FilesTyped, Row
<1>9. SameLife(st, newStatus)
  <2>1. CASE st = Absent
    BY <2>1 DEF SameLife
  <2>2. CASE st # Absent
    <3>1. newStatus # Absent
      BY <1>6, <2>2, AbsentAssumption
    <3>2. st \in Status /\ newStatus = [st EXCEPT !.note = n]
      BY <1>5, <2>2
    <3> HIDE DEF newStatus, st
    <3> QED BY <2>2, <3>1, <3>2 DEF SameLife, Status
  <2> QED BY <2>1, <2>2
<1>10. \A r \in Runs : status'[r] = IF r = run THEN newStatus ELSE status[r]
  <2>1. CASE st = Absent
    <3>1. d.status = NoPatch
      BY <1>3, <2>1 DEF Apply
    <3>2. status' = status
      BY <3>1, NoStatusPatch
    <3>3. run \in Runs => status[run] = newStatus
      BY <2>1, RunsAssumption DEF BoundStatus
    <3> QED BY <3>2, <3>3
  <2>2. CASE st # Absent
    <3>1. run \in Runs /\ st = status[run]
      BY <1>4, <2>2 DEF BoundStatus, RunRef
    <3>2. d.status = DiffStatus(status[run], newStatus)
      BY <1>3, <2>2, <3>1 DEF Apply
    <3>3. newStatus \in Status
      BY <1>6, <2>2
    <3> HIDE DEF newStatus, run, st, d
    <3>4. status' = [status EXCEPT ![run] = newStatus]
      BY <2>2, <3>1, <3>2, <3>3, StatusPatchApplied DEF run, d
    <3> QED BY <3>1, <3>4 DEF FilesTyped
  <2> QED BY <2>1, <2>2
<1>11. ASSUME NEW r \in Runs
       PROVE  status'[r] \in Status \cup {Absent} /\ SameLife(status[r], status'[r])
  <2>1. CASE r = run
    <3>1. st = status[r]
      BY <2>1, RunsAssumption DEF BoundStatus
    <3>2. newStatus \in Status \cup {Absent}
      BY <1>6
    <3> HIDE DEF newStatus, run, st
    <3> QED BY <1>9, <1>10, <2>1, <3>1, <3>2
  <2>2. CASE r # run
    <3>1. SameLife(status[r], status[r])
      BY DEF SameLife
    <3> QED BY <1>10, <2>2, <3>1 DEF FilesTyped
  <2> QED BY <2>1, <2>2
<1>12. status' \in [Runs -> Status \cup {Absent}]
  BY <1>11 DEF Applied
<1> QED BY <1>6, <1>7, <1>8, <1>11, <1>12 DEF Judgement

\* A launch pins the row on its run before the run has a status.
LEMMA QueuedOutcome ==
    ASSUME FilesTyped, NEW cmd, WellSent(cmd), Applied(cmd), cmd.kind = "mark_queued"
    PROVE  /\ row' \in Row /\ status' \in [Runs -> Status \cup {Absent}]
           /\ Queueing(cmd)
<1> DEFINE d == Decision(cmd)
<1>1. PICK n \in Runs : cmd.payload = [runId |-> n]
  BY DEF WellSent
<1>2. d = DecideMarkQueued(cmd)
  BY Zenon DEF DecideKind, Applied
<1>3. /\ d.row = [sem |-> "queued", proc |-> "alive", run |-> n, auto |-> None, note |-> None]
      /\ d.status = NoPatch
  BY <1>1, <1>2 DEF DecideMarkQueued, Apply
<1>4. status' = status
  BY <1>3, NoStatusPatch
<1>5. "queued" # Keep /\ "alive" # Keep /\ n # Keep /\ None # Keep
  BY KeepIsNoValue, RunsAssumption DEF SemanticState, ProcessState
<1>6. row' = [sem |-> "queued", proc |-> "alive", run |-> n, auto |-> None, note |-> None]
  BY <1>3, <1>5 DEF Applied, MergeRow, Patched
<1>7. row' \in Row
  BY <1>6 DEF Row, SemanticState, ProcessState, RunRef, AutoRef
<1> QED BY <1>1, <1>4, <1>6, <1>7 DEF Queueing, FilesTyped

\* The statuses a runner announces.
LEMMA BootStatuses ==
    /\ BootStatus \in Status /\ QueuedStatus \in Status
    /\ ~BootStatus.ended /\ BootStatus.proc = "alive" /\ BootStatus.sem = "working"
    /\ ~QueuedStatus.ended /\ QueuedStatus.proc = "alive"
BY DEF BootStatus, QueuedStatus, BlankStatus, Status, SemanticState, ProcessState, AutoRef, RunRef

\* An announcement pins the row on its run and opens the run's status.
LEMMA StartedOutcome ==
    ASSUME FilesTyped, NEW cmd, WellSent(cmd), Applied(cmd),
           cmd.kind \in {"run_started", "followup_started"}
    PROVE  /\ row' \in Row /\ status' \in [Runs -> Status \cup {Absent}]
           /\ StatusRun(cmd, row) \in Runs
           /\ Starting(cmd)
<1> DEFINE run == StatusRun(cmd, row)
           d == Decision(cmd)
<1>0. cmd.kind \in StatusBootstrapKinds /\ row \in Row
  BY DEF StatusBootstrapKinds, FilesTyped
<1>1. CASE cmd.kind = "run_started"
  <2>1. cmd.run \in Runs /\ cmd.payload = [status |-> BootStatus]
    BY <1>1 DEF WellSent
  <2>2. run = cmd.run
    BY <1>1, <2>1, RunsAssumption DEF StatusRun
  <2>3. d = DecideRunStarted(cmd, row, BoundStatus(run)) /\ d.action = "apply"
    BY <1>1, Zenon DEF DecideKind, Applied
  <2>4. d = Apply([KeepRow EXCEPT !.sem = "working", !.proc = "alive", !.run = cmd.run],
                  DiffStatus(BoundStatus(run), BootStatus))
    BY <2>1, <2>3 DEF DecideRunStarted, Reject
  <2>5. /\ d.row.sem = "working" /\ d.row.proc = "alive" /\ d.row.run = cmd.run
        /\ d.row.auto = Keep /\ d.row.note = Keep
        /\ d.status = DiffStatus(BoundStatus(run), BootStatus)
    <3> DEFINE patch == [KeepRow EXCEPT !.sem = "working", !.proc = "alive", !.run = cmd.run]
    <3>1. /\ patch.sem = "working" /\ patch.proc = "alive" /\ patch.run = cmd.run
          /\ patch.auto = Keep /\ patch.note = Keep
      BY DEF KeepRow
    <3>2. d.row = patch /\ d.status = DiffStatus(BoundStatus(run), BootStatus)
      BY <2>4 DEF Apply
    <3> HIDE DEF patch, d, run
    <3> QED BY <3>1, <3>2
  <2>6. BoundStatus(run) = status[run]
    BY <2>1, <2>2, RunsAssumption DEF BoundStatus
  <2> HIDE DEF d
  <2>7. status' = [status EXCEPT ![run] = BootStatus]
    BY <1>0, <2>1, <2>2, <2>5, <2>6, BootStatuses, StatusPatchApplied DEF d
  <2>8. "working" # Keep /\ "alive" # Keep /\ cmd.run # Keep
    BY <2>1, KeepIsNoValue DEF SemanticState, ProcessState, RunRef
  <2>9. row' = [sem |-> "working", proc |-> "alive", run |-> cmd.run, auto |-> row.auto,
                note |-> row.note]
    BY <2>5, <2>8 DEF Applied, MergeRow, Patched, d
  <2>10. row' \in Row
    BY <1>0, <2>1, <2>9 DEF Row, SemanticState, ProcessState, RunRef
  <2> QED BY <2>1, <2>2, <2>7, <2>9, <2>10, BootStatuses DEF Starting, FilesTyped
<1>2. CASE cmd.kind = "followup_started"
  <2>1. PICK n \in Runs : cmd.payload = [newRunId |-> n, status |-> QueuedStatus]
    BY <1>2 DEF WellSent
  <2>2. run = n
    BY <1>2, <2>1 DEF StatusRun
  <2>3. d = DecideFollowupStarted(cmd, row, BoundStatus(run))
    BY <1>2, Zenon DEF DecideKind, Applied
  <2> DEFINE projected == ProjectViewState(QueuedStatus, n, row)
  <2>4. d = Apply([DiffRow(row, projected) EXCEPT !.run = n, !.proc = "alive"],
                  DiffStatus(BoundStatus(run), QueuedStatus))
    BY <2>1, <2>3 DEF DecideFollowupStarted
  <2>5. /\ d.row.sem = Changed(row.sem, projected.sem) /\ d.row.proc = "alive"
        /\ d.row.run = n /\ d.row.auto = Changed(row.auto, projected.auto)
        /\ d.row.note = Changed(row.note, projected.note)
        /\ d.status = DiffStatus(BoundStatus(run), QueuedStatus)
    <3> DEFINE patch == [DiffRow(row, projected) EXCEPT !.run = n, !.proc = "alive"]
    <3>1. /\ patch.sem = Changed(row.sem, projected.sem) /\ patch.proc = "alive"
          /\ patch.run = n /\ patch.auto = Changed(row.auto, projected.auto)
          /\ patch.note = Changed(row.note, projected.note)
      <4> HIDE DEF projected
      <4> QED BY DEF DiffRow
    <3>2. d.row = patch /\ d.status = DiffStatus(BoundStatus(run), QueuedStatus)
      BY <2>4 DEF Apply
    <3> HIDE DEF patch, d, run, projected
    <3> QED BY <3>1, <3>2
  <2>6. BoundStatus(run) = status[run]
    BY <2>1, <2>2, RunsAssumption DEF BoundStatus
  <2> HIDE DEF d
  <2>7. status' = [status EXCEPT ![run] = QueuedStatus]
    BY <1>0, <2>1, <2>2, <2>5, <2>6, BootStatuses, StatusPatchApplied DEF d
  <2>8. projected \in Row
    BY <1>0, BootStatuses, ProjectionType DEF RunRef
  <2>9. "alive" # Keep /\ n # Keep
    BY KeepIsNoValue DEF ProcessState, RunRef
  <2>10. /\ Patched(row.sem, d.row.sem) \in SemanticState
         /\ Patched(row.auto, d.row.auto) \in AutoRef
         /\ Patched(row.note, d.row.note) \in RunRef
    BY <1>0, <2>5, <2>8 DEF Patched, Changed, Row
  <2>11. row' = [sem |-> Patched(row.sem, d.row.sem), proc |-> "alive", run |-> n,
                 auto |-> Patched(row.auto, d.row.auto), note |-> Patched(row.note, d.row.note)]
    BY <2>5, <2>9 DEF Applied, MergeRow, Patched, d
  <2>12. row' \in Row /\ row'.proc = "alive" /\ row'.run = n
    BY <2>10, <2>11 DEF Row, ProcessState, RunRef
  <2> QED BY <2>2, <2>7, <2>12, BootStatuses DEF Starting, FilesTyped
<1> QED BY <1>1, <1>2

\* A beat is applied to the row that shows its run alive.
LEMMA BeatOutcome ==
    ASSUME FilesTyped, NEW cmd, WellSent(cmd), Applied(cmd), cmd.kind = "run_progress"
    PROVE  /\ row' \in Row /\ status' \in [Runs -> Status \cup {Absent}]
           /\ Beating(cmd)
<1> DEFINE d == Decision(cmd)
           projected == ProjectViewState(BootStatus, cmd.run, row)
<1>0. cmd.kind \in StatusBootstrapKinds /\ row \in Row
  BY DEF StatusBootstrapKinds, FilesTyped
<1>1. cmd.run \in Runs /\ cmd.payload = [status |-> BootStatus]
  BY DEF WellSent
<1>2. StatusRun(cmd, row) = cmd.run
  BY <1>1, RunsAssumption DEF StatusRun
<1>3. BoundStatus(cmd.run) = status[cmd.run]
  BY <1>1, RunsAssumption DEF BoundStatus
<1>4. d = DecideRunProgress(cmd, row, status[cmd.run]) /\ d.action = "apply"
  BY <1>2, <1>3, Zenon DEF DecideKind, Applied
<1>5. /\ row.run = cmd.run /\ row.proc = "alive"
      /\ d = Apply(DiffRow(row, projected), DiffStatus(status[cmd.run], BootStatus))
  BY <1>0, <1>1, <1>4 DEF DecideRunProgress, Reject, Row, ProcessState
<1>6. projected \in Row
  BY <1>0, <1>1, BootStatuses, ProjectionType DEF RunRef
<1>7. d.row = DiffRow(row, projected) /\ d.status = DiffStatus(status[cmd.run], BootStatus)
  BY <1>5 DEF Apply
<1>8. projected.proc = "alive" /\ projected.run = cmd.run
  BY BootStatuses DEF ProjectViewState
<1> HIDE DEF projected, d
<1>9. row' = projected
  BY <1>0, <1>6, <1>7, MergeDiffRow DEF Applied, d
<1>10. status' = [status EXCEPT ![cmd.run] = BootStatus]
  BY <1>0, <1>1, <1>2, <1>7, BootStatuses, StatusPatchApplied DEF d
<1> QED BY <1>1, <1>5, <1>6, <1>8, <1>9, <1>10, BootStatuses DEF Beating, FilesTyped

\* A torn beat is applied to the row alone.
LEMMA TearOutcome ==
    ASSUME FilesTyped, NEW cmd, WellSent(cmd), Tear(cmd)
    PROVE  /\ row' \in Row /\ status' = status /\ stamped' = None
           /\ row.proc = "alive" /\ row.run = cmd.run
           /\ row'.proc = "alive" /\ row'.run = cmd.run
<1> DEFINE d == Decision(cmd)
           projected == ProjectViewState(BootStatus, cmd.run, row)
<1>0. cmd.kind = "run_progress" /\ d.action = "apply" /\ row \in Row
  BY DEF Tear, FilesTyped
<1>1. cmd.run \in Runs /\ cmd.payload = [status |-> BootStatus]
  BY <1>0 DEF WellSent
<1>2. BoundStatus(StatusRun(cmd, row)) = status[cmd.run]
  BY <1>0, <1>1, RunsAssumption DEF StatusRun, BoundStatus
<1>3. d = DecideKind(cmd, row, status[cmd.run])
  BY <1>0, <1>2 DEF Decision, DecideStateTransition, Reject
<1>4. d = DecideRunProgress(cmd, row, status[cmd.run])
  BY <1>0, <1>3, Zenon DEF DecideKind
<1>5. /\ row.run = cmd.run /\ row.proc = "alive"
      /\ d = Apply(DiffRow(row, projected), DiffStatus(status[cmd.run], BootStatus))
  BY <1>0, <1>1, <1>4 DEF DecideRunProgress, Reject, Row, ProcessState
<1>6. projected \in Row
  BY <1>0, <1>1, BootStatuses, ProjectionType DEF RunRef
<1>7. d.row = DiffRow(row, projected)
  BY <1>5 DEF Apply
<1>8. projected.proc = "alive" /\ projected.run = cmd.run
  BY BootStatuses DEF ProjectViewState
<1> HIDE DEF projected
<1>9. row' = projected
  BY <1>0, <1>6, <1>7, MergeDiffRow DEF Tear, StampState
<1> QED BY <1>5, <1>6, <1>8, <1>9 DEF Tear

\* A decision stamps the status of a run with the row's revision, or none.
LEMMA DecideStamps ==
    ASSUME FilesTyped, NEW cmd, WellSent(cmd), Decide(cmd), stamped \in RunRef
    PROVE  stamped' \in RunRef
<1>1. BoundRun(cmd, StatusRun(cmd, row), row) \in RunRef /\ None \in RunRef
  BY BoundToRun DEF FilesTyped, RunRef
<1>2. stamped' \in {stamped, None, BoundRun(cmd, StatusRun(cmd, row), row)}
  BY DEF Decide, files
<1> QED BY <1>1, <1>2

\* A final record closes the row and the run, as stopped when a stop was seen.
LEMMA FinalOutcome ==
    ASSUME FilesTyped, NEW cmd, WellSent(cmd), Applied(cmd), cmd.kind = "run_finalized"
    PROVE  /\ row' \in Row /\ status' \in [Runs -> Status \cup {Absent}]
           /\ Finalizing(cmd)
<1> DEFINE d == Decision(cmd)
           st == status[cmd.run]
           final == FinalizeRun(st, cmd.run, cmd.payload)
           projected == ProjectViewState(final, cmd.run, row)
<1>0. row \in Row /\ st \in Status \cup {Absent}
  BY DEF FilesTyped, WellSent
<1>1. cmd.run \in Runs /\ cmd.payload \in Payload("run_finalized")
  BY DEF WellSent
<1>2. StatusRun(cmd, row) = cmd.run
  BY <1>1, RunsAssumption DEF StatusRun
<1>3. BoundStatus(cmd.run) = st
  BY <1>1, RunsAssumption DEF BoundStatus
<1>4. d = DecideRunFinalized(cmd, row, st) /\ d.action = "apply"
  BY <1>2, <1>3, Zenon DEF DecideKind, Applied
<1>5. /\ st # Absent /\ row.run = cmd.run /\ row.proc = "alive"
      /\ d = Apply(DiffRow(row, projected), DiffStatus(st, final))
  BY <1>0, <1>4 DEF DecideRunFinalized, Reject
<1>6. final \in Status
  BY <1>0, <1>1, <1>5, ProjectionType DEF RunRef
<1>7. projected \in Row
  BY <1>0, <1>1, <1>6, ProjectionType DEF RunRef
<1>8. /\ final.ended /\ final.proc = "exited" /\ final.sem \notin Active
      /\ cmd.payload.stoppedByUser => final.sem = "stopped"
  <2>1. st \in Status
    BY <1>0, <1>5
  <2>2. /\ final.ended /\ final.proc = "exited"
        /\ final.sem = FinalizeSemanticState(cmd.payload, cmd.payload.asks \/ st.asks)
    <3> HIDE DEF st
    <3> QED BY <2>1 DEF FinalizeRun, Status
  <2> QED BY <2>2 DEF FinalizeSemanticState, Active
<1>9. d.row = DiffRow(row, projected) /\ d.status = DiffStatus(st, final)
  BY <1>5 DEF Apply
<1>10. projected.proc = final.proc /\ projected.sem = final.sem
  BY DEF ProjectViewState
<1> HIDE DEF projected, d, final
<1>11. row' = projected
  BY <1>0, <1>7, <1>9, MergeDiffRow DEF Applied, d
<1>12. status' = [status EXCEPT ![cmd.run] = final]
  BY <1>1, <1>2, <1>5, <1>6, <1>9, StatusPatchApplied DEF d
<1> QED BY <1>1, <1>5, <1>6, <1>7, <1>8, <1>10, <1>11, <1>12 DEF Finalizing, FilesTyped

\* A reconcile closes a dead run as failed, or projects what is on record.
LEMMA ReconcileOutcome ==
    ASSUME FilesTyped, NEW cmd, WellSent(cmd), Applied(cmd), cmd.kind = "reconcile_finalize"
    PROVE  /\ row' \in Row /\ status' \in [Runs -> Status \cup {Absent}]
           /\ Reconciling(cmd)
<1> DEFINE d == Decision(cmd)
           st == status[cmd.run]
<1>0. row \in Row /\ st \in Status \cup {Absent}
  BY DEF FilesTyped, WellSent
<1>1. cmd.run \in Runs
  BY DEF WellSent
<1>2. PICK p \in BOOLEAN : cmd.payload = [project |-> p, sem |-> "failed"]
  BY DEF WellSent
<1>3. StatusRun(cmd, row) = cmd.run
  BY <1>1, RunsAssumption DEF StatusRun
<1>4. BoundStatus(cmd.run) = st
  BY <1>1, RunsAssumption DEF BoundStatus
<1>5. d = DecideReconcileFinalize(cmd, row, st) /\ d.action = "apply"
  BY <1>3, <1>4, Zenon DEF DecideKind, Applied
<1>6. row.proc = "alive"
  BY <1>5 DEF DecideReconcileFinalize, Reject
<1>7. CASE p
  <2> DEFINE projected == ProjectViewState(st, cmd.run, row)
  <2>1. st # Absent /\ d = Apply(DiffRow(row, projected), NoPatch)
    BY <1>2, <1>3, <1>5, <1>6, <1>7 DEF DecideReconcileFinalize, Reject
  <2>2. d.row = DiffRow(row, projected) /\ d.status = NoPatch
    BY <2>1 DEF Apply
  <2>3. projected \in Row
    BY <1>0, <1>1, <2>1, ProjectionType DEF RunRef
  <2>4. projected.proc = st.proc /\ projected.sem = st.sem /\ projected.run = cmd.run
    BY DEF ProjectViewState
  <2> HIDE DEF projected, d
  <2>5. row' = projected
    BY <1>0, <2>2, <2>3, MergeDiffRow DEF Applied, d
  <2>6. status' = status
    BY <2>2, NoStatusPatch DEF d
  <2> QED BY <1>6, <2>1, <2>3, <2>4, <2>5, <2>6 DEF Reconciling, FilesTyped
<1>8. CASE ~p
  <2> DEFINE newRow == [row EXCEPT !.sem = "failed", !.proc = "exited", !.note = None]
             final == [st EXCEPT !.sem = "failed", !.proc = "exited", !.ended = TRUE]
  <2>1. d = Apply(DiffRow(row, newRow), IF st = Absent THEN NoPatch ELSE DiffStatus(st, final))
    BY <1>2, <1>5, <1>6, <1>8 DEF DecideReconcileFinalize
  <2>2. /\ d.row = DiffRow(row, newRow)
        /\ d.status = IF st = Absent THEN NoPatch ELSE DiffStatus(st, final)
    BY <2>1 DEF Apply
  <2>3. newRow \in Row /\ newRow.proc = "exited" /\ newRow.sem \notin Active
    BY <1>0 DEF Row, SemanticState, ProcessState, RunRef, Active
  <2>4. st # Absent =>
           final \in Status /\ final.ended /\ final.proc = "exited" /\ final.sem = "failed"
    BY <1>0 DEF Status, SemanticState, ProcessState
  <2> HIDE DEF newRow, d, final
  <2>5. row' = newRow
    BY <1>0, <2>2, <2>3, MergeDiffRow DEF Applied, d
  <2>6. st = Absent => status' = status
    BY <2>2, NoStatusPatch DEF d
  <2>7. st # Absent => status' = [status EXCEPT ![cmd.run] = final]
    BY <1>1, <1>3, <2>2, <2>4, StatusPatchApplied DEF d
  <2> QED BY <1>1, <1>6, <2>3, <2>4, <2>5, <2>6, <2>7 DEF Reconciling, FilesTyped
<1> QED BY <1>7, <1>8

\* Every decision has one of these outcomes, and keeps both files well formed.
LEMMA DecideOutcome ==
    ASSUME FilesTyped, NEW cmd, WellSent(cmd), Decide(cmd)
    PROVE  FilesTyped' /\ Outcome(cmd)
<1>1. CASE UNCHANGED files
  BY <1>1 DEF Outcome, files, FilesTyped
<1>2. CASE Applied(cmd)
  <2>1. cmd.kind \in SentKinds
    BY DEF WellSent
  <2> QED BY <1>2, <2>1, VerdictOutcome, ClassifiedOutcome, PlanReadyOutcome, SummaryOutcome,
             QueuedOutcome, StartedOutcome, BeatOutcome, FinalOutcome, ReconcileOutcome
          DEF SentKinds, JudgingKinds, Outcome, FilesTyped
<1> QED BY <1>1, <1>2, DecidedFiles

----------------------------------------------------------------------------
(* What every step does to the runners and the commands on their way.      *)

\* The runners, and everything else but the files and the commands.
RunnerTyped ==
    /\ phase \in [Runs -> Phases]
    /\ mem \in [Runs -> Status]
    /\ worker \in [Runs -> {"none", "running", "terminated", "ended"}]
    /\ stopping \in [Runs -> {"none", "latched", "acted"}]

RestTyped ==
    /\ archived \in BOOLEAN /\ queued \in Nat /\ budget \in Budget
    /\ killTimer \subseteq Runs
    /\ answer \in [Runs -> Reasons \cup {"none", "pending", "timeout", "connection_reset"}]
    /\ seen \in {None} \cup [run : Runs, paired : BOOLEAN]

\* A runner that is past its work stays so, and takes no further stop.
Ages ==
    \A r \in Runs :
        phase[r] \in Past => /\ phase'[r] \in Past /\ stopping'[r] = stopping[r]
                             /\ phase[r] = "gone" => phase'[r] = "gone"

\* Nothing is on its way but what was, or what its sender means now.
OnlyMeant ==
    \A cmd \in sent' : \/ \E c \in sent : cmd = c \/ cmd = [c EXCEPT !.from = None]
                       \/ WellSent(cmd)'

\* What a command means does not change with the runners.
LEMMA MeaningKept ==
    ASSUME RunnerTyped, RunnerTyped', Ages, NEW c, WellSent(c)
    PROVE  WellSent(c)' /\ WellSent([c EXCEPT !.from = None])'
<1>1. /\ c.kind = "run_finalized" =>
            /\ phase'[c.run] \in Past
            /\ stopping'[c.run] # "none" => c.payload.stoppedByUser
      /\ c.kind = "reconcile_finalize" => phase'[c.run] = "gone"
  BY DEF WellSent, Ages, Past
<1>2. WellSent(c)'
  BY <1>1 DEF WellSent
<1> DEFINE d == [c EXCEPT !.from = None]
<1>3. c = [from |-> c.from, kind |-> c.kind, source |-> c.source, run |-> c.run,
           expectedRevision |-> None, payload |-> c.payload]
  BY DEF WellSent, Command
<1>4. /\ d = [from |-> None, kind |-> c.kind, source |-> c.source, run |-> c.run,
              expectedRevision |-> None, payload |-> c.payload]
      /\ d.from = None /\ d.kind = c.kind /\ d.source = c.source /\ d.run = c.run
      /\ d.payload = c.payload
  BY <1>3
<1> HIDE DEF d
<1>5. d = Command(d.from, d.kind, d.source, d.run, d.payload) /\ d.from \in RunRef
  BY <1>4 DEF Command, RunRef
<1>6. WellSent(d)'
  BY <1>2, <1>4, <1>5 DEF WellSent
<1> QED BY <1>2, <1>6 DEF d

\* So every step that adds only what its sender means keeps the commands well sent.
LEMMA SentStep ==
    ASSUME RunnerTyped, RunnerTyped', Ages, OnlyMeant, SentInvariant
    PROVE  SentInvariant'
BY MeaningKept DEF OnlyMeant, SentInvariant

\* A command that is on its way passes validation.
LEMMA SentIsValid ==
    ASSUME NEW cmd, WellSent(cmd)
    PROVE  WellFormed(cmd)
<1>1. SentKinds \subseteq Kinds
  BY DEF SentKinds, Kinds
<1>2. cmd.kind \in Kinds /\ cmd.run \in RunRef
  BY <1>1 DEF WellSent
<1>3. cmd.kind = "run_started" => cmd.run # None
  BY RunsAssumption DEF WellSent
<1>4. cmd.payload \in Payload(cmd.kind)
  <2>1. CASE cmd.kind \in {"mark_completed", "mark_holding", "clear_holding", "archive_view"}
    BY <2>1 DEF WellSent, Payload
  <2>2. CASE cmd.kind = "auto_state_classified"
    <3>1. Payload(cmd.kind) = [classification : Classification]
      BY <2>2 DEF Payload
    <3> QED BY <2>2, <3>1 DEF WellSent
  <2>3. CASE cmd.kind = "run_finalized"
    BY <2>3 DEF WellSent
  <2>4. CASE cmd.kind = "mark_queued" \/ cmd.kind = "plan_ready"
    <3>1. Payload(cmd.kind) \in {[runId : RunRef], [runId : Runs]}
      BY <2>4 DEF Payload
    <3> QED BY <2>4, <3>1 DEF WellSent, RunRef
  <2>5. CASE cmd.kind = "run_started" \/ cmd.kind = "run_progress"
    <3>1. Payload(cmd.kind) = [status : Status]
      BY <2>5 DEF Payload
    <3> QED BY <2>5, <3>1, BootStatuses DEF WellSent
  <2>6. CASE cmd.kind = "followup_started"
    <3>1. Payload(cmd.kind) = [newRunId : Runs, status : Status]
      BY <2>6 DEF Payload
    <3> QED BY <2>6, <3>1, BootStatuses DEF WellSent
  <2>7. CASE cmd.kind = "reconcile_finalize"
    <3>1. Payload(cmd.kind) = [project : BOOLEAN, sem : {"failed", "idle"}]
      BY <2>7 DEF Payload
    <3> QED BY <2>7, <3>1 DEF WellSent
  <2>8. CASE cmd.kind = "patch_fields"
    <3>1. Payload(cmd.kind) = [state : SUBSET PatchableField, status : SUBSET PatchableField,
                               note : RunRef, differs : BOOLEAN]
      BY <2>8 DEF Payload
    <3>2. {"summary", "latestAssistantPreview"} \subseteq PatchableField
      BY DEF PatchableField
    <3> QED BY <2>8, <3>1, <3>2 DEF WellSent, RunRef
  <2>9. cmd.kind \in SentKinds
    BY DEF WellSent
  <2> QED BY <2>1, <2>2, <2>3, <2>4, <2>5, <2>6, <2>7, <2>8, <2>9 DEF SentKinds
<1> QED BY <1>2, <1>3, <1>4 DEF WellFormed, ValidCommand

\* Spending a bound leaves it a bound.
LEMMA SpendType ==
    ASSUME budget \in Budget, NEW what \in {"replies", "queued", "acts", "deaths", "losses"},
           Spend(what)
    PROVE  budget' \in Budget
BY DEF Spend, Budget

----------------------------------------------------------------------------
(* Step by step.                                                           *)

\* What the steps rely on, and what each step other than a decision shows.
Settled ==
    /\ FilesTyped /\ RunnerTyped /\ RestTyped
    /\ SentInvariant /\ RowInvariant /\ RunnerInvariant /\ SeenInvariant

StepFacts == RunnerTyped' /\ RestTyped' /\ SeenInvariant' /\ Ages /\ OnlyMeant /\ RunnerInvariant'

\* A sender that no longer waits leaves its commands on their way.
LEMMA ForsakenMeant ==
    ASSUME SentInvariant, NEW r, sent' = Forsaken(r)
    PROVE  OnlyMeant
<1>1. ASSUME NEW c \in sent
      PROVE  \/ [c EXCEPT !.from = IF @ = r THEN None ELSE @] = c
             \/ [c EXCEPT !.from = IF @ = r THEN None ELSE @] = [c EXCEPT !.from = None]
  <2>1. c = [from |-> c.from, kind |-> c.kind, source |-> c.source, run |-> c.run,
             expectedRevision |-> None, payload |-> c.payload]
    BY DEF SentInvariant, WellSent, Command
  <2>2. CASE c.from = r
    BY <2>2
  <2>3. CASE c.from # r
    <3>1. [c EXCEPT !.from = c.from] = c
      BY <2>1
    <3> QED BY <2>3, <3>1
  <2> QED BY <2>2, <2>3
<1> QED BY <1>1 DEF Forsaken, OnlyMeant

\* A runner that is gone.
LEMMA DiesTyped ==
    ASSUME RunnerTyped, NEW r \in Runs, Dies(r)
    PROVE  RunnerTyped'
BY BootStatuses DEF Dies, Step, RunnerTyped, Phases

\* A launch by a user.
LEMMA ReplyStep ==
    ASSUME Settled, NEW n \in Runs, Reply(n)
    PROVE  StepFacts
<1>c. PICK cmd : cmd = Command(n, "mark_queued", "dashboard-user", None, [runId |-> n])
  OBVIOUS
<1>s. sent' \subseteq sent \cup {cmd}
  BY <1>c DEF Reply, LaunchForView, Ask, files
<1>m. WellSent(cmd)'
  BY <1>c
  DEF Reply, LaunchForView, Ask, files, Settled, Command, WellSent, SentKinds, RunRef,
      RunnerTyped, RunnerInvariant, Past
<1>1. RunnerTyped'
  BY DEF Reply, LaunchForView, Ask, files, Settled, RunnerTyped, Phases
<1>2. RestTyped' /\ SeenInvariant'
  BY SpendType
  DEF Reply, LaunchForView, Ask, files, Settled, RestTyped, SeenInvariant, RunnerTyped
<1>3. Ages
  BY DEF Reply, LaunchForView, Ask, files, Settled, Ages, Past, RunnerTyped
<1>4. OnlyMeant
  BY <1>s, <1>m DEF OnlyMeant
<1>5. RunnerInvariant'
  BY
  DEF Reply, LaunchForView, Ask, files, Settled, RunnerInvariant, AgentRuns,
      RunnerTyped, Past
<1> QED BY <1>1, <1>2, <1>3, <1>4, <1>5 DEF StepFacts

\* A launch by a dashboard that drains the queue.
LEMMA DrainNextFollowUpStep ==
    ASSUME Settled, NEW n \in Runs, DrainNextFollowUp(n)
    PROVE  StepFacts
<1>c. PICK cmd : cmd = Command(n, "mark_queued", "dashboard-user", None, [runId |-> n])
  OBVIOUS
<1>s. sent' \subseteq sent \cup {cmd}
  BY <1>c DEF DrainNextFollowUp, LaunchForView, Ask, files
<1>m. WellSent(cmd)'
  BY <1>c
  DEF DrainNextFollowUp, LaunchForView, Ask, files, Settled, Command, WellSent,
      SentKinds, RunRef, RunnerTyped, RunnerInvariant, Past
<1>1. RunnerTyped'
  BY DEF DrainNextFollowUp, LaunchForView, Ask, files, Settled, RunnerTyped, Phases
<1>2. RestTyped' /\ SeenInvariant'
  BY SpendType
  DEF DrainNextFollowUp, LaunchForView, Ask, files, Settled, RestTyped, SeenInvariant,
      RunnerTyped
<1>3. Ages
  BY DEF DrainNextFollowUp, LaunchForView, Ask, files, Settled, Ages, Past, RunnerTyped
<1>4. OnlyMeant
  BY <1>s, <1>m DEF OnlyMeant
<1>5. RunnerInvariant'
  BY
  DEF DrainNextFollowUp, LaunchForView, Ask, files, Settled, RunnerInvariant, AgentRuns,
      RunnerTyped, Past
<1> QED BY <1>1, <1>2, <1>3, <1>4, <1>5 DEF StepFacts

\* The spawn of a runner.
LEMMA LaunchRunStep ==
    ASSUME Settled, NEW n \in Runs, LaunchRun(n)
    PROVE  StepFacts
<1>1. RunnerTyped'
  BY DEF LaunchRun, Consume, files, Settled, RunnerTyped, Phases
<1>2. RestTyped' /\ SeenInvariant'
  BY SpendType
  DEF LaunchRun, Consume, files, Settled, RestTyped, SeenInvariant, RunnerTyped
<1>3. Ages
  BY DEF LaunchRun, Consume, files, Settled, Ages, Past, RunnerTyped
<1>4. OnlyMeant
  BY DEF LaunchRun, Consume, files, OnlyMeant
<1>5. RunnerInvariant'
  BY DEF LaunchRun, Consume, files, Settled, RunnerInvariant, AgentRuns, RunnerTyped, Past
<1> QED BY <1>1, <1>2, <1>3, <1>4, <1>5 DEF StepFacts

\* A launch that comes to nothing.
LEMMA LaunchFailsStep ==
    ASSUME Settled, NEW n \in Runs, LaunchFails(n)
    PROVE  StepFacts
<1>1. RunnerTyped'
  BY DEF LaunchFails, Consume, files, Settled, RunnerTyped, Phases
<1>2. RestTyped' /\ SeenInvariant'
  BY SpendType
  DEF LaunchFails, Consume, files, Settled, RestTyped, SeenInvariant, RunnerTyped
<1>3. Ages
  BY DEF LaunchFails, Consume, files, Settled, Ages, Past, RunnerTyped
<1>4. OnlyMeant
  BY ForsakenMeant DEF LaunchFails, Settled
<1>5. RunnerInvariant'
  BY
  DEF LaunchFails, Consume, files, Settled, RunnerInvariant, AgentRuns, RunnerTyped,
      Past
<1> QED BY <1>1, <1>2, <1>3, <1>4, <1>5 DEF StepFacts

\* The announcement of a run.
LEMMA RunStartedStep ==
    ASSUME Settled, NEW r \in Runs, RunStarted(r)
    PROVE  StepFacts
<1>c. PICK cmd : cmd = Command(r, "run_started", "job-runner", r, [status |-> BootStatus])
  OBVIOUS
<1>s. sent' \subseteq sent \cup {cmd}
  BY <1>c DEF RunStarted, Ask, Step, Quiet, files
<1>m. WellSent(cmd)'
  BY <1>c
  DEF RunStarted, Ask, Step, Quiet, files, Settled, Command, WellSent, SentKinds,
      RunRef, RunnerTyped, RunnerInvariant, Past
<1>1. RunnerTyped'
  BY DEF RunStarted, Ask, Step, Quiet, files, Settled, RunnerTyped, Phases
<1>2. RestTyped' /\ SeenInvariant'
  BY SpendType
  DEF RunStarted, Ask, Step, Quiet, files, Settled, RestTyped, SeenInvariant,
      RunnerTyped
<1>3. Ages
  BY DEF RunStarted, Ask, Step, Quiet, files, Settled, Ages, Past, RunnerTyped
<1>4. OnlyMeant
  BY <1>s, <1>m DEF OnlyMeant
<1>5. RunnerInvariant'
  BY
  DEF RunStarted, Ask, Step, Quiet, files, Settled, RunnerInvariant, AgentRuns,
      RunnerTyped, Past
<1> QED BY <1>1, <1>2, <1>3, <1>4, <1>5 DEF StepFacts

\* The spawn of the worker and the first beat.
LEMMA SpawnWorkerStep ==
    ASSUME Settled, NEW r \in Runs, SpawnWorker(r)
    PROVE  StepFacts
<1>c. PICK cmd : cmd = ProgressBeat(r)
  OBVIOUS
<1>s. sent' \subseteq sent \cup {cmd}
  BY <1>c DEF SpawnWorker, Quiet, Step, Consume, files, Replayed, Answered
<1>m. WellSent(cmd)'
  BY <1>c
  DEF ProgressBeat, SpawnWorker, Quiet, Step, Consume, files, Replayed, Answered, Settled, Command,
      WellSent, SentKinds, RunRef, RunnerTyped, RunnerInvariant, Past
<1>1. RunnerTyped'
  BY
  DEF SpawnWorker, Quiet, Step, Consume, files, Replayed, Answered, Settled,
      RunnerTyped, Phases
<1>2. RestTyped' /\ SeenInvariant'
  BY SpendType
  DEF SpawnWorker, Quiet, Step, Consume, files, Replayed, Answered, Settled, RestTyped,
      SeenInvariant, RunnerTyped
<1>3. Ages
  BY
  DEF SpawnWorker, Quiet, Step, Consume, files, Replayed, Answered, Settled, Ages, Past,
      RunnerTyped
<1>4. OnlyMeant
  BY <1>s, <1>m DEF OnlyMeant
<1>5. RunnerInvariant'
  BY
  DEF SpawnWorker, Quiet, Step, Consume, files, Replayed, Answered, Settled,
      RunnerInvariant, AgentRuns, RunnerTyped, Past
<1> QED BY <1>1, <1>2, <1>3, <1>4, <1>5 DEF StepFacts

\* A worker that cannot be launched, and the first beat.
LEMMA WorkerErrorStep ==
    ASSUME Settled, NEW r \in Runs, WorkerError(r)
    PROVE  StepFacts
<1>c. PICK cmd : cmd = ProgressBeat(r)
  OBVIOUS
<1>s. sent' \subseteq sent \cup {cmd}
  BY <1>c DEF WorkerError, Quiet, Step, Consume, files, Replayed, Answered
<1>m. WellSent(cmd)'
  BY <1>c
  DEF ProgressBeat, WorkerError, Quiet, Step, Consume, files, Replayed, Answered, Settled, Command,
      WellSent, SentKinds, RunRef, RunnerTyped, RunnerInvariant, Past
<1>1. RunnerTyped'
  BY DEF WorkerError, Quiet, Step, Consume, files, Replayed, Settled, RunnerTyped, Phases
<1>2. RestTyped' /\ SeenInvariant'
  BY SpendType
  DEF WorkerError, Quiet, Step, Consume, files, Replayed, Settled, RestTyped,
      SeenInvariant, RunnerTyped
<1>3. Ages
  BY
  DEF WorkerError, Quiet, Step, Consume, files, Replayed, Settled, Ages, Past,
      RunnerTyped
<1>4. OnlyMeant
  BY <1>s, <1>m DEF OnlyMeant
<1>5. RunnerInvariant'
  BY
  DEF WorkerError, Quiet, Step, Consume, files, Replayed, Settled, RunnerInvariant,
      AgentRuns, RunnerTyped, Past
<1> QED BY <1>1, <1>2, <1>3, <1>4, <1>5 DEF StepFacts

\* A beat.
LEMMA BeatStep ==
    ASSUME Settled, NEW r \in Runs, Beat(r)
    PROVE  StepFacts
<1>c. PICK cmd : cmd = ProgressBeat(r)
  OBVIOUS
<1>s. sent' \subseteq sent \cup {cmd}
  BY <1>c DEF Beat, Tell, Quiet, files, runner
<1>m. WellSent(cmd)'
  BY <1>c
  DEF ProgressBeat, Beat, Tell, Quiet, files, runner, Settled, Command, WellSent, SentKinds, RunRef,
      RunnerTyped, RunnerInvariant, Past
<1>1. RunnerTyped'
  BY DEF Beat, Tell, Quiet, files, runner, Settled, RunnerTyped, Phases
<1>2. RestTyped' /\ SeenInvariant'
  BY SpendType
  DEF Beat, Tell, Quiet, files, runner, Settled, RestTyped, SeenInvariant, RunnerTyped
<1>3. Ages
  BY DEF Beat, Tell, Quiet, files, runner, Settled, Ages, Past, RunnerTyped
<1>4. OnlyMeant
  BY <1>s, <1>m DEF OnlyMeant
<1>5. RunnerInvariant'
  BY
  DEF Beat, Tell, Quiet, files, runner, Settled, RunnerInvariant, AgentRuns,
      RunnerTyped, Past
<1> QED BY <1>1, <1>2, <1>3, <1>4, <1>5 DEF StepFacts

\* The end of an orphaned agent.
LEMMA OrphanEndsStep ==
    ASSUME Settled, NEW r \in Runs, OrphanEnds(r)
    PROVE  StepFacts
<1>1. RunnerTyped'
  BY DEF OrphanEnds, Quiet, files, wires, AgentRuns, Settled, RunnerTyped, Phases
<1>2. RestTyped' /\ SeenInvariant'
  BY SpendType
  DEF OrphanEnds, Quiet, files, wires, AgentRuns, Settled, RestTyped, SeenInvariant,
      RunnerTyped
<1>3. Ages
  BY DEF OrphanEnds, Quiet, files, wires, AgentRuns, Settled, Ages, Past, RunnerTyped
<1>4. OnlyMeant
  BY DEF OrphanEnds, Quiet, files, wires, AgentRuns, OnlyMeant
<1>5. RunnerInvariant'
  BY
  DEF OrphanEnds, Quiet, files, wires, AgentRuns, Settled, RunnerInvariant, AgentRuns,
      RunnerTyped, Past
<1> QED BY <1>1, <1>2, <1>3, <1>4, <1>5 DEF StepFacts

\* The summary of a run that is over.
LEMMA PatchSummaryStep ==
    ASSUME Settled, NEW r \in Runs, PatchSummary(r)
    PROVE  StepFacts
<1>c. PICK cmd : cmd = Command(r, "patch_fields", "job-runner", None,
               [state |-> {"summary", "latestAssistantPreview"},
                status |-> {"summary"}, note |-> r, differs |-> TRUE])
  OBVIOUS
<1>s. sent' \subseteq sent \cup {cmd}
  BY <1>c DEF PatchSummary, Ask, Reach, Step, Quiet, files, Before, Ready
<1>m. WellSent(cmd)'
  BY <1>c
  DEF PatchSummary, Ask, Reach, Step, Quiet, files, Before, Ready, Settled, Command,
      WellSent, SentKinds, RunRef, RunnerTyped, RunnerInvariant, Past
<1>1. RunnerTyped'
  BY
  DEF PatchSummary, Ask, Reach, Step, Quiet, files, Before, Ready, Settled, RunnerTyped,
      Phases
<1>2. RestTyped' /\ SeenInvariant'
  BY SpendType
  DEF PatchSummary, Ask, Reach, Step, Quiet, files, Before, Ready, Settled, RestTyped,
      SeenInvariant, RunnerTyped
<1>3. Ages
  BY
  DEF PatchSummary, Ask, Reach, Step, Quiet, files, Before, Ready, Settled, Ages, Past,
      RunnerTyped
<1>4. OnlyMeant
  BY <1>s, <1>m DEF OnlyMeant
<1>5. RunnerInvariant'
  BY
  DEF PatchSummary, Ask, Reach, Step, Quiet, files, Before, Ready, Settled,
      RunnerInvariant, AgentRuns, RunnerTyped, Past
<1> QED BY <1>1, <1>2, <1>3, <1>4, <1>5 DEF StepFacts

\* The plan of a run that is over.
LEMMA FinalizeSteeringStep ==
    ASSUME Settled, NEW r \in Runs, FinalizeSteering(r)
    PROVE  StepFacts
<1>c. PICK cmd : cmd = Command(r, "plan_ready", "job-runner", r, [runId |-> r])
  OBVIOUS
<1>s. sent' \subseteq sent \cup {cmd}
  BY <1>c DEF FinalizeSteering, Ask, Reach, Step, Quiet, files, Before, Ready
<1>m. WellSent(cmd)'
  BY <1>c
  DEF FinalizeSteering, Ask, Reach, Step, Quiet, files, Before, Ready, Settled, Command,
      WellSent, SentKinds, RunRef, RunnerTyped, RunnerInvariant, Past
<1>1. RunnerTyped'
  BY
  DEF FinalizeSteering, Ask, Reach, Step, Quiet, files, Before, Ready, Settled,
      RunnerTyped, Phases
<1>2. RestTyped' /\ SeenInvariant'
  BY SpendType
  DEF FinalizeSteering, Ask, Reach, Step, Quiet, files, Before, Ready, Settled,
      RestTyped, SeenInvariant, RunnerTyped
<1>3. Ages
  BY
  DEF FinalizeSteering, Ask, Reach, Step, Quiet, files, Before, Ready, Settled, Ages,
      Past, RunnerTyped
<1>4. OnlyMeant
  BY <1>s, <1>m DEF OnlyMeant
<1>5. RunnerInvariant'
  BY
  DEF FinalizeSteering, Ask, Reach, Step, Quiet, files, Before, Ready, Settled,
      RunnerInvariant, AgentRuns, RunnerTyped, Past
<1> QED BY <1>1, <1>2, <1>3, <1>4, <1>5 DEF StepFacts

\* The end of a runner.
LEMMA ExitStep ==
    ASSUME Settled, NEW r \in Runs, Exit(r)
    PROVE  StepFacts
<1>1. RunnerTyped'
  BY DiesTyped DEF Exit, Settled
<1>2. RestTyped' /\ SeenInvariant'
  BY SpendType
  DEF Exit, Dies, Quiet, Step, Consume, files, Settled, RestTyped, SeenInvariant,
      RunnerTyped
<1>3. Ages
  BY DEF Exit, Dies, Quiet, Step, Consume, files, Settled, Ages, Past, RunnerTyped
<1>4. OnlyMeant
  BY ForsakenMeant DEF Exit, Dies, Settled
<1>5. RunnerInvariant'
  BY
  DEF Exit, Dies, Quiet, Step, Consume, files, Settled, RunnerInvariant, AgentRuns,
      RunnerTyped, Past
<1> QED BY <1>1, <1>2, <1>3, <1>4, <1>5 DEF StepFacts

\* The death of a runner.
LEMMA RunnerDiesStep ==
    ASSUME Settled, NEW r \in Runs, RunnerDies(r)
    PROVE  StepFacts
<1>1. RunnerTyped'
  BY DiesTyped DEF RunnerDies, Settled
<1>2. RestTyped' /\ SeenInvariant'
  BY SpendType
  DEF RunnerDies, Dies, Step, Consume, files, Live, Settled, RestTyped, SeenInvariant,
      RunnerTyped
<1>3. Ages
  BY DEF RunnerDies, Dies, Step, Consume, files, Live, Settled, Ages, Past, RunnerTyped
<1>4. OnlyMeant
  BY ForsakenMeant DEF RunnerDies, Dies, Settled
<1>5. RunnerInvariant'
  BY
  DEF RunnerDies, Dies, Step, Consume, files, Live, Settled, RunnerInvariant, AgentRuns,
      RunnerTyped, Past
<1> QED BY <1>1, <1>2, <1>3, <1>4, <1>5 DEF StepFacts

\* The SIGKILL of a runner.
LEMMA ForceKillStep ==
    ASSUME Settled, NEW r \in Runs, ForceKill(r)
    PROVE  StepFacts
<1>1. RunnerTyped'
  BY DiesTyped DEF ForceKill, Settled, RunnerTyped, runner
<1>2. RestTyped' /\ SeenInvariant'
  <2>1. answer' = answer \/ answer' = [answer EXCEPT ![r] = "none"]
    BY DEF ForceKill, Dies, Consume, wires
  <2>2. UNCHANGED <<archived, queued, seen, budget>> /\ killTimer' \subseteq killTimer
    BY DEF ForceKill
  <2>3. seen # None => phase'[seen.run] = "gone"
    BY
    DEF ForceKill, Dies, Step, runner, Settled, SeenInvariant, RunnerTyped, RestTyped,
        RunRef
  <2> QED BY <2>1, <2>2, <2>3 DEF Settled, RestTyped, SeenInvariant
<1>3. Ages
  BY
  DEF ForceKill, Dies, Step, Consume, files, runner, wires, Live, Settled, Ages, Past,
      RunnerTyped
<1>4. OnlyMeant
  <2>1. CASE Live(r)
    BY <2>1, ForsakenMeant DEF ForceKill, Dies, Settled
  <2>2. CASE ~Live(r)
    BY <2>2 DEF ForceKill, wires, OnlyMeant
  <2> QED BY <2>1, <2>2
<1>5. RunnerInvariant'
  BY
  DEF ForceKill, Dies, Step, Consume, files, runner, wires, Live, Settled,
      RunnerInvariant, AgentRuns, RunnerTyped, Past
<1> QED BY <1>1, <1>2, <1>3, <1>4, <1>5 DEF StepFacts

\* A sender that waits no longer.
LEMMA GiveUpStep ==
    ASSUME Settled, NEW r \in Runs, GiveUp(r)
    PROVE  StepFacts
<1>1. RunnerTyped'
  BY DEF GiveUp, files, runner, Settled, RunnerTyped, Phases
<1>2. RestTyped' /\ SeenInvariant'
  BY SpendType DEF GiveUp, files, runner, Settled, RestTyped, SeenInvariant, RunnerTyped
<1>3. Ages
  BY DEF GiveUp, files, runner, Settled, Ages, Past, RunnerTyped
<1>4. OnlyMeant
  BY ForsakenMeant DEF GiveUp, Settled
<1>5. RunnerInvariant'
  BY DEF GiveUp, files, runner, Settled, RunnerInvariant, AgentRuns, RunnerTyped, Past
<1> QED BY <1>1, <1>2, <1>3, <1>4, <1>5 DEF StepFacts

\* A reply that waits in the queue.
LEMMA ReplyQueuedStep ==
    ASSUME Settled, ReplyQueued
    PROVE  StepFacts
<1>1. RunnerTyped'
  BY DEF ReplyQueued, files, runner, wires, Settled, RunnerTyped, Phases
<1>2. RestTyped' /\ SeenInvariant'
  BY SpendType
  DEF ReplyQueued, files, runner, wires, Settled, RestTyped, SeenInvariant, RunnerTyped
<1>3. Ages
  BY DEF ReplyQueued, files, runner, wires, Settled, Ages, Past, RunnerTyped
<1>4. OnlyMeant
  BY DEF ReplyQueued, files, runner, wires, OnlyMeant
<1>5. RunnerInvariant'
  BY
  DEF ReplyQueued, files, runner, wires, Settled, RunnerInvariant, AgentRuns,
      RunnerTyped, Past
<1> QED BY <1>1, <1>2, <1>3, <1>4, <1>5 DEF StepFacts

\* A verdict of a user.
LEMMA JudgeStep ==
    ASSUME Settled, NEW kind \in {"mark_completed", "mark_holding", "clear_holding"}, Judge(kind)
    PROVE  StepFacts
<1>c. PICK cmd : cmd = Command(None, kind, "dashboard-user", row.run, None)
  OBVIOUS
<1>s. sent' \subseteq sent \cup {cmd}
  BY <1>c DEF Judge, Tell, files, runner
<1>m. WellSent(cmd)'
  <2>1. row.run \in RunRef
    BY DEF Settled, FilesTyped, Row
  <2>2. cmd = [from |-> None, kind |-> kind, source |-> "dashboard-user", run |-> row.run,
               expectedRevision |-> None, payload |-> None]
    BY <1>c DEF Command
  <2>3. cmd.from = None /\ cmd.kind = kind /\ cmd.run = row.run /\ cmd.payload = None
    BY <2>2
  <2>4. cmd = Command(cmd.from, cmd.kind, cmd.source, cmd.run, cmd.payload)
    BY <2>2 DEF Command
  <2>5. None \in RunRef
    BY DEF RunRef
  <2>6. cmd.kind \in {"mark_completed", "mark_holding", "clear_holding"}
    BY <2>3
  <2> QED BY <2>1, <2>3, <2>4, <2>5, <2>6 DEF WellSent, SentKinds
<1>1. RunnerTyped'
  BY DEF Judge, Tell, files, runner, Settled, RunnerTyped, Phases
<1>2. RestTyped' /\ SeenInvariant'
  BY SpendType
  DEF Judge, Tell, files, runner, Settled, RestTyped, SeenInvariant, RunnerTyped
<1>3. Ages
  BY DEF Judge, Tell, files, runner, Settled, Ages, Past, RunnerTyped
<1>4. OnlyMeant
  BY <1>s, <1>m DEF OnlyMeant
<1>5. RunnerInvariant'
  BY
  DEF Judge, Tell, files, runner, Settled, RunnerInvariant, AgentRuns, RunnerTyped, Past
<1> QED BY <1>1, <1>2, <1>3, <1>4, <1>5 DEF StepFacts

\* A stop.
LEMMA StopStep ==
    ASSUME Settled, Stop
    PROVE  StepFacts
<1>1. RunnerTyped'
  BY DEF Stop, Signal, files, wires, ShownRunIsLive, Settled, RunnerTyped, Phases
<1>2. RestTyped' /\ SeenInvariant'
  BY SpendType
  DEF Stop, Signal, files, wires, ShownRunIsLive, Settled, RestTyped, SeenInvariant,
      RunnerTyped
<1>3. Ages
  BY DEF Stop, Signal, files, wires, ShownRunIsLive, Settled, Ages, Past, RunnerTyped
<1>4. OnlyMeant
  BY DEF Stop, Signal, files, wires, ShownRunIsLive, OnlyMeant
<1>5. RunnerInvariant'
  BY
  DEF Stop, Signal, files, wires, ShownRunIsLive, Settled, RunnerInvariant, AgentRuns,
      RunnerTyped, Past
<1> QED BY <1>1, <1>2, <1>3, <1>4, <1>5 DEF StepFacts

\* An archiving.
LEMMA ArchiveViewStep ==
    ASSUME Settled, ArchiveView
    PROVE  StepFacts
<1>c. PICK cmd : cmd = Command(None, "archive_view", "dashboard-user", None, None)
  OBVIOUS
<1>s. sent' \subseteq sent \cup {cmd}
  BY <1>c DEF ArchiveView, Signal, Tell, files, runner, wires, ShownRunIsLive
<1>m. WellSent(cmd)'
  BY <1>c
  DEF ArchiveView, Signal, Tell, files, runner, wires, ShownRunIsLive, Settled, Command,
      WellSent, SentKinds, RunRef, RunnerTyped, RunnerInvariant, Past
<1>1. RunnerTyped'
  BY
  DEF ArchiveView, Signal, Tell, files, runner, wires, ShownRunIsLive, Settled,
      RunnerTyped, Phases
<1>2. RestTyped' /\ SeenInvariant'
  <2>1. UNCHANGED <<queued, seen, answer>> /\ archived' = TRUE
    BY DEF ArchiveView, Tell, wires
  <2>2. killTimer' \subseteq Runs
    BY DEF ArchiveView, Signal, ShownRunIsLive, Settled, RestTyped
  <2>3. budget' \in Budget
    BY SpendType DEF ArchiveView, Settled, RestTyped
  <2>4. seen # None => phase'[seen.run] = "gone"
    BY
    DEF ArchiveView, Signal, ShownRunIsLive, runner, Settled, SeenInvariant,
        RunnerTyped, RestTyped, RunRef
  <2> QED BY <2>1, <2>2, <2>3, <2>4 DEF Settled, RestTyped, SeenInvariant
<1>3. Ages
  BY
  DEF ArchiveView, Signal, Tell, files, runner, wires, ShownRunIsLive, Settled, Ages,
      Past, RunnerTyped
<1>4. OnlyMeant
  BY <1>s, <1>m DEF OnlyMeant
<1>5. RunnerInvariant'
  BY
  DEF ArchiveView, Signal, Tell, files, runner, wires, ShownRunIsLive, Settled,
      RunnerInvariant, AgentRuns, RunnerTyped, Past
<1> QED BY <1>1, <1>2, <1>3, <1>4, <1>5 DEF StepFacts

\* A reconcile of a dead run.
LEMMA ReconcileSendStep ==
    ASSUME Settled, ReconcileSend
    PROVE  StepFacts
<1>c. PICK cmd : cmd = Reconcile(seen.run)
  OBVIOUS
<1>s. sent' \subseteq sent \cup {cmd}
  BY <1>c DEF ReconcileSend, Tell, files, runner
<1>m. WellSent(cmd)'
  BY <1>c
  DEF ReconcileSend, Tell, files, runner, Settled, Command, WellSent, SentKinds, RunRef,
      RunnerTyped, RunnerInvariant, Past, Reconcile, RestTyped, SeenInvariant
<1>1. RunnerTyped'
  BY DEF ReconcileSend, Tell, files, runner, Settled, RunnerTyped, Phases
<1>2. RestTyped' /\ SeenInvariant'
  BY DEF ReconcileSend, Tell, Settled, RestTyped, SeenInvariant, RunRef
<1>3. Ages
  BY DEF ReconcileSend, Tell, files, runner, Settled, Ages, Past, RunnerTyped
<1>4. OnlyMeant
  BY <1>s, <1>m DEF OnlyMeant
<1>5. RunnerInvariant'
  BY
  DEF ReconcileSend, Tell, files, runner, Settled, RunnerInvariant, AgentRuns,
      RunnerTyped, Past
<1> QED BY <1>1, <1>2, <1>3, <1>4, <1>5 DEF StepFacts

\* A row whose pair disagrees is left alone.
LEMMA ReconcileSkipStep ==
    ASSUME Settled, ReconcileSkip
    PROVE  StepFacts
<1>1. /\ UNCHANGED <<archived, queued, phase, mem, worker, stopping, killTimer, sent,
                     answer, budget>>
      /\ seen' = None
  BY DEF ReconcileSkip, runner, wires
<1>2. RunnerTyped' /\ RestTyped' /\ SeenInvariant'
  BY <1>1 DEF Settled, RunnerTyped, RestTyped, SeenInvariant
<1>3. Ages /\ OnlyMeant
  BY <1>1 DEF Ages, OnlyMeant, Past
<1>4. RunnerInvariant'
  BY <1>1 DEF Settled, RunnerInvariant, AgentRuns
<1> QED BY <1>2, <1>3, <1>4 DEF StepFacts

\* The end of the dashboards.
LEMMA DashboardsCloseStep ==
    ASSUME Settled, DashboardsClose
    PROVE  StepFacts
<1>1. RunnerTyped'
  BY DEF DashboardsClose, files, runner, wires, Settled, RunnerTyped, Phases
<1>2. RestTyped' /\ SeenInvariant'
  BY SpendType
  DEF DashboardsClose, files, runner, wires, Settled, RestTyped, SeenInvariant,
      RunnerTyped
<1>3. Ages
  BY DEF DashboardsClose, files, runner, wires, Settled, Ages, Past, RunnerTyped
<1>4. OnlyMeant
  BY DEF DashboardsClose, files, runner, wires, OnlyMeant
<1>5. RunnerInvariant'
  BY
  DEF DashboardsClose, files, runner, wires, Settled, RunnerInvariant, AgentRuns,
      RunnerTyped, Past
<1> QED BY <1>1, <1>2, <1>3, <1>4, <1>5 DEF StepFacts

\* The record a runner sends when its worker has closed, awaited or not.
LEMMA FinalMeant ==
    ASSUME Settled, NEW r \in Runs, NEW exitCode \in {"zero", "nonzero"},
           NEW next \in Past, EndRun(r, exitCode, next), stopping' = stopping,
           phase[r] \in {"working", "failing"}, NEW from \in {r, None}
    PROVE  WellSent(Final(from, r, exitCode))' /\ mem' \in [Runs -> Status]
<1>1. PICK cmd : cmd = Final(from, r, exitCode)
  OBVIOUS
<1>3. Facts(r, exitCode) \in Payload("run_finalized")
  BY DEF Facts, Payload
<1>4. PICK facts : facts = Facts(r, exitCode)
  OBVIOUS
<1>5. stopping[r] # "none" => facts.stoppedByUser
  BY <1>4 DEF Facts, Settled, RunnerTyped, RunnerInvariant
<1>6. phase'[r] \in Past
  BY DEF EndRun, Step, Settled, RunnerTyped
<1>7. cmd = [from |-> from, kind |-> "run_finalized", source |-> "job-runner", run |-> r,
             expectedRevision |-> None, payload |-> facts]
  BY <1>1, <1>4 DEF Final, Command
<1>8. /\ cmd.from = from /\ cmd.kind = "run_finalized" /\ cmd.run = r /\ cmd.payload = facts
      /\ cmd = Command(cmd.from, cmd.kind, cmd.source, cmd.run, cmd.payload)
  BY <1>7 DEF Command
<1>9. WellSent(cmd)'
  BY <1>3, <1>4, <1>5, <1>6, <1>8 DEF WellSent, SentKinds, RunRef
<1>10. cmd' = Final(from, r, exitCode)'
  BY <1>1, <1>4 DEF Final, Facts
<1>11. mem[r] \in Status /\ r \in RunRef
  BY DEF Settled, RunnerTyped, RunRef
<1>12. FinalizeRun(mem[r], r, Facts(r, exitCode)) \in Status
  BY <1>3, <1>11, ProjectionType
<1> QED BY <1>9, <1>10, <1>12 DEF EndRun, Settled, RunnerTyped

\* The close of a worker.
LEMMA WorkerClosesStep ==
    ASSUME Settled, NEW r \in Runs, WorkerCloses(r)
    PROVE  StepFacts
<1>1. PICK exitCode \in {"zero", "nonzero"} :
         EndRun(r, exitCode, "closing") /\ Ask(r, Final(r, r, exitCode))
  BY DEF WorkerCloses
<1>2. OnlyMeant /\ mem' \in [Runs -> Status]
  <2>1. WellSent(Final(r, r, exitCode))' /\ mem' \in [Runs -> Status]
    BY <1>1, FinalMeant DEF WorkerCloses, Past
  <2>2. Final(r, r, exitCode)' = Final(r, r, exitCode)
    BY DEF WorkerCloses, Final, Facts
  <2> QED BY <1>1, <2>1, <2>2 DEF Ask, OnlyMeant
<1>3. RunnerTyped'
  BY <1>1, <1>2 DEF WorkerCloses, EndRun, Step, Settled, RunnerTyped, Phases
<1>4. RestTyped' /\ SeenInvariant'
  BY <1>1 DEF WorkerCloses, EndRun, Ask, Step, Quiet, files, Settled, RestTyped,
              SeenInvariant, RunnerTyped
<1>5. Ages
  BY <1>1 DEF WorkerCloses, EndRun, Step, Settled, Ages, Past, RunnerTyped
<1>6. RunnerInvariant'
  BY <1>1
  DEF WorkerCloses, EndRun, Step, Settled, RunnerInvariant, AgentRuns, RunnerTyped,
      Past
<1> QED BY <1>2, <1>3, <1>4, <1>5, <1>6 DEF StepFacts

\* The end of a run whose worker could not be launched.
LEMMA FailedToLaunchStep ==
    ASSUME Settled, NEW r \in Runs, FailedToLaunch(r)
    PROVE  StepFacts
<1>1. EndRun(r, "nonzero", "leaving") /\ phase[r] = "failing" /\ UNCHANGED <<worker, stopping>>
  BY DEF FailedToLaunch
<1>2. OnlyMeant /\ mem' \in [Runs -> Status]
  <2>1. /\ WellSent(Final(r, r, "nonzero"))' /\ WellSent(Final(None, r, "nonzero"))'
        /\ mem' \in [Runs -> Status]
    BY <1>1, FinalMeant DEF Past
  <2>2. /\ Final(r, r, "nonzero")' = Final(r, r, "nonzero")
        /\ Final(None, r, "nonzero")' = Final(None, r, "nonzero")
    BY <1>1 DEF Final, Facts
  <2>3. sent' \subseteq sent \cup {Final(r, r, "nonzero"), Final(None, r, "nonzero")}
    BY DEF FailedToLaunch
  <2> QED BY <2>1, <2>2, <2>3 DEF OnlyMeant
<1>3. RunnerTyped'
  BY <1>1, <1>2 DEF EndRun, Step, Settled, RunnerTyped, Phases
<1>4. RestTyped' /\ SeenInvariant'
  BY <1>1 DEF FailedToLaunch, EndRun, Step, Quiet, files, Settled, RestTyped,
              SeenInvariant, RunnerTyped
<1>5. Ages
  BY <1>1 DEF EndRun, Step, Settled, Ages, Past, RunnerTyped
<1>6. RunnerInvariant'
  BY <1>1 DEF EndRun, Step, Settled, RunnerInvariant, AgentRuns, RunnerTyped, Past
<1> QED BY <1>2, <1>3, <1>4, <1>5, <1>6 DEF StepFacts

\* Where the links of the exit chain lead.
LEMMA Links ==
    /\ DOMAIN NextLink \subseteq Past \ {"gone", "leaving"}
    /\ \A link \in DOMAIN NextLink : NextLink[link] \in Past \ {"gone"}
BY DEF NextLink, Past

\* An answer in the exit chain.
LEMMA AnswerInChainStep ==
    ASSUME Settled, NEW r \in Runs, AnswerInChain(r)
    PROVE  StepFacts
<1>1. phase[r] \in Past \ {"gone"} /\ NextLink[phase[r]] \in Past \ {"gone"}
  BY Links DEF AnswerInChain
<1> DEFINE next == NextLink[phase[r]]
<1>2. phase' = [phase EXCEPT ![r] = next] /\ UNCHANGED <<worker, stopping, sent>>
  BY DEF AnswerInChain, Step
<1>3. /\ mem' \in [Runs -> Status]
      /\ \A p \in Runs : p # r => mem'[p] = mem[p]
  BY DEF AnswerInChain, Refreshed, Settled, RunnerTyped, FilesTyped
<1> HIDE DEF next
<1>4. next \in Past \ {"gone"}
  BY <1>1 DEF next
<1>5. RunnerTyped'
  BY <1>2, <1>3, <1>4 DEF Settled, RunnerTyped, Phases, Past
<1>6. RestTyped' /\ SeenInvariant'
  BY <1>1, <1>2
  DEF AnswerInChain, Consume, Quiet, files, Settled, RestTyped, SeenInvariant,
      RunnerTyped
<1>7. Ages
  BY <1>1, <1>2, <1>4 DEF Settled, Ages, RunnerTyped
<1>8. OnlyMeant
  BY <1>2 DEF OnlyMeant
<1>9. RunnerInvariant'
  BY <1>1, <1>2, <1>3, <1>4 DEF Settled, RunnerInvariant, AgentRuns, RunnerTyped, Past
<1> QED BY <1>5, <1>6, <1>7, <1>8, <1>9 DEF StepFacts

\* Every link of the exit chain is reached from the exit chain.
LEMMA BeforeIsPast ==
    \A link \in {"heuristic", "model", "summary", "plan", "drain"} :
        Before(link) \subseteq Past \ {"gone", "leaving"}
BY DEF Before, Past

\* A classification, whoever gives it.
LEMMA ClassifyMeant ==
    ASSUME Settled, NEW r \in Runs, NEW source \in {"heuristic", "model"}, NEW kind \in AutoKinds,
           Classify(r, source, kind)
    PROVE  OnlyMeant
<1>1. PICK cls : cls = [kind |-> kind, source |-> source]
  OBVIOUS
<1>2. PICK cmd : cmd = [from |-> r, kind |-> "auto_state_classified", source |-> "job-runner",
                        run |-> r, expectedRevision |-> None,
                        payload |-> [classification |-> cls]]
  OBVIOUS
<1>3. sent' = sent \cup {cmd}
  BY <1>1, <1>2 DEF Classify, Ask, Command
<1>4. cls \in Classification
  BY <1>1, RunAssumption DEF Classification
<1>5. /\ cmd.from = r /\ cmd.kind = "auto_state_classified" /\ cmd.run = r
      /\ cmd.payload = [classification |-> cls]
      /\ cmd = Command(cmd.from, cmd.kind, cmd.source, cmd.run, cmd.payload)
  BY <1>2 DEF Command
<1>6. WellSent(cmd)'
  BY <1>4, <1>5 DEF WellSent, SentKinds, RunRef
<1> QED BY <1>3, <1>6 DEF OnlyMeant

\* The heuristic classification.
LEMMA ApplyHeuristicAutoStateStep ==
    ASSUME Settled, NEW r \in Runs, ApplyHeuristicAutoState(r)
    PROVE  StepFacts
<1>1. PICK kind \in AutoKinds : Classify(r, "heuristic", kind)
  BY DEF ApplyHeuristicAutoState
<1>2. OnlyMeant
  BY <1>1, ClassifyMeant
<1>3. /\ phase[r] \in Past \ {"gone", "leaving"} /\ phase' = [phase EXCEPT ![r] = "heuristic"]
      /\ UNCHANGED <<mem, worker, stopping>>
  BY BeforeIsPast DEF ApplyHeuristicAutoState, Reach, Step
<1>4. RunnerTyped'
  BY <1>3 DEF Settled, RunnerTyped, Phases
<1>5. RestTyped' /\ SeenInvariant'
  BY <1>1, <1>3
  DEF ApplyHeuristicAutoState, Classify, Ask, Quiet, files, Settled, RestTyped,
      SeenInvariant, RunnerTyped
<1>6. Ages
  BY <1>3 DEF Settled, Ages, Past, RunnerTyped
<1>7. RunnerInvariant'
  BY <1>3 DEF Settled, RunnerInvariant, AgentRuns, RunnerTyped, Past
<1> QED BY <1>2, <1>4, <1>5, <1>6, <1>7 DEF StepFacts

\* The model's classification.
LEMMA MaybeModelAutoStateStep ==
    ASSUME Settled, NEW r \in Runs, MaybeModelAutoState(r)
    PROVE  StepFacts
<1>1. PICK kind \in AutoKinds : Classify(r, "model", kind)
  BY DEF MaybeModelAutoState
<1>2. OnlyMeant
  BY <1>1, ClassifyMeant
<1>3. /\ phase[r] \in Past \ {"gone", "leaving"} /\ phase' = [phase EXCEPT ![r] = "model"]
      /\ status[r] # Absent /\ mem' = [mem EXCEPT ![r] = status[r]]
      /\ UNCHANGED <<worker, stopping>>
  BY BeforeIsPast DEF MaybeModelAutoState, Reach, Step
<1>4. RunnerTyped'
  BY <1>3 DEF Settled, RunnerTyped, Phases, FilesTyped
<1>5. RestTyped' /\ SeenInvariant'
  BY <1>1, <1>3 DEF MaybeModelAutoState, Classify, Ask, Quiet, files, Settled, RestTyped,
                    SeenInvariant, RunnerTyped
<1>6. Ages
  BY <1>3 DEF Settled, Ages, Past, RunnerTyped
<1>7. RunnerInvariant'
  BY <1>3 DEF Settled, RunnerInvariant, AgentRuns, RunnerTyped, Past
<1> QED BY <1>2, <1>4, <1>5, <1>6, <1>7 DEF StepFacts

\* The drain of the queue by a run's exit chain.
LEMMA DrainQueuedFollowUpStep ==
    ASSUME Settled, NEW r \in Runs, NEW n \in Runs, DrainQueuedFollowUp(r, n)
    PROVE  StepFacts
<1>1. PICK cmd : cmd = [from |-> r, kind |-> "followup_started", source |-> "job-runner",
                        run |-> None, expectedRevision |-> None,
                        payload |-> [newRunId |-> n, status |-> QueuedStatus]]
  OBVIOUS
<1>2. sent' = sent \cup {cmd} /\ answer' = [answer EXCEPT ![r] = "pending"]
  BY <1>1 DEF DrainQueuedFollowUp, Ask, Command
<1>3. /\ cmd.from = r /\ cmd.kind = "followup_started" /\ cmd.run = None
      /\ cmd.payload = [newRunId |-> n, status |-> QueuedStatus]
      /\ cmd = Command(cmd.from, cmd.kind, cmd.source, cmd.run, cmd.payload)
  BY <1>1 DEF Command
<1>4. WellSent(cmd)'
  BY <1>3 DEF WellSent, SentKinds, RunRef
<1>5. OnlyMeant
  BY <1>2, <1>4 DEF OnlyMeant
<1>6. /\ phase[r] \in Past \ {"gone", "leaving"} /\ phase[n] = "unused"
      /\ phase' = [phase EXCEPT ![r] = "drain", ![n] = "booting"]
      /\ UNCHANGED <<mem, worker, stopping, archived, killTimer, seen, budget>>
      /\ queued > 0 /\ queued' = queued - 1
  BY BeforeIsPast DEF DrainQueuedFollowUp
<1>7. RunnerTyped'
  BY <1>6 DEF Settled, RunnerTyped, Phases
<1>8. RestTyped' /\ SeenInvariant'
  BY <1>2, <1>6 DEF Settled, RestTyped, SeenInvariant, RunnerTyped, RunRef
<1>9. Ages
  BY <1>6 DEF Settled, Ages, Past, RunnerTyped
<1>10. RunnerInvariant'
  BY <1>6 DEF Settled, RunnerInvariant, AgentRuns, RunnerTyped, Past
<1> QED BY <1>5, <1>7, <1>8, <1>9, <1>10 DEF StepFacts

\* reconcile only ever looks at a run whose runner is gone: a row at rest does
\* not look active, and a row alive without a recorded pid is taken as alive.
LEMMA ReconcileLookStep ==
    ASSUME Settled, ReconcileLook
    PROVE  StepFacts
<1>1. /\ LooksActive /\ row.run # None /\ ~RowAlive
      /\ seen' = [run |-> row.run, paired |-> stamped = row.run]
      /\ UNCHANGED <<row, status, archived, queued, phase, mem, worker, stopping, killTimer,
                     sent, answer, budget>>
  BY DEF ReconcileLook, files, runner, wires
<1>2. row.run \in Runs /\ row.proc \in {"alive", "exited"}
  BY <1>1 DEF Settled, FilesTyped, Row, RunRef, ProcessState
<1>3. row.proc = "alive"
  BY <1>1, <1>2 DEF LooksActive, Settled, RowInvariant, Active
<1>4. phase[row.run] = "gone"
  BY <1>1, <1>2, <1>3 DEF RowAlive, PidRecorded
<1>5. RunnerTyped' /\ RestTyped' /\ SeenInvariant'
  BY <1>1, <1>2, <1>4 DEF Settled, RunnerTyped, RestTyped, SeenInvariant, RunRef
<1>6. Ages /\ OnlyMeant
  BY <1>1 DEF Ages, OnlyMeant, Past
<1>7. RunnerInvariant'
  BY <1>1 DEF Settled, RunnerInvariant, AgentRuns
<1> QED BY <1>5, <1>6, <1>7 DEF StepFacts

\* A command that is lost.
LEMMA LoseStep ==
    ASSUME Settled, NEW cmd \in sent, Lose(cmd)
    PROVE  StepFacts
<1>1. UNCHANGED <<phase, mem, worker, stopping>> /\ sent' \subseteq sent
  BY DEF Lose, runner
<1>2. RestTyped' /\ SeenInvariant'
  BY SpendType DEF Lose, files, runner, Settled, RestTyped, SeenInvariant
<1>3. RunnerTyped' /\ RunnerInvariant'
  BY <1>1 DEF Settled, RunnerTyped, RunnerInvariant, AgentRuns
<1>4. Ages /\ OnlyMeant
  BY <1>1 DEF Ages, OnlyMeant, Past
<1> QED BY <1>2, <1>3, <1>4 DEF StepFacts

\* A beat that is torn.
LEMMA TearStep ==
    ASSUME Settled, NEW cmd \in sent, Tear(cmd)
    PROVE  StepFacts
<1>1. /\ UNCHANGED <<phase, mem, worker, stopping, archived, queued, killTimer, answer, seen>>
      /\ sent' \subseteq sent
  BY DEF Tear, runner
<1>2. RestTyped' /\ SeenInvariant'
  BY <1>1, SpendType DEF Tear, Settled, RestTyped, SeenInvariant
<1>3. RunnerTyped' /\ RunnerInvariant'
  BY <1>1 DEF Settled, RunnerTyped, RunnerInvariant, AgentRuns
<1>4. Ages /\ OnlyMeant
  BY <1>1 DEF Ages, OnlyMeant, Past
<1> QED BY <1>2, <1>3, <1>4 DEF StepFacts

\* A command that is decided.
LEMMA DecideStep ==
    ASSUME Settled, NEW cmd \in sent, Decide(cmd)
    PROVE  StepFacts
<1>1. /\ UNCHANGED <<phase, mem, worker, stopping, archived, queued, killTimer, seen, budget>>
      /\ sent' \subseteq sent
  BY DEF Decide, runner
<1>2. WellSent(cmd) /\ row \in Row
  BY DEF Settled, SentInvariant, FilesTyped
<1>3. BoundStatus(StatusRun(cmd, row)) \in Status \cup {Absent}
  BY <1>2, BoundToRun DEF BoundStatus, Settled, FilesTyped, RunRef
<1>4. Decision(cmd).reason \in Reasons
  BY <1>2, SentIsValid, DecisionReason DEF Decision, WellFormed
<1>7. answer' = [r \in Runs |-> IF cmd.from = r THEN Decision(cmd).reason ELSE answer[r]]
  BY DEF Decide
<1>8. RestTyped' /\ SeenInvariant'
  BY <1>1, <1>4, <1>7 DEF Settled, RestTyped, SeenInvariant
<1>9. RunnerTyped' /\ RunnerInvariant'
  BY <1>1 DEF Settled, RunnerTyped, RunnerInvariant, AgentRuns
<1>10. Ages /\ OnlyMeant
  BY <1>1 DEF Ages, OnlyMeant, Past
<1> QED BY <1>8, <1>9, <1>10 DEF StepFacts

\* Every step has these facts, and only a decision changes the files, all or in part.
LEMMA NextStep ==
    ASSUME Settled, Next
    PROVE  StepFacts /\ (UNCHANGED files \/ \E cmd \in sent : Decide(cmd) \/ Tear(cmd))
<1>1. ASSUME NEW r \in Runs, Launch(r) PROVE StepFacts
  BY <1>1, ReplyStep, DrainNextFollowUpStep, LaunchRunStep, LaunchFailsStep DEF Launch
<1>2. ASSUME NEW r \in Runs, Run(r) PROVE StepFacts
  BY <1>2, RunStartedStep, SpawnWorkerStep, WorkerErrorStep, BeatStep, WorkerClosesStep,
     FailedToLaunchStep, OrphanEndsStep, AnswerInChainStep, ApplyHeuristicAutoStateStep,
     MaybeModelAutoStateStep, PatchSummaryStep, FinalizeSteeringStep, ExitStep,
     RunnerDiesStep, DrainQueuedFollowUpStep
  DEF Run
<1>3. ASSUME NEW r \in Runs, ForceKill(r) \/ GiveUp(r) PROVE StepFacts
  BY <1>3, ForceKillStep, GiveUpStep
<1>4. ASSUME User PROVE StepFacts
  BY <1>4, ReplyQueuedStep, StopStep, ArchiveViewStep, JudgeStep DEF User
<1>5. ASSUME Dashboard PROVE StepFacts
  BY <1>5, ReconcileLookStep, ReconcileSendStep, ReconcileSkipStep, DashboardsCloseStep DEF Dashboard
<1>6. ASSUME Coordinator PROVE StepFacts
  BY <1>6, DecideStep, LoseStep, TearStep DEF Coordinator
<1>7. StepFacts
  BY <1>1, <1>2, <1>3, <1>4, <1>5, <1>6 DEF Next
<1>8. ASSUME NEW r \in Runs, Launch(r) PROVE UNCHANGED files
  BY <1>8
  DEF Launch, Reply, DrainNextFollowUp, LaunchForView, LaunchRun, LaunchFails, files
<1>9. ASSUME NEW r \in Runs, Run(r) PROVE UNCHANGED files
  BY <1>9
  DEF Run, RunStarted, SpawnWorker, WorkerError, Beat, WorkerCloses, FailedToLaunch,
      OrphanEnds, AnswerInChain, ApplyHeuristicAutoState, MaybeModelAutoState,
      PatchSummary, FinalizeSteering, Exit, RunnerDies, DrainQueuedFollowUp, Quiet,
      files
<1>10. ASSUME NEW r \in Runs, ForceKill(r) \/ GiveUp(r) PROVE UNCHANGED files
  BY <1>10 DEF ForceKill, GiveUp, files
<1>11. ASSUME User PROVE UNCHANGED files
  BY <1>11 DEF User, ReplyQueued, Stop, ArchiveView, Judge, files
<1>12. ASSUME Dashboard PROVE UNCHANGED files
  BY <1>12 DEF Dashboard, ReconcileLook, ReconcileSend, ReconcileSkip, DashboardsClose, files
<1>13. ASSUME NEW cmd \in sent, Lose(cmd) PROVE UNCHANGED files
  BY <1>13 DEF Lose, files
<1>14. UNCHANGED files \/ \E cmd \in sent : Decide(cmd) \/ Tear(cmd)
  BY <1>8, <1>9, <1>10, <1>11, <1>12, <1>13 DEF Next, Coordinator
<1> QED BY <1>7, <1>14

----------------------------------------------------------------------------
(* The invariant.                                                          *)

\* Everything that the safety of a run rests on.
StampTyped == stamped \in RunRef
RunInvariant == Settled /\ StatusInvariant /\ StampTyped

\* A decision keeps a row at rest from looking active.
LEMMA RowKept ==
    ASSUME Settled, StatusInvariant, NEW cmd \in sent, Outcome(cmd), FilesTyped'
    PROVE  RowInvariant'
<1>1. /\ WellSent(cmd) /\ RowInvariant
      /\ row.proc \in {"alive", "exited"} /\ row'.proc \in {"alive", "exited"}
  BY DEF Settled, SentInvariant, FilesTyped, Row, ProcessState
<1>2. CASE UNCHANGED files
  BY <1>1, <1>2 DEF files, RowInvariant
<1>3. CASE cmd.kind \in JudgingKinds /\ Judgement(cmd)
  BY <1>1, <1>3 DEF Judgement, RowInvariant
<1>4. CASE Queueing(cmd) \/ Starting(cmd) \/ Beating(cmd)
  BY <1>4 DEF Queueing, Starting, Beating, RowInvariant
<1>5. CASE Finalizing(cmd)
  BY <1>5 DEF Finalizing, RowInvariant
<1>6. CASE cmd.kind = "reconcile_finalize" /\ Reconciling(cmd)
  <2>1. cmd.run \in Runs
    BY <1>1, <1>6 DEF WellSent
  <2>2. status[cmd.run] # Absent => Rests(status[cmd.run])
    BY <2>1 DEF StatusInvariant
  <2> QED BY <1>6, <2>2 DEF Reconciling, Rests, RowInvariant
<1> QED BY <1>2, <1>3, <1>4, <1>5, <1>6 DEF Outcome

\* A decision ends only the run of a runner that is past its work, as stopped
\* when a stop had been seen, and no classification talks it out of that.
LEMMA StatusKept ==
    ASSUME Settled, StatusInvariant, NEW cmd \in sent, Decide(cmd), Outcome(cmd), FilesTyped'
    PROVE  StatusInvariant'
<1> DEFINE Good(r, st) ==
              st # Absent =>
                /\ Rests(st)
                /\ st.ended => /\ phase[r] \in Past
                               /\ stopping[r] # "none" => st.sem \in {"stopped", "failed"}
<1>1. WellSent(cmd) /\ status \in [Runs -> Status \cup {Absent}] /\ row \in Row
  BY DEF Settled, SentInvariant, FilesTyped
<1>2. UNCHANGED <<phase, stopping>>
  BY DEF Decide, runner
<1>3. \A r \in Runs : Good(r, status[r])
  BY DEF StatusInvariant
<1>4. SUFFICES \A r \in Runs : Good(r, status'[r])
  BY <1>2 DEF StatusInvariant, Rests
<1>5. CASE UNCHANGED files \/ Queueing(cmd)
  BY <1>3, <1>5 DEF files, Queueing
<1>6. CASE cmd.kind \in JudgingKinds /\ Judgement(cmd)
  <2>1. SUFFICES ASSUME NEW r \in Runs PROVE Good(r, status'[r])
    OBVIOUS
  <2>2. SameLife(status[r], status'[r]) /\ Good(r, status[r])
    BY <1>3, <1>6 DEF Judgement
  <2> QED BY <2>2 DEF SameLife, Rests, Active
<1>7. CASE cmd.kind \in {"run_started", "followup_started"} /\ Starting(cmd)
  <2>1. PICK st \in {BootStatus, QueuedStatus} :
           status' = [status EXCEPT ![StatusRun(cmd, row)] = st]
    BY <1>7 DEF Starting
  <2>2. \A r \in Runs : Good(r, st)
    BY BootStatuses DEF Rests
  <2>3. \A r \in Runs : status'[r] \in {status[r], st}
    BY <1>1, <2>1
  <2> HIDE DEF Good
  <2> QED BY <1>3, <2>2, <2>3
<1>8. CASE cmd.kind = "run_progress" /\ Beating(cmd)
  <2>1. \A r \in Runs : Good(r, BootStatus)
    BY BootStatuses DEF Rests
  <2>2. \A r \in Runs : status'[r] \in {status[r], BootStatus}
    BY <1>1, <1>8 DEF Beating
  <2> HIDE DEF Good
  <2> QED BY <1>3, <2>1, <2>2
<1>9. CASE cmd.kind = "run_finalized" /\ Finalizing(cmd)
  <2>1. PICK st \in Status :
           /\ status' = [status EXCEPT ![cmd.run] = st]
           /\ st.ended /\ st.proc = "exited" /\ st.sem \notin Active
           /\ cmd.payload.stoppedByUser => st.sem = "stopped"
    BY <1>9 DEF Finalizing
  <2>2. /\ cmd.run \in Runs /\ phase[cmd.run] \in Past
        /\ stopping[cmd.run] # "none" => cmd.payload.stoppedByUser
    BY <1>1, <1>9 DEF WellSent
  <2>3. Good(cmd.run, st)
    BY <2>1, <2>2 DEF Rests
  <2>4. \A r \in Runs : status'[r] = IF r = cmd.run THEN st ELSE status[r]
    BY <1>1, <2>1
  <2> HIDE DEF Good
  <2> QED BY <1>3, <2>3, <2>4
<1>10. CASE cmd.kind = "reconcile_finalize" /\ Reconciling(cmd)
  <2>1. CASE UNCHANGED status
    BY <1>3, <2>1
  <2>2. CASE ~UNCHANGED status
    <3>1. PICK st \in Status :
             /\ status' = [status EXCEPT ![cmd.run] = st]
             /\ st.ended /\ st.proc = "exited" /\ st.sem = "failed"
      BY <1>10, <2>2 DEF Reconciling
    <3>2. cmd.run \in Runs /\ phase[cmd.run] = "gone"
      BY <1>1, <1>10 DEF WellSent
    <3>3. Good(cmd.run, st)
      BY <3>1, <3>2 DEF Rests, Past, Active
    <3>4. \A r \in Runs : status'[r] = IF r = cmd.run THEN st ELSE status[r]
      BY <1>1, <3>1
    <3> HIDE DEF Good
    <3> QED BY <1>3, <3>3, <3>4
  <2> QED BY <2>1, <2>2
<1> QED BY <1>5, <1>6, <1>7, <1>8, <1>9, <1>10 DEF Outcome

\* The invariant holds at the start.
LEMMA RunInit == Init => RunInvariant
<1> SUFFICES ASSUME Init PROVE RunInvariant
  OBVIOUS
<1>1. NewRow \in Row /\ NewRow.run = None
  BY DEF NewRow, Row, SemanticState, ProcessState, RunRef, AutoRef
<1>2. FilesTyped /\ RowInvariant
  BY <1>1 DEF Init, FilesTyped, RowInvariant
<1>3. RunnerTyped /\ RunnerInvariant
  BY BootStatuses DEF Init, RunnerTyped, Phases, RunnerInvariant, AgentRuns
<1>4. RestTyped
  BY RunAssumption DEF Init, RestTyped, RunRef
<1>5. SentInvariant /\ SeenInvariant /\ StatusInvariant /\ StampTyped
  BY DEF Init, SentInvariant, SeenInvariant, StatusInvariant, StampTyped, RunRef
<1> QED BY <1>2, <1>3, <1>4, <1>5 DEF RunInvariant, Settled

\* Every step preserves it.
LEMMA RunStep == RunInvariant /\ [Next]_vars => RunInvariant'
<1> SUFFICES ASSUME RunInvariant, [Next]_vars PROVE RunInvariant'
  OBVIOUS
<1>0. Settled /\ StatusInvariant /\ StampTyped
  BY DEF RunInvariant
<1>1. CASE UNCHANGED vars
  <2>1. /\ row' = row /\ status' = status /\ archived' = archived /\ queued' = queued
        /\ phase' = phase /\ mem' = mem /\ worker' = worker /\ stopping' = stopping
        /\ killTimer' = killTimer /\ sent' = sent /\ answer' = answer /\ seen' = seen
        /\ budget' = budget /\ stamped' = stamped
    BY <1>1 DEF vars
  <2>2. FilesTyped' /\ RunnerTyped' /\ RestTyped' /\ RowInvariant' /\ SeenInvariant'
    BY <1>0, <2>1
    DEF Settled, FilesTyped, RunnerTyped, RestTyped, RowInvariant, SeenInvariant
  <2>3. RunnerInvariant' /\ StatusInvariant' /\ StampTyped'
    BY <1>0, <2>1 DEF Settled, RunnerInvariant, AgentRuns, StatusInvariant, StampTyped
  <2>4. Ages /\ OnlyMeant
    BY <2>1 DEF Ages, OnlyMeant, Past
  <2>5. SentInvariant'
    BY <1>0, <2>2, <2>4, SentStep DEF Settled
  <2> QED BY <2>2, <2>3, <2>5 DEF RunInvariant, Settled
<1>2. CASE Next
  <2>1. StepFacts /\ (UNCHANGED files \/ \E cmd \in sent : Decide(cmd) \/ Tear(cmd))
    BY <1>0, <1>2, NextStep
  <2>2. SentInvariant'
    BY <1>0, <2>1, SentStep DEF StepFacts, Settled
  <2>3. FilesTyped' /\ RowInvariant' /\ StatusInvariant' /\ StampTyped'
    <3>1. CASE UNCHANGED files
      <4>1. row' = row /\ status' = status /\ stamped' = stamped
        BY <3>1 DEF files
      <4>2. FilesTyped' /\ RowInvariant' /\ StampTyped'
        BY <1>0, <4>1 DEF Settled, FilesTyped, RowInvariant, StampTyped
      <4>3. StatusInvariant'
        BY <1>0, <2>1, <4>1 DEF StatusInvariant, StepFacts, Ages
      <4> QED BY <4>2, <4>3
    <3>2. CASE \E cmd \in sent : Decide(cmd)
      <4>1. PICK cmd \in sent : Decide(cmd)
        BY <3>2
      <4>2. WellSent(cmd) /\ FilesTyped
        BY <1>0 DEF Settled, SentInvariant
      <4>3. FilesTyped' /\ Outcome(cmd)
        BY <4>1, <4>2, DecideOutcome
      <4>4. StampTyped'
        BY <1>0, <4>1, <4>2, DecideStamps DEF StampTyped
      <4> QED BY <1>0, <4>1, <4>3, <4>4, RowKept, StatusKept
    <3>3. CASE \E cmd \in sent : Tear(cmd)
      <4>1. PICK cmd \in sent : Tear(cmd)
        BY <3>3
      <4>2. WellSent(cmd) /\ FilesTyped
        BY <1>0 DEF Settled, SentInvariant
      <4>3. row' \in Row /\ row'.proc = "alive" /\ status' = status /\ stamped' = None
        BY <4>1, <4>2, TearOutcome
      <4>4. FilesTyped' /\ RowInvariant' /\ StampTyped'
        BY <4>2, <4>3 DEF FilesTyped, RowInvariant, StampTyped, RunRef
      <4>5. StatusInvariant'
        BY <1>0, <2>1, <4>3 DEF StatusInvariant, StepFacts, Ages
      <4> QED BY <4>4, <4>5
    <3> QED BY <2>1, <3>1, <3>2, <3>3
  <2> QED BY <2>1, <2>2, <2>3 DEF StepFacts, RunInvariant, Settled
<1> QED BY <1>1, <1>2

\* The runs' invariant holds in every behaviour.
THEOREM RunsKeepInvariant == Spec => []RunInvariant
<1> QED BY RunInit, RunStep, PTL DEF Spec

\* What the invariant says of types.
LEMMA InvariantTyped == RunInvariant => TypeOK
<1> SUFFICES ASSUME RunInvariant PROVE TypeOK
  OBVIOUS
<1>1. \A cmd \in sent : cmd.from \in Runs \cup {None} /\ ValidCommand(cmd)
  BY SentIsValid DEF RunInvariant, Settled, SentInvariant, WellSent, WellFormed, RunRef
<1> QED BY <1>1 DEF RunInvariant, Settled, FilesTyped, RunnerTyped, RestTyped, StampTyped, TypeOK

----------------------------------------------------------------------------
(* What follows.                                                           *)

\* The row, the status files, the runners and the commands on their way are
\* always what their types say (row and status schemas, validateCommand).
THEOREM TypeCorrect == Spec => []TypeOK
<1> QED BY RunsKeepInvariant, InvariantTyped, PTL

\* A run is on record as over only when its runner is gone or its agent has
\* ended, however the commands of reconcile, of other runs and of late beats
\* are ordered, delayed or lost (decideRunFinalized, decideReconcileFinalize).
THEOREM RecordedEndIsReal == Spec => []EndedMeansOver
<1>1. RunInvariant => EndedMeansOver
  BY
  DEF RunInvariant, Settled, StatusInvariant, RunnerInvariant, EndedMeansOver, Ended,
      Live, Past
<1> QED BY <1>1, RunsKeepInvariant, PTL

\* A stop that reached a run is how the run ends on record, or it ends as
\* failed: no classification and no late beat talks it out of it (the latch of
\* job-runner.mjs, decideRunFinalized, applyAutoStateToStatus).
THEOREM StopIsRecorded == Spec => []StopIsKept
<1>1. RunInvariant => StopIsKept
  BY DEF RunInvariant, StatusInvariant, StopIsKept, Ended
<1> QED BY <1>1, RunsKeepInvariant, PTL

\* No decision reopens a run that is over, or shows it alive again, except an
\* announcement of that very run (decideRunProgress, decideReconcileFinalize).
LEMMA OverStands ==
    ASSUME RunInvariant, NEW cmd \in sent, Decide(cmd), NEW r \in Runs, Over(r)
    PROVE  Over(r)' \/ Announces(cmd, r)
<1>1. WellSent(cmd) /\ FilesTyped
  BY DEF RunInvariant, Settled, SentInvariant
<1>2. FilesTyped' /\ Outcome(cmd)
  BY <1>1, DecideOutcome
<1>3. /\ status[r] # Absent /\ status[r].ended /\ status[r].proc = "exited"
      /\ status[r].sem \notin Active
      /\ ~(row.run = r /\ row.proc = "alive")
  BY DEF Over, Ended, RunInvariant, StatusInvariant, Rests
<1>4. status \in [Runs -> Status \cup {Absent}]
  BY <1>1 DEF FilesTyped
<1>5. CASE UNCHANGED files
  BY <1>3, <1>5 DEF files, Over, Ended
<1>6. CASE cmd.kind \in JudgingKinds /\ Judgement(cmd)
  <2>1. SameLife(status[r], status'[r])
    BY <1>6 DEF Judgement
  <2>2. status'[r] # Absent /\ status'[r].ended
    BY <1>3, <2>1 DEF SameLife
  <2>3. ~(row'.run = r /\ row'.proc = "alive")
    BY <1>3, <1>6 DEF Judgement
  <2> QED BY <2>2, <2>3 DEF Over, Ended
<1>7. CASE cmd.kind = "mark_queued" /\ Queueing(cmd)
  BY <1>3, <1>7 DEF Queueing, Announces, Over, Ended
<1>8. CASE cmd.kind \in {"run_started", "followup_started"} /\ Starting(cmd)
  BY <1>3, <1>4, <1>8 DEF Starting, Announces, Over, Ended
<1>9. CASE cmd.kind = "run_progress" /\ Beating(cmd)
  BY <1>3, <1>4, <1>9 DEF Beating, Over, Ended
<1>10. CASE cmd.kind = "run_finalized" /\ Finalizing(cmd)
  <2>1. \E st \in Status : st.ended /\ status'[r] \in {status[r], st}
    BY <1>4, <1>10 DEF Finalizing
  <2> QED BY <1>3, <1>10, <2>1, AbsentAssumption DEF Finalizing, Over, Ended
<1>11. CASE cmd.kind = "reconcile_finalize" /\ Reconciling(cmd)
  <2>1. CASE UNCHANGED status
    BY <1>3, <1>11, <2>1 DEF Reconciling, Over, Ended
  <2>2. CASE ~UNCHANGED status
    <3>1. row'.proc = "exited"
      BY <1>11, <2>2 DEF Reconciling
    <3>2. \E st \in Status : st.ended /\ status'[r] \in {status[r], st}
      BY <1>4, <1>11, <2>2 DEF Reconciling
    <3> QED BY <1>3, <3>1, <3>2, AbsentAssumption DEF Over, Ended
  <2> QED BY <2>1, <2>2
<1> QED BY <1>2, <1>5, <1>6, <1>7, <1>8, <1>9, <1>10, <1>11 DEF Outcome

\* So what is final stands, in every behaviour.
THEOREM FinalStays == Spec => FinalStands
<1>1. ASSUME RunInvariant, [Next]_vars
      PROVE  [\A r \in Runs : Over(r) =>
                 Over(r)' \/ \E cmd \in sent \ sent' : Announces(cmd, r)]_vars
  <2>1. SUFFICES ASSUME Next, NEW r \in Runs, Over(r)
                 PROVE  Over(r)' \/ \E cmd \in sent \ sent' : Announces(cmd, r)
    BY <1>1
  <2>2. UNCHANGED files \/ \E cmd \in sent : Decide(cmd) \/ Tear(cmd)
    BY <1>1, <2>1, NextStep DEF RunInvariant
  <2>3. CASE UNCHANGED files
    BY <2>1, <2>3 DEF files, Over, Ended
  <2>4. CASE \E cmd \in sent : Decide(cmd)
    <3>1. PICK cmd \in sent : Decide(cmd)
      BY <2>4
    <3>2. cmd \in sent \ sent'
      BY <3>1 DEF Decide
    <3>3. Over(r)' \/ Announces(cmd, r)
      BY <1>1, <2>1, <3>1, OverStands
    <3> QED BY <3>2, <3>3
  <2>5. CASE \E cmd \in sent : Tear(cmd)
    <3>1. PICK cmd \in sent : Tear(cmd)
      BY <2>5
    <3>2. WellSent(cmd) /\ FilesTyped
      BY <1>1 DEF RunInvariant, Settled, SentInvariant
    <3>3. /\ row.proc = "alive" /\ row.run = cmd.run
          /\ row'.proc = "alive" /\ row'.run = cmd.run /\ status' = status
      BY <3>1, <3>2, TearOutcome
    <3> QED BY <2>1, <3>3 DEF Over, Ended
  <2> QED BY <2>2, <2>3, <2>4, <2>5
<1> QED BY <1>1, RunsKeepInvariant, PTL DEF Spec, FinalStands
=============================================================================
