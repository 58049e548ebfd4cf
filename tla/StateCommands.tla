--------------------------- MODULE StateCommands ---------------------------
(***************************************************************************)
(* The decision layer of the View State Coordinator                        *)
(* (src/core/state-commands.mjs): which semantic-state commands may change *)
(* a board row, and what they change.  Pure operators, no state.           *)
(*                                                                         *)
(* A row is the view's state.json, a status is one run's status.json.      *)
(* Both are abstracted to the fields a guard or a property reads: the      *)
(* semantic state, the process state, the run the row shows, the automatic *)
(* classification, whether the run has ended, whether its text asks the    *)
(* user something, and "note", the run whose output the summary text       *)
(* describes (None: a fixed text).  Timestamps, previews, tool prompts and *)
(* evidence mirrors are left out.                                          *)
(***************************************************************************)
EXTENDS Naturals

CONSTANTS
    Runs,       \* run ids
    None,       \* the null of a nullable field
    Absent,     \* a status.json that does not exist
    Keep,       \* a field a sparse patch leaves alone
    NoPatch     \* a decision that carries no status patch

ASSUME RunsAssumption == None \notin Runs /\ Keep \notin Runs /\ None # Keep

----------------------------------------------------------------------------
(* The vocabulary of the commands and of the rows they change.             *)

SemanticState == {"queued", "working", "needs_input", "idle", "holding",
                  "completed", "failed", "stopped"}
ProcessState == {"alive", "exited"}
AutoKind == {"needs_input", "in_progress", "done"}
Classification == [kind : AutoKind, source : {"heuristic", "model"}]
RunRef == Runs \cup {None}
AutoRef == Classification \cup {None}

Row == [sem : SemanticState, proc : ProcessState, run : RunRef,
        auto : AutoRef, note : RunRef]
Status == [sem : SemanticState, proc : ProcessState, auto : AutoRef,
           ended : BOOLEAN, asks : BOOLEAN, note : RunRef]

ASSUME AbsentAssumption == Absent \notin Status

\* The sparse field patches a decision carries and the journal stores.
RowPatch == [sem : SemanticState \cup {Keep}, proc : ProcessState \cup {Keep},
             run : RunRef \cup {Keep}, auto : AutoRef \cup {Keep},
             note : RunRef \cup {Keep}]
StatusPatch == [sem : SemanticState \cup {Keep}, proc : ProcessState \cup {Keep},
                auto : AutoRef \cup {Keep}, ended : BOOLEAN \cup {Keep},
                asks : BOOLEAN \cup {Keep}, note : RunRef \cup {Keep}]

\* undefined is no value of a field, and a missing patch is not a patch.
ASSUME KeepAssumption ==
    /\ Keep \notin SemanticState \cup ProcessState /\ Keep \notin BOOLEAN
    /\ Keep \notin Classification
    /\ NoPatch \notin StatusPatch

Kinds == {"mark_completed", "mark_holding", "clear_holding",
          "auto_state_classified", "run_finalized", "mark_queued",
          "run_started", "run_progress", "reconcile_finalize",
          "host_run_failed", "archive_view", "adopt_session",
          "sync_foreground", "plan_ready", "followup_started", "patch_fields"}

\* Applied without journal, dedupe or checkpoint: a lost beat is overwritten
\* by the next one.
TransientKinds == {"run_progress"}

\* Kinds whose status patch may create the run's status file.
StatusBootstrapKinds == {"run_started", "followup_started", "run_progress"}

Sources == {"dashboard-user", "service", "job-runner", "state-runner", "pty-runner"}
PatchableField == {"review", "evidenceSummary", "summary",
                   "latestAssistantPreview", "lastVisitedAt"}

\* What each source may merge with patch_fields; the fields not listed must
\* travel through a kind of their own.
PatchableFields(source) ==
    CASE source = "job-runner" ->
            [state |-> {"review", "evidenceSummary", "summary", "latestAssistantPreview"},
             status |-> {"evidenceSummary", "summary", "latestAssistantPreview"}]
      [] source = "state-runner" ->
            [state |-> {"review", "evidenceSummary"}, status |-> {"evidenceSummary"}]
      [] source = "service" ->
            [state |-> {"lastVisitedAt", "summary"}, status |-> {}]
      [] source = "dashboard-user" ->
            [state |-> {"lastVisitedAt"}, status |-> {}]
      [] OTHER -> [state |-> {}, status |-> {}]

\* The payload each kind must carry to pass validation.  A run_progress beat
\* is the runner's whole in-memory status, as the only sender builds it.
Payload(kind) ==
    CASE kind = "auto_state_classified" -> [classification : Classification]
      [] kind = "run_finalized" ->
            [exitCode : {"zero", "nonzero"}, stopReason : {"none", "aborted"},
             stoppedByUser : BOOLEAN, asks : BOOLEAN]
      [] kind = "mark_queued" -> [runId : RunRef]
      [] kind = "plan_ready" -> [runId : Runs]
      [] kind \in {"run_started", "run_progress"} -> [status : Status]
      [] kind = "followup_started" -> [newRunId : Runs, status : Status]
      [] kind = "reconcile_finalize" ->
            [project : BOOLEAN, sem : {"failed", "idle"}]
      [] kind = "sync_foreground" -> [projection : Row]
      [] kind = "patch_fields" ->
            [state : SUBSET PatchableField, status : SUBSET PatchableField,
             note : RunRef, differs : BOOLEAN]
      [] OTHER -> {None}

Envelope(Ids, Views) ==
    [id : Ids, kind : Kinds, source : Sources, view : Views, run : RunRef,
     expectedRevision : Nat \cup {None}, payload : UNION {Payload(k) : k \in Kinds}]

\* The commands validateCommand lets through.
ValidCommand(cmd) ==
    /\ cmd.payload \in Payload(cmd.kind)
    /\ cmd.kind = "run_started" => cmd.run # None

----------------------------------------------------------------------------
(* Patches.                                                                *)

KeepRow == [sem |-> Keep, proc |-> Keep, run |-> Keep, auto |-> Keep, note |-> Keep]
KeepStatus == [sem |-> Keep, proc |-> Keep, auto |-> Keep, ended |-> Keep,
               asks |-> Keep, note |-> Keep]

Changed(before, after) == IF before = after THEN Keep ELSE after

DiffRow(before, after) ==
    [sem |-> Changed(before.sem, after.sem), proc |-> Changed(before.proc, after.proc),
     run |-> Changed(before.run, after.run), auto |-> Changed(before.auto, after.auto),
     note |-> Changed(before.note, after.note)]

\* The diff against a missing status carries every field.
DiffStatus(before, after) ==
    IF before = Absent THEN after
    ELSE [sem |-> Changed(before.sem, after.sem), proc |-> Changed(before.proc, after.proc),
          auto |-> Changed(before.auto, after.auto), ended |-> Changed(before.ended, after.ended),
          asks |-> Changed(before.asks, after.asks), note |-> Changed(before.note, after.note)]

Patched(old, new) == IF new = Keep THEN old ELSE new

\* Spreading a patch whose absent fields are undefined overwrites with them.
Spread_MergeRow(row, patch) == patch
MergeRow(row, patch) ==
    [sem |-> Patched(row.sem, patch.sem), proc |-> Patched(row.proc, patch.proc),
     run |-> Patched(row.run, patch.run), auto |-> Patched(row.auto, patch.auto),
     note |-> Patched(row.note, patch.note)]

MergeStatus(st, patch) ==
    [sem |-> Patched(st.sem, patch.sem), proc |-> Patched(st.proc, patch.proc),
     auto |-> Patched(st.auto, patch.auto), ended |-> Patched(st.ended, patch.ended),
     asks |-> Patched(st.asks, patch.asks), note |-> Patched(st.note, patch.note)]

----------------------------------------------------------------------------
(* Derivations the decisions delegate to.                                  *)

\* A user judgment: a verdict state with no automatic classification.
IsManualVerdict(x) == x.sem \in {"completed", "holding"} /\ x.auto = None

SemanticStateForAutoKind(kind) ==
    CASE kind = "needs_input" -> "needs_input"
      [] kind = "done" -> "completed"
      [] OTHER -> "idle"

\* The same gates guard the row half and the status half of a classification.
AcceptsAutoState(x) ==
    /\ x.proc # "alive"
    /\ x.sem \notin {"failed", "stopped"}
    /\ ~IsManualVerdict(x)

ApplyAutoStateToViewState(row, cls) ==
    IF AcceptsAutoState(row)
    THEN [row EXCEPT !.sem = SemanticStateForAutoKind(cls.kind), !.auto = cls]
    ELSE row

ApplyAutoStateToStatus(st, cls) ==
    IF AcceptsAutoState(st)
    THEN [st EXCEPT !.sem = SemanticStateForAutoKind(cls.kind), !.auto = cls,
                    !.asks = (cls.kind = "needs_input")]
    ELSE st

FinalizeSemanticState(facts, needsInput) ==
    IF facts.stoppedByUser THEN "stopped"
    ELSE IF facts.exitCode = "nonzero" \/ facts.stopReason = "aborted" THEN "failed"
    ELSE IF needsInput THEN "needs_input"
    ELSE "idle"

\* Terminal state of a finished run: the final text may ask a question, and a
\* question the last beat left in the status counts as well.  The summary is
\* derived from the run's own output.  (An interactive tool's pending questions, which
\* void the status's question, are reduced from foreground sessions only: their mirror
\* patches the row and no status file.)
FinalizeRun(st, runId, facts) ==
    LET needsInput == facts.asks \/ st.asks
    IN  [st EXCEPT !.sem = FinalizeSemanticState(facts, needsInput), !.proc = "exited",
                   !.ended = TRUE, !.asks = needsInput, !.note = runId]

\* The row a status projects to: the row takes the status's run and verdict,
\* and keeps its own classification when the status has none.
ProjectViewState(st, runId, previous) ==
    [sem |-> st.sem, proc |-> st.proc, run |-> runId,
     auto |-> IF st.auto # None THEN st.auto ELSE previous.auto,
     note |-> st.note]

----------------------------------------------------------------------------
(* Decisions.                                                              *)

Reasons == {"applied", "revision_conflict", "stale_run", "manual_fence", "busy",
            "no_change", "source_not_allowed", "field_not_allowed"}

Reject(reason) ==
    [action |-> "reject", reason |-> reason, row |-> KeepRow, status |-> NoPatch]
Apply(rowPatch, statusPatch) ==
    [action |-> "apply", reason |-> "applied", row |-> rowPatch, status |-> statusPatch]

ClearAutoState == [KeepStatus EXCEPT !.auto = None]
Verdict(sem) == [KeepRow EXCEPT !.sem = sem, !.proc = "exited", !.auto = None]

\* The run whose status.json the command is bound to when it is decided.
StatusRun(cmd, row) ==
    IF cmd.kind = "followup_started" THEN cmd.payload.newRunId
    ELSE IF cmd.run # None THEN cmd.run
    ELSE row.run

DecideMarkCompleted(row) ==
    IF row.proc = "alive" THEN Reject("busy")
    ELSE Apply(Verdict("completed"), ClearAutoState)

DecideMarkHolding(cmd, row) ==
    IF cmd.source # "dashboard-user" THEN Reject("source_not_allowed")
    ELSE IF row.proc = "alive" THEN Reject("busy")
    ELSE Apply(Verdict("holding"), ClearAutoState)

DecideClearHolding(cmd, row) ==
    IF cmd.source # "dashboard-user" THEN Reject("source_not_allowed")
    ELSE IF row.sem # "holding" THEN Reject("no_change")
    ELSE IF row.proc = "alive" THEN Reject("busy")
    ELSE Apply(Verdict("idle"), ClearAutoState)

DecideAutoState(cmd, row, st) ==
    LET newRow == ApplyAutoStateToViewState(row, cmd.payload.classification)
        newStatus == IF st = Absent THEN Absent
                     ELSE ApplyAutoStateToStatus(st, cmd.payload.classification)
    IN  IF newRow = row /\ newStatus = st THEN Reject("no_change")
        ELSE Apply(DiffRow(row, newRow),
                   IF newStatus = st THEN NoPatch ELSE DiffStatus(st, newStatus))

DecideRunFinalized(cmd, row, st) ==
    IF st = Absent \/ row.run # cmd.run \/ row.proc # "alive" THEN Reject("stale_run")
    ELSE LET final == FinalizeRun(st, cmd.run, cmd.payload)
         IN  Apply(DiffRow(row, ProjectViewState(final, cmd.run, row)), DiffStatus(st, final))

DecideMarkQueued(cmd) ==
    Apply([sem |-> "queued", proc |-> "alive", run |-> cmd.payload.runId,
           auto |-> None, note |-> None], NoPatch)

\* Only two live runs on one view are refused: on a row that is not alive the
\* runner is authoritative that its run just started.
DecideRunStarted(cmd, row, st) ==
    IF row.proc = "alive" /\ row.run # None /\ row.run # cmd.run THEN Reject("stale_run")
    ELSE Apply([KeepRow EXCEPT !.sem = "working", !.proc = "alive", !.run = cmd.run],
               DiffStatus(st, cmd.payload.status))

\* Without the liveness guard a beat that comes late reopens its run.
Unguarded_DecideRunProgress(cmd, row, st) ==
    IF cmd.run = None \/ row.run # cmd.run THEN Reject("stale_run")
    ELSE Apply(DiffRow(row, ProjectViewState(cmd.payload.status, cmd.run, row)),
               DiffStatus(st, cmd.payload.status))

\* A beat merges the runner's whole status; it may create a missing file.
DecideRunProgress(cmd, row, st) ==
    IF cmd.run = None \/ row.run # cmd.run \/ row.proc # "alive" THEN Reject("stale_run")
    ELSE Apply(DiffRow(row, ProjectViewState(cmd.payload.status, cmd.run, row)),
               DiffStatus(st, cmd.payload.status))

\* The new run's id governs the row, and the row is pinned alive.
DecideFollowupStarted(cmd, row, st) ==
    LET projected == ProjectViewState(cmd.payload.status, cmd.payload.newRunId, row)
    IN  Apply([DiffRow(row, projected) EXCEPT !.run = cmd.payload.newRunId, !.proc = "alive"],
              DiffStatus(st, cmd.payload.status))

DecideReconcileFinalize(cmd, row, st) ==
    IF row.proc # "alive" THEN Reject("no_change")
    ELSE IF cmd.payload.project
    THEN IF st = Absent THEN Reject("stale_run")
         ELSE Apply(DiffRow(row, ProjectViewState(st, StatusRun(cmd, row), row)), NoPatch)
    ELSE Apply(DiffRow(row, [row EXCEPT !.sem = cmd.payload.sem, !.proc = "exited",
                                        !.note = None]),
               IF st = Absent THEN NoPatch
               ELSE DiffStatus(st, [st EXCEPT !.sem = cmd.payload.sem,
                                              !.proc = "exited", !.ended = TRUE]))

DecideHostRunFailed(st) ==
    Apply([KeepRow EXCEPT !.sem = "failed", !.proc = "exited", !.note = None],
          IF st = Absent THEN NoPatch
          ELSE [KeepStatus EXCEPT !.sem = "failed", !.proc = "exited"])

\* Archiving a working row stops it: there is no busy guard.
DecideArchiveView == Apply([Verdict("stopped") EXCEPT !.note = None], NoPatch)

DecideAdoptSession(row) ==
    IF row.proc = "alive" THEN Reject("busy")
    ELSE Apply([KeepRow EXCEPT !.sem = "idle", !.proc = "exited", !.note = None], NoPatch)

\* Foreground mirrors never own a background run.
DecideSyncForeground(cmd, row) ==
    Apply(DiffRow(row, [cmd.payload.projection EXCEPT !.run = None]), NoPatch)

DecidePlanReady(cmd, row) ==
    IF row.proc = "alive" THEN Reject("no_change")
    ELSE Apply([KeepRow EXCEPT !.sem = "needs_input", !.proc = "exited",
                               !.run = cmd.payload.runId, !.note = None], NoPatch)

\* "differs" stands for a changed value in a field the model leaves out.
DecidePatchFields(cmd, row, st) ==
    LET allowed == PatchableFields(cmd.source)
        newRow == IF "summary" \in cmd.payload.state
                  THEN [row EXCEPT !.note = cmd.payload.note] ELSE row
        newStatus == IF st # Absent /\ "summary" \in cmd.payload.status
                     THEN [st EXCEPT !.note = cmd.payload.note] ELSE st
        bound == st # Absent /\ cmd.payload.status # {}
        other == \/ cmd.payload.differs /\ cmd.payload.state \ {"summary"} # {}
                 \/ cmd.payload.differs /\ bound /\ cmd.payload.status \ {"summary"} # {}
    IN  IF ~(cmd.payload.state \subseteq allowed.state /\ cmd.payload.status \subseteq allowed.status)
        THEN Reject("field_not_allowed")
        ELSE IF newRow = row /\ newStatus = st /\ ~other THEN Reject("no_change")
        ELSE Apply(DiffRow(row, newRow), IF bound THEN DiffStatus(st, newStatus) ELSE NoPatch)

DecideKind(cmd, row, st) ==
    CASE cmd.kind = "mark_completed" -> DecideMarkCompleted(row)
      [] cmd.kind = "mark_holding" -> DecideMarkHolding(cmd, row)
      [] cmd.kind = "clear_holding" -> DecideClearHolding(cmd, row)
      [] cmd.kind = "auto_state_classified" -> DecideAutoState(cmd, row, st)
      [] cmd.kind = "run_finalized" -> DecideRunFinalized(cmd, row, st)
      [] cmd.kind = "mark_queued" -> DecideMarkQueued(cmd)
      [] cmd.kind = "run_started" -> DecideRunStarted(cmd, row, st)
      [] cmd.kind = "run_progress" -> DecideRunProgress(cmd, row, st)
      [] cmd.kind = "followup_started" -> DecideFollowupStarted(cmd, row, st)
      [] cmd.kind = "reconcile_finalize" -> DecideReconcileFinalize(cmd, row, st)
      [] cmd.kind = "host_run_failed" -> DecideHostRunFailed(st)
      [] cmd.kind = "archive_view" -> DecideArchiveView
      [] cmd.kind = "adopt_session" -> DecideAdoptSession(row)
      [] cmd.kind = "sync_foreground" -> DecideSyncForeground(cmd, row)
      [] cmd.kind = "plan_ready" -> DecidePlanReady(cmd, row)
      [] OTHER -> DecidePatchFields(cmd, row, st)

StaleRun(cmd, row) ==
    /\ cmd.kind # "run_started"
    /\ cmd.run # None /\ row.run # None /\ cmd.run # row.run

FencedByVerdict(cmd, row) == cmd.source # "dashboard-user" /\ IsManualVerdict(row)

\* The guards every kind passes first, in the order the code tests them.
DecideStateTransition(cmd, row, rev, st) ==
    IF cmd.expectedRevision # None /\ cmd.expectedRevision # rev THEN Reject("revision_conflict")
    ELSE IF StaleRun(cmd, row) THEN Reject("stale_run")
    ELSE IF FencedByVerdict(cmd, row) THEN Reject("manual_fence")
    ELSE DecideKind(cmd, row, st)
=============================================================================
