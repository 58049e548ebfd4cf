---------------------------- MODULE RunLifecycle ----------------------------
(***************************************************************************)
(* The life of one view's background runs, from the launch by a dashboard  *)
(* (or by the previous run's exit chain) to the rest of the row:           *)
(* launchForView, reply, stop, archiveView, completeView, holdView and     *)
(* reconcile (src/runtime/service.mjs), the detached runner with its       *)
(* worker (runner/job-runner.mjs), and the row's liveness (loadRow,        *)
(* src/core/store.mjs).  Several dashboards may act on the view; the row   *)
(* and the runs' status files change only by commands, which the           *)
(* coordinator decides one at a time, in any order, by the rules of        *)
(* StateCommands (its crashes are StateCoordinator's subject).  A caller   *)
(* may stop waiting for an answer while its command is still on the way.   *)
(*                                                                         *)
(* Every command carries a larger revision than the files it stamps, so    *)
(* revisions are left out, but for one fact: whether the row and the       *)
(* status of a run carry the same one.  Left out as data: evidence         *)
(* mirrors, diagnostics, code references and prompts.                      *)
(***************************************************************************)
EXTENDS BoardFiles, FiniteSets

CONSTANTS
    PlanRuns,     \* the runs of kind "plan" or "plan_change"
    AutoKinds,    \* what the classifiers may answer
    Budgets       \* bounds: how often what may happen in one behaviour

\* Launches by users, follow-ups they queue, their stops, archivings and
\* verdicts, runners or launching dashboards that die, commands that are lost,
\* torn or that nobody waits for any longer.
Budget == [replies : Nat, queued : Nat, acts : Nat, deaths : Nat, losses : Nat]

ASSUME RunAssumption ==
    /\ PlanRuns \subseteq Runs /\ AutoKinds \subseteq AutoKind
    /\ Budgets \subseteq Budget

VARIABLES
    row,          \* the view's state.json
    status,       \* run -> its status.json
    stamped,      \* the run whose status.json carries the revision of the row
    archived,     \* the view's meta.json: archived
    queued,       \* the follow-ups waiting in the queue file
    phase,        \* run -> where its launcher, then its runner, is
    mem,          \* run -> the status its runner holds in memory
    worker,       \* run -> its agent process
    stopping,     \* run -> a stop its runner has seen: none, latched, acted on
    killTimer,    \* the runs a dashboard's SIGKILL timer is running for
    sent,         \* commands on their way to the coordinator
    answer,       \* run -> the answer its launcher or runner waits for
    seen,         \* the row reconcile is looking at: its dead run, the pair's stamps
    budget        \* what is left of each bound

files == <<row, status, stamped>>
runner == <<phase, mem, worker, stopping>>
wires == <<sent, answer>>
vars == <<row, status, stamped, archived, queued, phase, mem, worker, stopping, killTimer,
          sent, answer, seen, budget>>

Phases == {"unused", "queueing", "abandoned", "booting", "starting", "working",
           "failing", "closing", "heuristic", "model", "summary", "plan", "drain",
           "exit", "leaving", "gone"}

\* What a runner process may still be doing: everything up to process.exit.
Live(r) == phase[r] \notin {"unused", "queueing", "abandoned", "gone"}
PidRecorded(r) == Live(r) \/ phase[r] = "gone"
AgentRuns(r) == worker[r] \in {"running", "terminated"}

\* createRunStatus, and the status the runner boots with.
QueuedStatus == [BlankStatus EXCEPT !.proc = "alive"]
BootStatus == [QueuedStatus EXCEPT !.sem = "working"]

----------------------------------------------------------------------------
(* The row as a dashboard loads it.                                        *)

\* Whether state.json and the run's status.json disagree about their revision
\* (a stamp that is missing is no disagreement).
Desynced(r) == status[r] # Absent /\ stamped # r

\* Trusting processState although the dead runner's pid is on record.
Mirrored_RowAlive == \/ row.run \in Runs /\ Live(row.run)
                     \/ row.proc = "alive"
\* Liveness goes by the recorded pid alone; that no other process has taken it
\* over is an assumption of this module.
RowAlive ==
    IF row.run \in Runs /\ PidRecorded(row.run) THEN Live(row.run) ELSE row.proc = "alive"

\* (Pending questions are collected from interactive sessions only, whose mirror has
\* no run; the row of a run never holds one.)
IsAgentBusy == RowAlive /\ row.sem \in {"queued", "working"}
CanAutoDrain == ~IsAgentBusy /\ row.sem \in {"idle", "completed"}
LooksActive == row.proc = "alive" \/ row.sem \in {"queued", "working"}

----------------------------------------------------------------------------
(* Commands.                                                               *)

Command(from, kind, source, run, payload) ==
    [from |-> from, kind |-> kind, source |-> source, run |-> run,
     expectedRevision |-> None, payload |-> payload]

\* A sender that awaits the answer, and one that does not.
Ask(r, cmd) == sent' = sent \cup {cmd} /\ answer' = [answer EXCEPT ![r] = "pending"]
Tell(cmd) == sent' = sent \cup {cmd} /\ UNCHANGED answer

Answered(r) == answer[r] \notin {"none", "pending"}
Ready(r) == answer[r] = "none"
Consume(r) == answer' = [answer EXCEPT ![r] = "none"]

Spend(what) ==
    /\ budget[what] > 0
    /\ budget' = [budget EXCEPT ![what] = @ - 1]

BoundStatus(run) == IF run = None THEN Absent ELSE status[run]
Decision(cmd) == DecideStateTransition(cmd, row, 0, BoundStatus(StatusRun(cmd, row)))

\* The coordinator takes one command and applies it to both files, or rejects it.
Decide(cmd) ==
    LET d == Decision(cmd)
        bound == BoundRun(cmd, StatusRun(cmd, row), row)
        runs == StampRuns([r \in Runs |-> [st |-> status[r], rev |-> 0]], bound,
                          cmd.kind, d.status, 1)
    IN  /\ sent' = sent \ {cmd}
        /\ IF d.action = "apply"
           THEN /\ row' = StampState([row |-> row, rev |-> 0], d.row, 1).row
                /\ status' = [r \in Runs |-> runs[r].st]
                /\ stamped' = IF StatusOf(runs, bound) # Absent THEN bound ELSE None
           ELSE UNCHANGED files
        /\ answer' = [r \in Runs |-> IF cmd.from = r THEN d.reason ELSE answer[r]]
        /\ UNCHANGED <<archived, queued, runner, killTimer, seen, budget>>

\* The coordinator dies between the two writes of a beat.  A beat is not
\* journaled, so no boot repairs the pair: the run's next command does.  (What
\* a torn journaled command leaves is StateCoordinator's subject.)
Tear(cmd) ==
    /\ cmd.kind = "run_progress" /\ Decision(cmd).action = "apply"
    /\ Spend("losses")
    /\ sent' = sent \ {cmd}
    /\ row' = StampState([row |-> row, rev |-> 0], Decision(cmd).row, 1).row
    /\ stamped' = None
    /\ UNCHANGED <<status, archived, queued, runner, killTimer, answer, seen>>

\* Commands of r nobody waits for any longer; they may still be decided.
Forsaken(r) == {[c EXCEPT !.from = IF @ = r THEN None ELSE @] : c \in sent}

\* The answer does not come in time.
GiveUp(r) ==
    /\ answer[r] = "pending"
    /\ Spend("losses")
    /\ sent' = Forsaken(r)
    /\ answer' = [answer EXCEPT ![r] = "timeout"]
    /\ UNCHANGED <<files, archived, queued, runner, killTimer, seen>>

\* No coordinator was reached, or it died before reading the command.
Lose(cmd) ==
    /\ Spend("losses")
    /\ sent' = sent \ {cmd}
    /\ answer' = [r \in Runs |-> IF cmd.from = r THEN "connection_reset" ELSE answer[r]]
    /\ UNCHANGED <<files, archived, queued, runner, killTimer, seen>>

----------------------------------------------------------------------------
(* Launching: by a user, by a dashboard's drain, by a run's exit chain.    *)

\* launchForView sends mark_queued and waits before it spawns anything.
LaunchForView(n) ==
    /\ phase[n] = "unused"
    /\ phase' = [phase EXCEPT ![n] = "queueing"]
    /\ Ask(n, Command(n, "mark_queued", "dashboard-user", None, [runId |-> n]))
    /\ UNCHANGED <<files, archived, mem, worker, stopping, killTimer, seen>>

\* A new task, or a reply to a row with nothing running.
Reply(n) ==
    /\ ~archived /\ ~RowAlive
    /\ Spend("replies")
    /\ LaunchForView(n)
    /\ UNCHANGED queued

\* A reply to a busy row waits in the queue.
ReplyQueued ==
    /\ ~archived /\ IsAgentBusy
    /\ Spend("queued")
    /\ queued' = queued + 1
    /\ UNCHANGED <<files, archived, runner, killTimer, wires, seen>>

DrainNextFollowUp(n) ==
    /\ ~archived /\ CanAutoDrain
    /\ queued > 0
    /\ queued' = queued - 1
    /\ LaunchForView(n)
    /\ UNCHANGED budget

\* The runner is spawned whatever mark_queued came to, and its pid recorded.
LaunchRun(n) ==
    /\ phase[n] = "queueing" /\ Answered(n)
    /\ phase' = [phase EXCEPT ![n] = "booting"]
    /\ Consume(n)
    /\ UNCHANGED <<files, archived, queued, mem, worker, stopping, killTimer, sent, seen, budget>>

\* The dashboard dies first, or the spawn yields no pid: the run never was.
LaunchFails(n) ==
    /\ phase[n] = "queueing"
    /\ Spend("deaths")
    /\ phase' = [phase EXCEPT ![n] = "abandoned"]
    /\ Consume(n)
    /\ sent' = Forsaken(n)
    /\ UNCHANGED <<files, archived, queued, mem, worker, stopping, killTimer, seen>>

----------------------------------------------------------------------------
(* The runner.                                                             *)

Step(r, p) == phase' = [phase EXCEPT ![r] = p]
Quiet == UNCHANGED <<files, archived, queued, killTimer, seen, budget>>

\* The stop latch is armed, then the run announces itself.
RunStarted(r) ==
    /\ phase[r] = "booting"
    /\ Step(r, "starting")
    /\ Ask(r, Command(r, "run_started", "job-runner", r, [status |-> BootStatus]))
    /\ UNCHANGED <<mem, worker, stopping>> /\ Quiet

\* A stop that arrived before the handlers is replayed once they are wired.
Forgotten_Replayed(r) == stopping
Replayed(r) == [stopping EXCEPT ![r] = IF @ = "latched" THEN "acted" ELSE @]

\* The whole in-memory status, sent without waiting for an answer.
ProgressBeat(r) == Command(None, "run_progress", "job-runner", r, [status |-> mem[r]])

\* Whatever the answer, the worker is spawned and a first beat is sent.
SpawnWorker(r) ==
    /\ phase[r] = "starting" /\ Answered(r)
    /\ Step(r, "working")
    /\ stopping' = Replayed(r)
    /\ worker' = [worker EXCEPT ![r] =
                     IF Replayed(r)[r] = "acted" THEN "terminated" ELSE "running"]
    /\ sent' = sent \cup {ProgressBeat(r)}
    /\ Consume(r)
    /\ UNCHANGED mem /\ Quiet

\* The agent's command cannot be launched, which shows after the first beat.
WorkerError(r) ==
    /\ phase[r] = "starting" /\ Answered(r)
    /\ Step(r, "failing")
    /\ stopping' = Replayed(r)
    /\ sent' = sent \cup {ProgressBeat(r)}
    /\ Consume(r)
    /\ UNCHANGED <<mem, worker>> /\ Quiet

\* A throttled flush.
Beat(r) ==
    /\ phase[r] = "working"
    /\ Tell(ProgressBeat(r))
    /\ UNCHANGED runner /\ Quiet

Facts(r, exitCode) ==
    [exitCode |-> exitCode, stopReason |-> "none",
     stoppedByUser |-> stopping[r] = "acted", asks |-> FALSE]

Final(from, r, exitCode) ==
    Command(from, "run_finalized", "job-runner", r, Facts(r, exitCode))

\* The run's end in memory, before it is sent.
EndRun(r, exitCode, next) ==
    /\ mem' = [mem EXCEPT ![r] = FinalizeRun(@, r, Facts(r, exitCode))]
    /\ Step(r, next)

\* The worker closes: no further beat, one run_finalized.
WorkerCloses(r) ==
    /\ phase[r] = "working" /\ AgentRuns(r)
    /\ worker' = [worker EXCEPT ![r] = "ended"]
    /\ \E exitCode \in {"zero", "nonzero"} :
          EndRun(r, exitCode, "closing") /\ Ask(r, Final(r, r, exitCode))
    /\ UNCHANGED stopping /\ Quiet

\* 'error' sends the final record and exits with the answer; 'close' may follow at
\* once and send its own, whose chain has nothing to do for a failed run.
FailedToLaunch(r) ==
    /\ phase[r] = "failing"
    /\ EndRun(r, "nonzero", "leaving")
    /\ \E again \in SUBSET {Final(None, r, "nonzero")} :
          sent' = sent \cup {Final(r, r, "nonzero")} \cup again
    /\ answer' = [answer EXCEPT ![r] = "pending"]
    /\ UNCHANGED <<worker, stopping>> /\ Quiet

\* The agent of a runner that died goes on until it ends by itself.
OrphanEnds(r) ==
    /\ phase[r] = "gone" /\ AgentRuns(r)
    /\ worker' = [worker EXCEPT ![r] = "ended"]
    /\ UNCHANGED <<phase, mem, stopping, wires>> /\ Quiet

\* What the coordinator applied replaces what the runner held.
Refreshed(r) ==
    IF answer[r] = "applied" /\ status[r] # Absent THEN [mem EXCEPT ![r] = status[r]] ELSE mem

\* The links of the exit chain, in order.
NextLink == [closing |-> "heuristic", heuristic |-> "model", model |-> "summary",
             summary |-> "plan", plan |-> "drain", drain |-> "exit"]
Before(link) ==
    CASE link = "heuristic" -> {"heuristic"}
      [] link = "model" -> {"heuristic", "model"}
      [] link = "summary" -> {"heuristic", "model", "summary"}
      [] link = "plan" -> {"heuristic", "model", "summary", "plan"}
      [] OTHER -> {"heuristic", "model", "summary", "plan", "drain", link}

\* An answer in the chain: refresh, then on to the next link.
AnswerInChain(r) ==
    /\ phase[r] \in DOMAIN NextLink /\ Answered(r)
    /\ mem' = IF phase[r] \in {"plan", "drain"} THEN mem ELSE Refreshed(r)
    /\ Step(r, NextLink[phase[r]])
    /\ Consume(r)
    /\ UNCHANGED <<worker, stopping, sent>> /\ Quiet

Failed(r) == mem[r].sem \in {"failed", "stopped"}
CanAutoState(r) == r \notin PlanRuns /\ ~Failed(r) /\ mem[r].proc # "alive"
PlanIsDue(r) == r \in PlanRuns /\ ~Failed(r) /\ ~IsManualVerdict(row)

\* The chain reaches a link.  The classifiers and the summary may be switched
\* off or come back empty, so they may be passed over; a plan that is due not.
Reach(r, link) ==
    /\ Ready(r) /\ phase[r] \in Before(link)
    /\ Step(r, link)

Classify(r, source, kind) ==
    Ask(r, Command(r, "auto_state_classified", "job-runner", r,
                   [classification |-> [kind |-> kind, source |-> source]]))

ApplyHeuristicAutoState(r) ==
    /\ Reach(r, "heuristic")
    /\ CanAutoState(r) /\ ~IsManualVerdict(row)
    /\ \E kind \in AutoKinds : Classify(r, "heuristic", kind)
    /\ UNCHANGED <<mem, worker, stopping>> /\ Quiet

\* The model's answer is applied to a fresh copy of the run's status.
MaybeModelAutoState(r) ==
    /\ Reach(r, "model")
    /\ CanAutoState(r)
    /\ status[r] # Absent /\ ~IsManualVerdict(status[r])
    /\ mem' = [mem EXCEPT ![r] = status[r]]
    /\ \E kind \in AutoKinds : Classify(r, "model", kind)
    /\ UNCHANGED <<worker, stopping>> /\ Quiet

\* The model's one-line summary is sent without a run id.
PatchSummary(r) ==
    /\ Reach(r, "summary")
    /\ ~Failed(r) /\ ~IsManualVerdict(row)
    /\ Ask(r, Command(r, "patch_fields", "job-runner", None,
                      [state |-> {"summary", "latestAssistantPreview"},
                       status |-> {"summary"}, note |-> r, differs |-> TRUE]))
    /\ UNCHANGED <<mem, worker, stopping>> /\ Quiet

FinalizeSteering(r) ==
    /\ Reach(r, "plan")
    /\ PlanIsDue(r)
    /\ Ask(r, Command(r, "plan_ready", "job-runner", r, [runId |-> r]))
    /\ UNCHANGED <<mem, worker, stopping>> /\ Quiet

\* The exit chain launches the next run, then announces it.
DrainQueuedFollowUp(r, n) ==
    /\ Ready(r) /\ phase[r] \in Before("drain")
    /\ r \notin PlanRuns
    /\ mem[r].sem \in {"idle", "completed"} /\ ~IsManualVerdict(row)
    /\ queued > 0
    /\ queued' = queued - 1
    /\ phase[n] = "unused"
    /\ phase' = [phase EXCEPT ![r] = "drain", ![n] = "booting"]
    /\ Ask(r, Command(r, "followup_started", "job-runner", None,
                      [newRunId |-> n, status |-> QueuedStatus]))
    /\ UNCHANGED <<files, archived, mem, worker, stopping, killTimer, seen, budget>>

\* The runner's process is no more; its agent, if any, is left to itself.
Dies(r) ==
    /\ Step(r, "gone")
    /\ mem' = [mem EXCEPT ![r] = BootStatus]
    /\ sent' = Forsaken(r)
    /\ Consume(r)
    /\ UNCHANGED <<worker, stopping>>

\* Nothing to drain, or the claim failed; or nothing but the exit was left.
Exit(r) ==
    /\ \/ Ready(r) /\ phase[r] \in Before("exit") /\ (phase[r] \in Before("plan") => ~PlanIsDue(r))
       \/ phase[r] = "leaving" /\ Answered(r)
    /\ Dies(r)
    /\ Quiet

RunnerDies(r) ==
    /\ Live(r)
    /\ Spend("deaths")
    /\ Dies(r)
    /\ UNCHANGED <<files, archived, queued, killTimer, seen>>

Run(r) ==
    \/ RunStarted(r) \/ SpawnWorker(r) \/ WorkerError(r) \/ Beat(r)
    \/ WorkerCloses(r) \/ FailedToLaunch(r) \/ OrphanEnds(r)
    \/ AnswerInChain(r)
    \/ ApplyHeuristicAutoState(r) \/ MaybeModelAutoState(r) \/ PatchSummary(r)
    \/ FinalizeSteering(r) \/ Exit(r) \/ RunnerDies(r)
    \/ \E n \in Runs : DrainQueuedFollowUp(r, n)

----------------------------------------------------------------------------
(* The users and the dashboards.                                           *)

\* What SIGTERM does to a runner: before the latch is armed it kills, in the
\* boot it is latched, later it stops the worker, in the exit chain it does
\* nothing.  killProcess follows it up with SIGKILL.
Signal(r) ==
    /\ killTimer' = killTimer \cup {r}
    /\ phase' = [phase EXCEPT ![r] = IF @ = "booting" THEN "gone" ELSE @]
    /\ stopping' = [stopping EXCEPT ![r] =
                       IF phase[r] = "starting" THEN "latched"
                       ELSE IF phase[r] \in {"working", "failing"} THEN "acted" ELSE @]
    /\ worker' = [worker EXCEPT ![r] =
                     IF phase[r] = "working" THEN "terminated" ELSE @]
    /\ UNCHANGED mem

ShownRunIsLive == row.run \in Runs /\ Live(row.run)

Stop ==
    /\ ShownRunIsLive
    /\ Spend("acts")
    /\ Signal(row.run)
    /\ UNCHANGED <<files, archived, queued, wires, seen>>

\* The dashboard's timer: a runner that is still there is killed.
ForceKill(r) ==
    /\ r \in killTimer
    /\ killTimer' = killTimer \ {r}
    /\ IF Live(r) THEN Dies(r) ELSE UNCHANGED <<runner, wires>>
    /\ UNCHANGED <<files, archived, queued, seen, budget>>

\* The dashboards close, and their timers with them.
DashboardsClose ==
    /\ killTimer # {}
    /\ killTimer' = {}
    /\ UNCHANGED <<files, archived, queued, runner, wires, seen, budget>>

\* The runner is signalled, a busy row is told to stop, the view is hidden.
ArchiveView ==
    /\ ~archived
    /\ Spend("acts")
    /\ archived' = TRUE
    /\ IF ShownRunIsLive THEN Signal(row.run) ELSE UNCHANGED <<runner, killTimer>>
    /\ IF IsAgentBusy
       THEN Tell(Command(None, "archive_view", "dashboard-user", None, None))
       ELSE UNCHANGED wires
    /\ UNCHANGED <<files, queued, seen>>

\* completeView, holdView, clearHoldView.
Judge(kind) ==
    /\ ~archived
    /\ kind # "clear_holding" => ~IsAgentBusy
    /\ Spend("acts")
    /\ Tell(Command(None, kind, "dashboard-user", row.run, None))
    /\ UNCHANGED <<files, archived, queued, runner, killTimer, seen>>

\* reconcile lists the rows first; it comes to this one later.
ReconcileLook ==
    /\ ~archived /\ seen = None
    /\ LooksActive /\ row.run # None /\ ~RowAlive
    /\ seen' = [run |-> row.run, paired |-> stamped = row.run]
    /\ UNCHANGED <<files, archived, queued, runner, killTimer, wires, budget>>

\* A command that names no run lands on whatever the row shows by then.
Unnamed_Reconcile(r) ==
    Command(None, "reconcile_finalize", "service", None,
            [project |-> status[r] # Absent /\ status[r].ended, sem |-> "failed"])
Reconcile(r) ==
    Command(None, "reconcile_finalize", "service", r,
            [project |-> status[r] # Absent /\ status[r].ended, sem |-> "failed"])

\* The status read now agrees with the listed row, or the pair read anew agrees.
ReconcileSend ==
    /\ seen # None
    /\ seen.paired \/ ~Desynced(seen.run)
    /\ Tell(Reconcile(seen.run))
    /\ seen' = None
    /\ UNCHANGED <<files, archived, queued, runner, killTimer, budget>>

\* A pair that disagrees is left alone in this pass.  (A pair that was stamped
\* alike when it was listed may have been overtaken on either side since.)
ReconcileSkip ==
    /\ seen # None
    /\ Desynced(seen.run)
    /\ seen' = None
    /\ UNCHANGED <<files, archived, queued, runner, killTimer, wires, budget>>

----------------------------------------------------------------------------
Init ==
    /\ row = NewRow
    /\ status = [r \in Runs |-> Absent]
    /\ stamped = None
    /\ archived = FALSE
    /\ queued = 0
    /\ phase = [r \in Runs |-> "unused"]
    /\ mem = [r \in Runs |-> BootStatus]
    /\ worker = [r \in Runs |-> "none"]
    /\ stopping = [r \in Runs |-> "none"]
    /\ killTimer = {}
    /\ sent = {}
    /\ answer = [r \in Runs |-> "none"]
    /\ seen = None
    /\ budget \in Budgets

Launch(n) == Reply(n) \/ DrainNextFollowUp(n) \/ LaunchRun(n) \/ LaunchFails(n)

User ==
    \/ ReplyQueued \/ Stop \/ ArchiveView
    \/ \E kind \in {"mark_completed", "mark_holding", "clear_holding"} : Judge(kind)

Dashboard == ReconcileLook \/ ReconcileSend \/ ReconcileSkip \/ DashboardsClose

Coordinator == \E cmd \in sent : Decide(cmd) \/ Lose(cmd) \/ Tear(cmd)

Next ==
    \/ \E r \in Runs : Launch(r) \/ Run(r) \/ ForceKill(r) \/ GiveUp(r)
    \/ User \/ Dashboard \/ Coordinator

Spec == Init /\ [][Next]_vars

\* Every open dashboard polls, and the coordinator comes to every command.
FairSpec ==
    /\ Spec
    /\ WF_vars(ReconcileLook) /\ WF_vars(ReconcileSend \/ ReconcileSkip)
    /\ WF_vars(\E cmd \in sent : cmd.kind = "reconcile_finalize" /\ Decide(cmd))

----------------------------------------------------------------------------
(* Properties.                                                             *)

TypeOK ==
    /\ row \in Row
    /\ status \in [Runs -> Status \cup {Absent}]
    /\ archived \in BOOLEAN /\ queued \in Nat /\ budget \in Budget
    /\ phase \in [Runs -> Phases]
    /\ mem \in [Runs -> Status]
    /\ worker \in [Runs -> {"none", "running", "terminated", "ended"}]
    /\ stopping \in [Runs -> {"none", "latched", "acted"}]
    /\ killTimer \subseteq Runs
    /\ \A cmd \in sent : cmd.from \in Runs \cup {None} /\ ValidCommand(cmd)
    /\ answer \in [Runs -> Reasons \cup {"none", "pending", "timeout", "connection_reset"}]
    /\ stamped \in RunRef
    /\ seen \in {None} \cup [run : Runs, paired : BOOLEAN]

Ended(r) == status[r] # Absent /\ status[r].ended

\* A run is on record as over only when its runner is gone or its agent has
\* ended: no poll, late command or other run's command closes a run that works.
EndedMeansOver == \A r \in Runs : Ended(r) => ~(Live(r) /\ AgentRuns(r))

\* A stop that reached a working run is how the run ends on record (or as
\* failed, when its runner died), whenever the signal came: it is not lost in
\* the boot, and neither a classifier nor a late beat talks the run out of it.
StopIsKept ==
    \A r \in Runs : stopping[r] # "none" /\ Ended(r) => status[r].sem \in {"stopped", "failed"}

\* A run that is over, and not shown as alive, stays over and is not shown as
\* alive again, unless an announcement of that very run is decided that late.
Over(r) == Ended(r) /\ ~(row.run = r /\ row.proc = "alive")
Announces(cmd, r) ==
    \/ cmd.kind = "mark_queued" /\ cmd.payload.runId = r
    \/ cmd.kind \in {"run_started", "followup_started"} /\ StatusRun(cmd, row) = r
FinalStands ==
    [][\A r \in Runs : Over(r) => Over(r)' \/ \E cmd \in sent \ sent' : Announces(cmd, r)]_vars

\* A row that shows a dead run as alive comes to rest, unless its two halves carry
\* different revisions, as a beat torn by a coordinator's death leaves them: such a
\* row is passed over by every pass until another command re-stamps the pair.
ShowsDead ==
    /\ row.run \in Runs /\ row.proc = "alive" /\ phase[row.run] = "gone" /\ ~archived
    /\ ~Desynced(row.run)
ComesToRest == ShowsDead ~> ~ShowsDead
=============================================================================
