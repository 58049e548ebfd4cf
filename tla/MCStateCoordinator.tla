------------------------ MODULE MCStateCoordinator ------------------------
(***************************************************************************)
(* Small instances of StateCoordinator: the command sets are what the      *)
(* callers in src/runtime/service.mjs and runner/job-runner.mjs send about *)
(* one view and its runs r1 and r2.                                        *)
(***************************************************************************)
EXTENDS StateCoordinator

CONSTANTS v1, r1, r2

Cmd(id, kind, source, run, payload) ==
    [id |-> id, kind |-> kind, source |-> source, view |-> v1, run |-> run,
     expectedRevision |-> None, payload |-> payload]

User(id, kind) == Cmd(id, kind, "dashboard-user", None, None)
Runner(id, kind, run, payload) == Cmd(id, kind, "job-runner", run, payload)

\* The status a job runner holds in memory while its run goes on.
Live == [sem |-> "working", proc |-> "alive", auto |-> None, ended |-> FALSE,
         asks |-> FALSE, note |-> None]
Done == [exitCode |-> "zero", stopReason |-> "none", stoppedByUser |-> FALSE, asks |-> FALSE]

Queue(r) == Cmd("queue", "mark_queued", "dashboard-user", None, [runId |-> r])
Started(r) == Runner("started", "run_started", r, [status |-> Live])
Beat(r) == Runner("beat", "run_progress", r, [status |-> [Live EXCEPT !.note = r]])
Finalized(r) == Runner("finalized", "run_finalized", r, Done)
FollowUp(r) == Runner("followup", "followup_started", None, [newRunId |-> r, status |-> Live])
PlanReady(r) == Runner("plan", "plan_ready", r, [runId |-> r])
Summary(r) == Runner("summary", "patch_fields", None,
                     [state |-> {"summary"}, status |-> {"summary"}, note |-> r, differs |-> TRUE])
Classified(kind) == Cmd("classified", "auto_state_classified", "service", None,
                        [classification |-> [kind |-> kind, source |-> "heuristic"]])
Complete == User("complete", "mark_completed")
Hold == User("hold", "mark_holding")
Resume == User("resume", "clear_holding")
Archive == User("archive", "archive_view")
Foreground == Cmd("foreground", "sync_foreground", "service", None,
                  [projection |-> [NewRow EXCEPT !.sem = "idle"]])

Visited == Cmd("visited", "patch_fields", "service", None,
               [state |-> {"lastVisitedAt"}, status |-> {}, note |-> None, differs |-> TRUE])
Expecting(cmd, rev) == [cmd EXCEPT !.expectedRevision = rev]

\* What is sent about one run: from start to a verdict, with a beat; around a
\* hold; with classified text, a late projection and an archive that expects
\* revision 1; around a plan, with a summary.
RunAndBeat == {Started(r1), Beat(r1), Finalized(r1), Complete}
HeldRun == {Started(r1), Hold, Resume, Finalized(r1)}
ClassifiedRun == {Started(r1), Classified("done"), Foreground, Expecting(Archive, 1)}
PlannedRun == {Started(r1), PlanReady(r1), Summary(r1)}
Scenarios == {RunAndBeat, HeldRun, ClassifiedRun, PlannedRun}
AnyScenario == UNION Scenarios

\* A behaviour sends the commands of one scenario.
OneScenario ==
    \E scenario \in Scenarios :
        \A cmd \in Commands : sends[cmd] > 0 => cmd \in scenario

\* A run, the launch of a follow-up run and a patch of the row alone.
FollowUpLaunch == {Started(r1), FollowUp(r2), Visited}
=============================================================================
