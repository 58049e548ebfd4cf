----------------------------- MODULE BoardFiles -----------------------------
(***************************************************************************)
(* The two artifacts the View State Coordinator owns, and how one decided  *)
(* revision is stamped on them (materialize, runner/state-coordinator.mjs).*)
(* A view's state.json is [row, rev]; each of its runs has a status.json   *)
(* [st, rev] that may be Absent.  "rev" is materializedRevision.           *)
(***************************************************************************)
EXTENDS StateCommands

CONSTANT Views

StateFile == [row : Row, rev : Nat]
NoStatus == [st |-> Absent, rev |-> 0]
StatusFile == [st : Status, rev : Nat] \cup {NoStatus}

\* The row createView writes before the coordinator knows the view.
NewRow == [sem |-> "queued", proc |-> "exited", run |-> None, auto |-> None, note |-> None]
NewState == [row |-> NewRow, rev |-> 0]
BlankStatus == [sem |-> "queued", proc |-> "exited", auto |-> None, ended |-> FALSE,
                asks |-> FALSE, note |-> None]

Unguarded_StampState(file, patch, rev) == [row |-> MergeRow(file.row, patch), rev |-> rev]

\* Each file is written only when it is strictly behind the revision.
StampState(file, patch, rev) ==
    IF file.rev < rev THEN [row |-> MergeRow(file.row, patch), rev |-> rev] ELSE file

\* A decision without a status patch leaves the status file alone.
Unpaired_StampStatus(file, kind, patch, rev) ==
    IF patch = NoPatch \/ (file.st = Absent /\ kind \notin StatusBootstrapKinds) THEN file
    ELSE IF file.st = Absent THEN [st |-> MergeStatus(BlankStatus, patch), rev |-> rev]
    ELSE IF file.rev < rev THEN [st |-> MergeStatus(file.st, patch), rev |-> rev]
    ELSE file

\* A patch may create the file only for the bootstrap kinds; a decision with
\* no status patch restamps an existing file so that the pair stays paired.
StampStatus(file, kind, patch, rev) ==
    IF patch # NoPatch /\ file.st = Absent
    THEN IF kind \in StatusBootstrapKinds
         THEN [st |-> MergeStatus(BlankStatus, patch), rev |-> rev]
         ELSE file
    ELSE IF file.st # Absent /\ file.rev < rev
         THEN [st |-> IF patch = NoPatch THEN file.st ELSE MergeStatus(file.st, patch),
               rev |-> rev]
         ELSE file

\* The status.json a revision is stamped on: the command's run, else the run
\* bound when the command was decided, else the run the row shows now.
BoundRun(cmd, decidedRun, row) ==
    IF cmd.run # None THEN cmd.run
    ELSE IF decidedRun # None THEN decidedRun
    ELSE row.run

StampRuns(files, run, kind, patch, rev) ==
    IF run = None THEN files
    ELSE [files EXCEPT ![run] = StampStatus(@, kind, patch, rev)]

StatusOf(files, run) == IF run = None THEN Absent ELSE files[run].st
=============================================================================
