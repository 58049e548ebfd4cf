---------------------------- MODULE AtomicBoard -----------------------------
(***************************************************************************)
(* What the View State Coordinator promises its clients: a board whose     *)
(* journaled commands are decided and applied in one indivisible step,     *)
(* each under the next revision of one gapless global counter, whatever    *)
(* crashes and restarts lie in between.  Only a progress beat may tear: it *)
(* moves the row first and the status of its run at once, later, or never. *)
(***************************************************************************)
EXTENDS BoardFiles

CONSTANT Commands

VARIABLES
    rows,       \* view -> what its state.json amounts to
    runs        \* view -> run -> what its status.json amounts to

vars == <<rows, runs>>

Init ==
    /\ rows = [v \in Views |-> NewState]
    /\ runs = [v \in Views |-> [r \in Runs |-> NoStatus]]

\* n is the highest revision on the board.
Highest(n) ==
    /\ \E v \in Views : rows[v].rev = n
    /\ \A v \in Views : rows[v].rev <= n

Decision(cmd) ==
    LET now == rows[cmd.view]
    IN  DecideStateTransition(cmd, now.row, now.rev,
                              StatusOf(runs[cmd.view], StatusRun(cmd, now.row)))

RowStep(cmd, rev) ==
    rows' = [rows EXCEPT ![cmd.view] = StampState(@, Decision(cmd).row, rev)]

StatusStep(cmd, rev) ==
    runs' = [runs EXCEPT ![cmd.view] =
                StampRuns(@, BoundRun(cmd, StatusRun(cmd, rows[cmd.view].row),
                                      rows[cmd.view].row),
                          cmd.kind, Decision(cmd).status, rev)]

\* A journaled command takes effect on both files at once.
ApplyCommand(cmd) ==
    /\ cmd.kind \notin TransientKinds
    /\ Decision(cmd).action = "apply"
    /\ \E v \in Views : Highest(rows[v].rev) /\ RowStep(cmd, rows[v].rev + 1)
                                             /\ StatusStep(cmd, rows[v].rev + 1)

\* A beat takes effect on the row.
ApplyBeat(cmd) ==
    /\ cmd.kind \in TransientKinds
    /\ Decision(cmd).action = "apply"
    /\ \E v \in Views : Highest(rows[v].rev) /\ RowStep(cmd, rows[v].rev + 1)
    /\ UNCHANGED runs

\* The status half of a beat that was not torn.
FinishBeat(cmd) ==
    /\ cmd.kind \in TransientKinds
    /\ rows[cmd.view].row.run = cmd.run
    /\ runs' = [runs EXCEPT ![cmd.view][cmd.run] =
                   StampStatus(@, cmd.kind, DiffStatus(@.st, cmd.payload.status),
                               rows[cmd.view].rev)]
    /\ UNCHANGED rows

Next == \E cmd \in Commands : ApplyCommand(cmd) \/ ApplyBeat(cmd) \/ FinishBeat(cmd)

Spec == Init /\ [][Next]_vars
=============================================================================
