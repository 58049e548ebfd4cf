--------------------------- MODULE MCTerminalAttach ---------------------------
(***************************************************************************)
(* Small instances of TerminalAttach.                                      *)
(***************************************************************************)
EXTENDS TerminalAttach

Nothing == [outputs |-> 0, drops |-> 0, hosts |-> 0, faults |-> 0, resets |-> 0,
            late |-> 0, asks |-> 0]

\* Drops and replaced hosts while output flows; captures that fail and reporters
\* that close; answers that come too late; a view that asks for another snapshot;
\* captures that fail until the client gives up; so much output that the ring drops
\* chunks a capture still needed.
Resume == [Nothing EXCEPT !.outputs = 3, !.drops = 2, !.hosts = 1]
Failing == [Nothing EXCEPT !.outputs = 3, !.drops = 1, !.faults = 2, !.resets = 1]
Late == [Nothing EXCEPT !.outputs = 3, !.drops = 1, !.hosts = 1, !.late = 1]
Asking == [Nothing EXCEPT !.outputs = 3, !.drops = 1, !.asks = 1]
Giving == [Nothing EXCEPT !.outputs = 2, !.drops = 1, !.faults = 4]
Evicting == [Nothing EXCEPT !.outputs = 5, !.drops = 1]
AnyTrouble == {Evicting, Resume, Failing, Late, Asking, Giving}

\* Subscribes the client sends faster than the runner reads them could pile up.
Calm == Len(up) <= 3 /\ Len(down) <= 7
=============================================================================
