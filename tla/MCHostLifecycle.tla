--------------------------- MODULE MCHostLifecycle ---------------------------
(***************************************************************************)
(* Small instances of HostLifecycle.                                       *)
(***************************************************************************)
EXTENDS HostLifecycle, TLC

\* Boards are alike, and so are runners.
Alike == Permutations(Boards) \cup Permutations(Runners)
=============================================================================
