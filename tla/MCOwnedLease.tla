----------------------------- MODULE MCOwnedLease -----------------------------
(***************************************************************************)
(* Small instances of OwnedLease: a few processes contending for one lock  *)
(* path, some of which die.                                                *)
(***************************************************************************)
EXTENDS OwnedLease

\* One name more than the places one process's tokens can be in at once.
FewNames == 0..5
=============================================================================
