------------------------------ MODULE MCDockerd ------------------------------
(***************************************************************************)
(* Small instances of Dockerd for TLC; the sessions are alike.             *)
(***************************************************************************)
EXTENDS Dockerd, TLC

Symmetry == Permutations(Sessions)
=============================================================================
