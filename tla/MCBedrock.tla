------------------------------ MODULE MCBedrock ------------------------------
(***************************************************************************)
(* Small instances of Bedrock for TLC.                                     *)
(***************************************************************************)
EXTENDS Bedrock, TLC

\* Handlers are interchangeable: nothing orders them or names one.
HandlerSymmetry == Permutations(Handlers)
=============================================================================
