------------------------- MODULE MCHealthScheduler -------------------------
(***************************************************************************)
(* Small instances of HealthScheduler for TLC.  A run of it checks a       *)
(* liveness property, so the symmetry of the daemons is not used.          *)
(***************************************************************************)
EXTENDS HealthScheduler
=============================================================================
