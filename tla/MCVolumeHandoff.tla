--------------------------- MODULE MCVolumeHandoff ---------------------------
(***************************************************************************)
(* Small instances of VolumeHandoff for TLC.                               *)
(***************************************************************************)
EXTENDS VolumeHandoff
=============================================================================
