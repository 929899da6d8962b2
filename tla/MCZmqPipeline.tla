---------------------------- MODULE MCZmqPipeline ----------------------------
(***************************************************************************)
(* Small instances of ZmqPipeline for TLC.                                 *)
(***************************************************************************)
EXTENDS ZmqPipeline
=============================================================================
