--------------------------- MODULE MCApiSessions ---------------------------
(***************************************************************************)
(* Small instances of ApiSessions for TLC.  Ids, daemons, handlers and     *)
(* requests are interchangeable, so the runs that check no liveness use    *)
(* their symmetry.                                                         *)
(***************************************************************************)
EXTENDS ApiSessions, TLC

Symmetry == Permutations(Sessions) \cup Permutations(Dockerds)
            \cup Permutations(Handlers) \cup Permutations(Clients)
=============================================================================
