--------------------------- MODULE SessionStates ---------------------------
(***************************************************************************)
(* The life cycle of a session: its statuses, the state machine every      *)
(* status change goes through, what a daemon's report asks for and what    *)
(* the API orders the daemon to do for a session in a given status.        *)
(***************************************************************************)

SessionStatus == {"pending", "running", "stopped", "failed", "finished"}

\* The statuses that the state machine never lets a session leave.
Terminal == {"failed", "finished"}

\* Faulty variant: a stopped session may be started again.
SuccessorsWithRestart(from) ==
  CASE from = "pending" -> {"running", "stopped", "failed", "finished"}
    [] from = "running" -> {"stopped", "failed", "finished"}
    [] from = "stopped" -> {"finished", "pending"}
    [] OTHER            -> {}

\* The statuses one step away; an unknown status has none.
Successors(from) ==
  CASE from = "pending" -> {"running", "stopped", "failed", "finished"}
    [] from = "running" -> {"stopped", "failed", "finished"}
    [] from = "stopped" -> {"finished"}
    [] OTHER            -> {}

\* Faulty variant: the requested status is taken without being checked.
TransitionUnchecked(from, to) == to

\* The new status if the step is allowed, the old one otherwise.
Transition(from, to) == IF to \in Successors(from) THEN to ELSE from

-----------------------------------------------------------------------------
\* The events a daemon reports, and the ones the API answers with.
Reports == {"session_running", "session_end", "session_failed"}
Orders  == {"session_start", "session_stopped", "session_cleanup"}
EventType == Reports \cup Orders

\* The status a report asks for.
ReportedStatus(event) ==
  CASE event = "session_running" -> "running"
    [] event = "session_end"     -> "finished"
    [] event = "session_failed"  -> "failed"

\* Faulty variant: a running session is told to start as well.
OrdersForStartingRunning(status) ==
  CASE status \in {"pending", "running"} -> {"session_start"}
    [] status = "stopped"                -> {"session_stopped"}
    [] status = "finished"               -> {"session_cleanup"}
    [] OTHER                             -> {}

\* Faulty variant: a pending session is not sent to its daemon.
OrdersForNoStart(status) ==
  CASE status = "stopped"  -> {"session_stopped"}
    [] status = "finished" -> {"session_cleanup"}
    [] OTHER               -> {}

\* What the reply to a poll says about a session, as a set of at most one
\* order: nothing for a running session, and nothing for a failed one (the
\* case for it is empty, and a Go case does not fall through).
OrdersFor(status) ==
  CASE status = "pending"  -> {"session_start"}
    [] status = "stopped"  -> {"session_stopped"}
    [] status = "finished" -> {"session_cleanup"}
    [] OTHER               -> {}
=============================================================================
