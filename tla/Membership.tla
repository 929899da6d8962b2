----------------------------- MODULE Membership -----------------------------
(***************************************************************************)
(* What the scheduler and the health worker promise the rest of the API: a *)
(* set of daemons that are offered sessions.  A daemon enters it when it   *)
(* polls, leaves it when it is found silent, and is picked only while in   *)
(* it.  HealthScheduler implements this with a queue, a health map and a   *)
(* clock; ApiSessions is written against it.                               *)
(***************************************************************************)
CONSTANT Dockerds

VARIABLE live

MembershipInit == live = {}

\* A message of d reached the health worker, which appended d to the queue.
Heard(d) == live' = live \cup {d}

\* The health worker found d silent for too long.
Drop(d) == /\ d \in live
           /\ live' = live \ {d}

\* A new session is assigned to d.
Pick(d) == /\ d \in live
           /\ UNCHANGED live

MembershipNext == \E d \in Dockerds : Heard(d) \/ Drop(d) \/ Pick(d)

MembershipSpec == MembershipInit /\ [][MembershipNext]_live
=============================================================================
