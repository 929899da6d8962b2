-------------------------- MODULE HealthScheduler --------------------------
(***************************************************************************)
(* The round-robin scheduler, whose queue the HTTP handlers pick from, and *)
(* the health worker, which alone appends to it and drops from it.  The    *)
(* worker is one goroutine: it serves either a daemon's name from the      *)
(* channel or a tick of its ticker, and a tick drops the overdue daemons   *)
(* one after the other, each under the scheduler's own lock.  Picks come   *)
(* between any two of these steps.                                         *)
(*                                                                         *)
(* Time is counted in units.  The worker is taken to be prompt: time does  *)
(* not pass while it has a name or a tick to serve.                        *)
(***************************************************************************)
EXTENDS Naturals, Sequences, FiniteSets, SequencesExt

CONSTANTS
  Dockerds,   \* the names daemons poll under
  Interval,   \* DockerDHealthCheckInterval, in units of time
  NoDockerd   \* no daemon

ASSUME IntervalAssumption == Interval \in Nat \ {0}
ASSUME NoDockerdAssumption == NoDockerd \notin Dockerds
ASSUME DockerdsAssumption == IsFiniteSet(Dockerds)

\* Bound: ages beyond this are not told apart.
MaxAge == 2 * Interval + 1

VARIABLES
  queue,      \* RoundRobinScheduler.queue
  known,      \* the keys of healthMap
  age,        \* daemon -> time since the entry in healthMap was written
  clock,      \* time since the last tick
  received,   \* the name taken from the channel and not yet appended
  overdue,    \* the entries the present tick has still to remove
  passedOver  \* daemon -> picks of others since its last turn (history)

worker == <<known, age, clock, received, overdue>>
vars == <<queue, worker, passedOver>>

-----------------------------------------------------------------------------
\* The scheduler.

\* Faulty variant: the check for duplicates is missing.
AppendedAgain(q, d) == Append(q, d)

\* Append: nothing if the item is queued already.
Appended(q, d) == IF Contains(q, d) THEN q ELSE Append(q, d)

\* Faulty variant: an overdue daemon keeps its place.
NotDropped(q, d) == q

\* Faulty variant: what is queued behind the daemon goes with it.
DroppedWithRest(q, d) ==
  IF Contains(q, d) THEN SubSeq(q, 1, SelectInSeq(q, LAMBDA v : v = d) - 1)
                    ELSE q

\* Drop: the first occurrence goes.
Dropped(q, d) == RemoveFirst(q, d)

\* Faulty variant: a picked daemon keeps its place at the head.
NotRotated(q) == q

\* Faulty variant: a picked daemon is not put back.
PickedAndLost(q) == Tail(q)

\* Pick moves the head to the tail.
Rotated(q) == Append(Tail(q), Head(q))

-----------------------------------------------------------------------------
Init == /\ queue = <<>>
        /\ known = {}
        /\ age = [d \in Dockerds |-> MaxAge]
        /\ clock = 0
        /\ received = NoDockerd
        /\ overdue = {}
        /\ passedOver = [d \in Dockerds |-> 0]

\* The worker waits in its select.
Waiting == received = NoDockerd /\ overdue = {}

\* A handler's send of the sender's name meets the worker's receive; the
\* worker notes the time.
Receive(d) ==
  /\ Waiting
  /\ received' = d
  /\ known' = known \cup {d}
  /\ age' = [age EXCEPT ![d] = 0]
  /\ UNCHANGED <<queue, clock, overdue, passedOver>>

\* ... and then appends it.
AppendReceived ==
  /\ received # NoDockerd
  /\ queue' = Appended(queue, received)
  /\ passedOver' = [passedOver EXCEPT
                      ![received] = IF Contains(queue, received) THEN @ ELSE 0]
  /\ received' = NoDockerd
  /\ UNCHANGED <<known, age, clock, overdue>>

\* Faulty variant: an entry is overdue as soon as it is a full interval old.
OverdueTooSoon(a) == a >= Interval

\* Faulty variant: an entry is overdue one interval later than it should be.
OverdueTooLate(a) == a > 2 * Interval

\* timeSnapshot.Sub(lastUpdated) > interval
Overdue(a) == a > Interval

\* A tick: the overdue entries leave healthMap ...
Sweep ==
  /\ Waiting
  /\ clock = Interval
  /\ clock' = 0
  /\ overdue' = {d \in known : Overdue(age[d])}
  /\ UNCHANGED <<queue, known, age, received, passedOver>>

\* ... each together with its place in the queue.
DropOverdue(d) ==
  /\ d \in overdue
  /\ overdue' = overdue \ {d}
  /\ known' = known \ {d}
  /\ queue' = Dropped(queue, d)
  /\ UNCHANGED <<age, clock, received, passedOver>>

\* createSession picks the head of the queue; on an empty queue it gets an
\* error and nothing changes.
Pick(d) ==
  /\ queue # <<>>
  /\ d = Head(queue)
  /\ queue' = Rotated(queue)
  /\ passedOver' = [e \in Dockerds |->
                      IF e = d THEN 0
                      ELSE IF Contains(queue, e) THEN passedOver[e] + 1
                      ELSE passedOver[e]]
  /\ UNCHANGED worker

\* Bound on the history: nobody can be passed over more often than this.
PickBound == \A d \in Dockerds : passedOver[d] <= Cardinality(Dockerds)

\* A unit of time passes.
Pass ==
  /\ Waiting
  /\ clock < Interval
  /\ clock' = clock + 1
  /\ age' = [d \in Dockerds |-> IF age[d] < MaxAge THEN age[d] + 1 ELSE MaxAge]
  /\ UNCHANGED <<queue, known, received, overdue, passedOver>>

Next == \/ \E d \in Dockerds : Receive(d)
        \/ AppendReceived
        \/ Sweep
        \/ \E d \in Dockerds : DropOverdue(d)
        \/ \E d \in Dockerds : PickBound /\ Pick(d)
        \/ Pass

Spec == Init /\ [][Next]_vars

\* The worker finishes what it has begun.  When a name and a tick are ready at
\* once its select chooses at random, so a tick is not put off for ever; nor
\* does time stop because names keep coming.  Daemons need not poll and
\* sessions need not be created.
FairSpec == /\ Spec
            /\ WF_vars(AppendReceived)
            /\ WF_vars(\E d \in Dockerds : DropOverdue(d))
            /\ SF_vars(Sweep)
            /\ SF_vars(Pass)

-----------------------------------------------------------------------------
\* Type invariant.
TypeOK ==
  /\ queue \in Seq(Dockerds)
  /\ known \subseteq Dockerds
  /\ age \in [Dockerds -> 0..MaxAge]
  /\ clock \in 0..Interval
  /\ received \in Dockerds \cup {NoDockerd}
  /\ overdue \subseteq Dockerds
  /\ passedOver \in [Dockerds -> 0..Cardinality(Dockerds)]

\* The queue and healthMap hold the same daemons, each once, but for the one
\* that is just being appended: a daemon that is queued and not in the map would
\* never be dropped, one in the map and not queued would never be picked, and
\* one that is queued twice would get two shares of the sessions.
QueueMatchesHealth ==
  /\ known \ {received} \subseteq ToSet(queue)
  /\ ToSet(queue) \subseteq known
  /\ \A i, j \in DOMAIN queue : queue[i] = queue[j] => i = j

\* A daemon that has been silent for more than two intervals is not picked.
SilenceIsBounded ==
  \A d \in ToSet(queue) : age[d] <= 2 * Interval

\* Round robin is fair whatever comes and goes between the picks: a queued
\* daemon gets its turn before the others have had one more than one each.
TurnsAreFair ==
  \A d \in ToSet(queue) : passedOver[d] < Cardinality(Dockerds)

\* A daemon heard from within the last interval keeps its place, even while a
\* sweep is going on.
FreshIsKept ==
  [][\A d \in ToSet(queue) : age[d] <= Interval => d \in ToSet(queue')]_vars

\* A daemon that stays silent is dropped.
SilentIsDropped ==
  \A d \in Dockerds : (d \in ToSet(queue) /\ age[d] > Interval)
                        ~> (d \notin ToSet(queue) \/ age[d] = 0)

\* The membership that the session handlers see is the set of queued daemons:
\* a poll adds at most its sender, a drop takes away one daemon, a pick none.
Members == INSTANCE Membership WITH live <- ToSet(queue)
ImplementsMembership == Members!MembershipSpec
=============================================================================
