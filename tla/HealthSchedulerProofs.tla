------------------------ MODULE HealthSchedulerProofs ------------------------
(***************************************************************************)
(* The scheduler's queue and the health map agree, silence is bounded and  *)
(* turns are fair, for any number of daemons and any interval, a queue     *)
(* with a health map is a membership, and silent daemons are dropped.      *)
(***************************************************************************)
EXTENDS HealthScheduler, FiniteSetTheorems, SequenceTheorems,
        TLAPS

\* What the three calls of the scheduler do to a queue of different daemons.

Distinct(q) == \A i, j \in DOMAIN q : q[i] = q[j] => i = j

LEMMA DroppedPosition ==
  ASSUME NEW q \in Seq(Dockerds), Distinct(q),
         NEW p \in 1..Len(q), NEW d, q[p] = d
  PROVE  Dropped(q, d) = RemoveAt(q, p)
<1>1. {i \in 1..Len(q) : q[i] = d} = {p}
  BY DEF Distinct
<1>2. Min({p}) = p
  BY DEF Min
<1>3. SelectInSeq(q, LAMBDA v : v = d) = p
  BY <1>1, <1>2 DEF SelectInSeq
<1>4. QED
  BY <1>3 DEF Dropped, RemoveFirst

LEMMA RemovedElements ==
  ASSUME NEW q \in Seq(Dockerds), NEW p \in 1..Len(q)
  PROVE  /\ RemoveAt(q, p) \in Seq(Dockerds)
         /\ Len(RemoveAt(q, p)) = Len(q) - 1
         /\ \A i \in 1..Len(q) - 1 :
              RemoveAt(q, p)[i] = IF i < p THEN q[i] ELSE q[i + 1]
<1> DEFINE a == SubSeq(q, 1, p - 1)
           b == SubSeq(q, p + 1, Len(q))
<1>1. a \in Seq(Dockerds) /\ Len(a) = p - 1 /\ \A i \in 1..p - 1 : a[i] = q[i]
  OBVIOUS
<1>2. /\ b \in Seq(Dockerds) /\ Len(b) = Len(q) - p
      /\ \A i \in 1..Len(q) - p : b[i] = q[p + i]
  OBVIOUS
<1>3. RemoveAt(q, p) = a \o b
  BY DEF RemoveAt
<1> HIDE DEF a, b
<1>4. /\ a \o b \in Seq(Dockerds)
      /\ Len(a \o b) = Len(a) + Len(b)
      /\ \A i \in 1..Len(a) + Len(b) :
           (a \o b)[i] = IF i <= Len(a) THEN a[i] ELSE b[i - Len(a)]
  <2>1. a \in Seq(Dockerds) /\ b \in Seq(Dockerds)
    BY <1>1, <1>2
  <2>2. QED
    BY ONLY <2>1, ConcatProperties
<1>5. Len(a \o b) = Len(q) - 1
  BY <1>1, <1>2, <1>4
<1>6. ASSUME NEW i \in 1..Len(q) - 1
      PROVE  (a \o b)[i] = IF i < p THEN q[i] ELSE q[i + 1]
  <2>1. CASE i < p
    <3>1. (a \o b)[i] = a[i]
      BY <1>1, <1>2, <1>4, <2>1
    <3>2. QED
      BY <1>1, <2>1, <3>1
  <2>2. CASE ~(i < p)
    <3>1. i - (p - 1) \in 1..Len(q) - p /\ p + (i - (p - 1)) = i + 1
      BY <2>2
    <3>2. (a \o b)[i] = b[i - (p - 1)]
      BY <1>1, <1>2, <1>4, <2>2
    <3>3. b[i - (p - 1)] = q[p + (i - (p - 1))]
      BY <1>2, <3>1
    <3>4. QED
      BY <2>2, <3>1, <3>2, <3>3
  <2>3. QED
    BY <2>1, <2>2
<1>7. QED
  BY <1>3, <1>4, <1>5, <1>6

LEMMA RotatedElements ==
  ASSUME NEW q \in Seq(Dockerds), q # <<>>
  PROVE  /\ Rotated(q) \in Seq(Dockerds)
         /\ Len(Rotated(q)) = Len(q)
         /\ \A i \in 1..Len(q) :
              Rotated(q)[i] = IF i < Len(q) THEN q[i + 1] ELSE q[1]
BY DEF Rotated

LEMMA AppendedElements ==
  ASSUME NEW q \in Seq(Dockerds), NEW d \in Dockerds, ~Contains(q, d)
  PROVE  /\ Appended(q, d) \in Seq(Dockerds)
         /\ Len(Appended(q, d)) = Len(q) + 1
         /\ \A i \in 1..Len(q) + 1 :
              Appended(q, d)[i] = IF i <= Len(q) THEN q[i] ELSE d
BY DEF Appended

\* A queue without repetitions is not longer than there are daemons.
LEMMA DistinctIsShort ==
  ASSUME NEW q \in Seq(Dockerds), Distinct(q)
  PROVE  Len(q) <= Cardinality(Dockerds)
<1>1. q \in Injection(1..Len(q), Dockerds)
  BY DEF Distinct, Injection, IsInjective
<1>2. Cardinality(1..Len(q)) = Len(q)
  BY FS_Interval, 1 \in Int, Len(q) \in Nat
<1>3. Cardinality(1..Len(q)) <= Cardinality(Dockerds)
  BY <1>1, FS_Injection, DockerdsAssumption
<1>4. QED
  BY <1>2, <1>3
-----------------------------------------------------------------------------
\* The same calls, as far as the rest of the argument needs them: who is
\* queued, and that nobody moves back but by a turn of its own.

LEMMA DroppedQueue ==
  ASSUME NEW q \in Seq(Dockerds), Distinct(q), NEW d \in ToSet(q)
  PROVE  /\ Dropped(q, d) \in Seq(Dockerds)
         /\ Distinct(Dropped(q, d))
         /\ ToSet(Dropped(q, d)) = ToSet(q) \ {d}
         /\ \A i \in DOMAIN Dropped(q, d) :
              \E j \in DOMAIN q : j >= i /\ Dropped(q, d)[i] = q[j]
<1>1. PICK p \in 1..Len(q) : q[p] = d
  BY DEF ToSet
<1> DEFINE r == RemoveAt(q, p)
<1>2. Dropped(q, d) = r
  BY <1>1, DroppedPosition
<1>3. /\ r \in Seq(Dockerds)
      /\ Len(r) = Len(q) - 1
      /\ \A i \in 1..Len(q) - 1 : r[i] = IF i < p THEN q[i] ELSE q[i + 1]
  BY RemovedElements
<1> HIDE DEF r
<1>4. ASSUME NEW i \in 1..Len(r), NEW j \in 1..Len(r), r[i] = r[j]
      PROVE  i = j
  <2> DEFINE at(n) == IF n < p THEN n ELSE n + 1
  <2>1. /\ at(i) \in DOMAIN q /\ r[i] = q[at(i)]
        /\ at(j) \in DOMAIN q /\ r[j] = q[at(j)]
    BY <1>3
  <2>2. at(i) = at(j)
    BY <1>4, <2>1 DEF Distinct
  <2>3. QED
    BY <2>2
<1>5. ToSet(r) = ToSet(q) \ {d}
  <2>1. ASSUME NEW i \in 1..Len(r) PROVE r[i] \in ToSet(q) \ {d}
    BY <1>1, <1>3 DEF ToSet, Distinct
  <2>2. ASSUME NEW j \in 1..Len(q), q[j] # d PROVE q[j] \in ToSet(r)
    <3>1. CASE j < p
      <4>1. j \in 1..Len(r) /\ r[j] = q[j]
        BY <1>3, <3>1
      <4>2. QED
        BY <1>3, <4>1 DEF ToSet
    <3>2. CASE j > p
      <4>1. j - 1 \in 1..Len(r) /\ r[j - 1] = q[j]
        BY <1>3, <3>2
      <4>2. QED
        BY <1>3, <4>1 DEF ToSet
    <3>3. QED
      BY <1>1, <2>2, <3>1, <3>2
  <2>3. QED
    BY <1>3, <2>1, <2>2 DEF ToSet
<1>6. ASSUME NEW i \in 1..Len(r)
      PROVE  \E j \in 1..Len(q) : j >= i /\ r[i] = q[j]
  <2>1. CASE i < p
    BY <1>3, <2>1
  <2>2. CASE ~(i < p)
    <3>1. i + 1 \in 1..Len(q) /\ i + 1 >= i /\ r[i] = q[i + 1]
      BY <1>3, <2>2
    <3>2. QED
      BY <3>1
  <2>3. QED
    BY <2>1, <2>2
<1>7. DOMAIN r = 1..Len(r) /\ DOMAIN q = 1..Len(q)
  BY <1>3
<1>8. Distinct(r)
  BY <1>4, <1>7 DEF Distinct
<1>9. QED
  BY <1>2, <1>3, <1>5, <1>6, <1>7, <1>8

LEMMA RotatedQueue ==
  ASSUME NEW q \in Seq(Dockerds), q # <<>>, Distinct(q)
  PROVE  /\ Distinct(Rotated(q))
         /\ ToSet(Rotated(q)) = ToSet(q)
<1> DEFINE r == Rotated(q)
<1>1. /\ r \in Seq(Dockerds)
      /\ Len(r) = Len(q)
      /\ \A i \in 1..Len(q) : r[i] = IF i < Len(q) THEN q[i + 1] ELSE q[1]
  BY RotatedElements
<1> HIDE DEF r
<1> DEFINE at(n) == IF n < Len(q) THEN n + 1 ELSE 1
<1>2. \A i \in 1..Len(q) : at(i) \in DOMAIN q /\ r[i] = q[at(i)]
  BY <1>1
<1>3. ASSUME NEW i \in 1..Len(r), NEW j \in 1..Len(r), r[i] = r[j]
      PROVE  i = j
  <2>1. at(i) = at(j)
    BY <1>1, <1>2, <1>3 DEF Distinct
  <2>2. QED
    BY <1>1, <2>1
<1>4. Distinct(r)
  <2>1. DOMAIN r = 1..Len(r)
    BY <1>1
  <2>2. QED
    BY <1>3, <2>1 DEF Distinct
<1>5. ToSet(r) = ToSet(q)
  <2>1. ASSUME NEW i \in 1..Len(q) PROVE r[i] \in ToSet(q)
    BY <1>2 DEF ToSet
  <2>2. ASSUME NEW j \in 1..Len(q) PROVE q[j] \in ToSet(r)
    <3>1. CASE j = 1
      <4>1. r[Len(q)] = q[j] /\ Len(q) \in 1..Len(r)
        BY <1>1, <3>1
      <4>2. QED
        BY <1>1, <4>1 DEF ToSet
    <3>2. CASE j > 1
      <4>1. r[j - 1] = q[j] /\ j - 1 \in 1..Len(r)
        BY <1>1, <3>2
      <4>2. QED
        BY <1>1, <4>1 DEF ToSet
    <3>3. QED
      BY <3>1, <3>2
  <2>3. QED
    BY <1>1, <2>1, <2>2 DEF ToSet
<1>6. QED
  BY <1>4, <1>5 DEF r

LEMMA AppendedQueue ==
  ASSUME NEW q \in Seq(Dockerds), NEW d \in Dockerds, Distinct(q)
  PROVE  /\ Appended(q, d) \in Seq(Dockerds)
         /\ Distinct(Appended(q, d))
         /\ ToSet(Appended(q, d)) = ToSet(q) \cup {d}
<1>1. CASE Contains(q, d)
  BY <1>1 DEF Appended, Contains, ToSet
<1>2. CASE ~Contains(q, d)
  <2> DEFINE r == Appended(q, d)
  <2>1. /\ r \in Seq(Dockerds)
        /\ Len(r) = Len(q) + 1
        /\ \A i \in 1..Len(q) + 1 : r[i] = IF i <= Len(q) THEN q[i] ELSE d
    BY <1>2, AppendedElements
  <2> HIDE DEF r
  <2>2. Distinct(r)
    BY <1>2, <2>1 DEF Distinct, Contains
  <2>3. ToSet(r) = ToSet(q) \cup {d}
    <3>1. ASSUME NEW i \in 1..Len(r) PROVE r[i] \in ToSet(q) \cup {d}
      BY <2>1 DEF ToSet
    <3>2. ASSUME NEW j \in 1..Len(q) PROVE q[j] \in ToSet(r)
      <4>1. j \in 1..Len(r) /\ r[j] = q[j]
        BY <2>1
      <4>2. QED
        BY <2>1, <4>1 DEF ToSet
    <3>3. d \in ToSet(r)
      <4>1. Len(q) + 1 \in 1..Len(r) /\ r[Len(q) + 1] = d
        BY <2>1
      <4>2. QED
        BY <2>1, <4>1 DEF ToSet
    <3>4. QED
      BY <2>1, <3>1, <3>2, <3>3 DEF ToSet
  <2>4. QED
    BY <2>1, <2>2, <2>3 DEF r
<1>3. QED
  BY <1>1, <1>2
-----------------------------------------------------------------------------
\* The inductive invariant.

Shapes ==
  /\ queue \in Seq(Dockerds)
  /\ known \subseteq Dockerds
  /\ age \in [Dockerds -> 0..MaxAge]
  /\ clock \in 0..Interval
  /\ received \in Dockerds \cup {NoDockerd}
  /\ overdue \subseteq known
  /\ passedOver \in [Dockerds -> 0..Cardinality(Dockerds)]

\* The worker does one thing at a time.
OneTask == received # NoDockerd => overdue = {} /\ received \in known

\* Whoever is k-th in the queue can still wait for k picks.
TurnsLeft ==
  \A i \in DOMAIN queue : passedOver[queue[i]] + i <= Cardinality(Dockerds)

\* A tick finds all that are overdue, so what it leaves is at most as old as
\* the time to the next one allows; it is done before time goes on.
AgesBounded ==
  /\ \A d \in known \ overdue : age[d] <= Interval + clock
  /\ \A d \in overdue : Interval < age[d] /\ age[d] <= 2 * Interval

HealthInv == Shapes /\ OneTask /\ QueueMatchesHealth /\ TurnsLeft /\ AgesBounded

LEMMA DaemonsAreCounted == Cardinality(Dockerds) \in Nat
BY FS_CardinalityType, DockerdsAssumption

LEMMA InitHealth == Init => HealthInv
BY DaemonsAreCounted, IntervalAssumption
   DEF Init, HealthInv, Shapes, OneTask, QueueMatchesHealth, TurnsLeft,
       AgesBounded, MaxAge, ToSet

LEMMA ReceiveHealth ==
  ASSUME HealthInv, NEW d \in Dockerds, Receive(d)
  PROVE  HealthInv'
<1> USE NoDockerdAssumption, IntervalAssumption
        DEF HealthInv, Receive, Waiting
<1>1. Shapes'
  BY DEF Shapes, MaxAge
<1>2. OneTask'
  BY DEF OneTask
<1>3. QueueMatchesHealth'
  BY DEF QueueMatchesHealth, Shapes, ToSet
<1>4. TurnsLeft'
  BY DEF TurnsLeft
<1>5. AgesBounded'
  BY DEF AgesBounded, Shapes
<1>6. QED
  BY <1>1, <1>2, <1>3, <1>4, <1>5

LEMMA AppendHealth ==
  ASSUME HealthInv, AppendReceived
  PROVE  HealthInv'
<1> USE DEF HealthInv, AppendReceived
<1>1. received \in Dockerds /\ overdue = {} /\ Distinct(queue)
  BY DEF Shapes, OneTask, QueueMatchesHealth, Distinct
<1>2. /\ queue' \in Seq(Dockerds)
      /\ Distinct(queue')
      /\ ToSet(queue') = ToSet(queue) \cup {received}
  BY <1>1, AppendedQueue DEF Shapes
<1>3. Shapes'
  BY <1>2, DaemonsAreCounted DEF Shapes
<1>4. OneTask' /\ AgesBounded'
  BY DEF OneTask, AgesBounded
<1>5. QueueMatchesHealth'
  <2>1. /\ (known \ {received})' \subseteq ToSet(queue')
        /\ ToSet(queue') \subseteq known'
    BY <1>2 DEF QueueMatchesHealth, OneTask
  <2>2. QED
    BY <1>2, <2>1 DEF QueueMatchesHealth, ToSet, Distinct
<1>6. TurnsLeft'
  <2>1. CASE Contains(queue, received)
    <3>1. queue' = queue /\ passedOver' = passedOver
      BY <2>1 DEF Appended, Shapes
    <3>2. QED
      BY <3>1 DEF TurnsLeft
  <2>2. CASE ~Contains(queue, received)
    <3>1. /\ Len(queue') = Len(queue) + 1
          /\ \A i \in 1..Len(queue) + 1 :
               queue'[i] = IF i <= Len(queue) THEN queue[i] ELSE received
      BY <1>1, <2>2, AppendedElements DEF Shapes
    <3>2. Len(queue') <= Cardinality(Dockerds)
      BY <1>2, DistinctIsShort
    <3>3. passedOver' = [passedOver EXCEPT ![received] = 0]
      BY <2>2
    <3>4. ASSUME NEW i \in 1..Len(queue)
          PROVE  passedOver'[queue'[i]] + i <= Cardinality(Dockerds)
      <4>1. queue \in Seq(Dockerds)
        BY DEF Shapes
      <4>2. queue'[i] = queue[i] /\ queue[i] \in Dockerds
        BY ONLY <3>1, <4>1, i \in 1..Len(queue)
      <4>3. queue[i] # received
        BY ONLY <2>2, i \in 1..Len(queue) DEF Contains
      <4>4. passedOver'[queue'[i]] = passedOver[queue[i]]
        BY <3>3, <4>2, <4>3 DEF Shapes
      <4>5. QED
        BY <4>4 DEF TurnsLeft, Shapes
    <3>5. passedOver'[queue'[Len(queue) + 1]] = 0
      <4>1. queue \in Seq(Dockerds) /\ passedOver \in [Dockerds -> 0..Cardinality(Dockerds)]
        BY DEF Shapes
      <4>2. queue'[Len(queue) + 1] = received
        BY ONLY <3>1, <4>1
      <4>3. QED
        BY ONLY <1>1, <3>3, <4>1, <4>2
    <3>6. DOMAIN queue' = 1..Len(queue) + 1
      BY <1>2, <3>1
    <3>7. QED
      BY <3>1, <3>2, <3>4, <3>5, <3>6, DaemonsAreCounted DEF TurnsLeft, Shapes
  <2>3. QED
    BY <2>1, <2>2
<1>7. QED
  BY <1>3, <1>4, <1>5, <1>6

LEMMA SweepHealth ==
  ASSUME HealthInv, Sweep
  PROVE  HealthInv'
<1> USE IntervalAssumption DEF HealthInv, Sweep, Waiting
<1>1. Shapes' /\ OneTask'
  BY DEF Shapes, OneTask
<1>2. QueueMatchesHealth' /\ TurnsLeft'
  BY DEF QueueMatchesHealth, TurnsLeft, ToSet
<1>3. AgesBounded'
  BY DEF AgesBounded, Overdue, Shapes
<1>4. QED
  BY <1>1, <1>2, <1>3

LEMMA DropHealth ==
  ASSUME HealthInv, NEW d \in Dockerds, DropOverdue(d)
  PROVE  HealthInv'
<1> USE DEF HealthInv, DropOverdue
<1>1. received = NoDockerd /\ d \in ToSet(queue) /\ Distinct(queue)
  BY NoDockerdAssumption DEF Shapes, OneTask, QueueMatchesHealth, Distinct
<1>2. /\ queue' \in Seq(Dockerds)
      /\ Distinct(queue')
      /\ ToSet(queue') = ToSet(queue) \ {d}
      /\ \A i \in DOMAIN queue' :
           \E j \in DOMAIN queue : j >= i /\ queue'[i] = queue[j]
  BY <1>1, DroppedQueue DEF Shapes
<1>3. Shapes' /\ OneTask' /\ AgesBounded'
  BY <1>1, <1>2 DEF Shapes, OneTask, AgesBounded
<1>4. QueueMatchesHealth'
  <2>1. /\ (known \ {received})' \subseteq ToSet(queue')
        /\ ToSet(queue') \subseteq known'
    BY <1>2 DEF QueueMatchesHealth
  <2>2. QED
    BY <1>2, <2>1 DEF QueueMatchesHealth, ToSet, Distinct
<1>5. TurnsLeft'
  <2>1. SUFFICES ASSUME NEW i \in DOMAIN queue'
                 PROVE  passedOver[queue'[i]] + i <= Cardinality(Dockerds)
    BY DEF TurnsLeft
  <2>2. PICK j \in DOMAIN queue : j >= i /\ queue'[i] = queue[j]
    BY <1>2
  <2>3. i \in Nat /\ j \in Nat /\ queue[j] \in Dockerds
    <3>1. queue \in Seq(Dockerds) /\ queue' \in Seq(Dockerds)
      BY <1>2 DEF Shapes
    <3>2. QED
      BY ONLY <3>1, i \in DOMAIN queue', j \in DOMAIN queue
  <2>4. passedOver[queue[j]] + j <= Cardinality(Dockerds)
    BY DEF TurnsLeft
  <2>5. QED
    BY <2>2, <2>3, <2>4, DaemonsAreCounted DEF Shapes
<1>6. QED
  BY <1>3, <1>4, <1>5

LEMMA PickHealth ==
  ASSUME HealthInv, NEW d \in Dockerds, Pick(d)
  PROVE  HealthInv'
<1> USE DEF HealthInv, Pick, worker
<1>1. Distinct(queue) /\ d = queue[1] /\ queue \in Seq(Dockerds) /\ queue # <<>>
  BY DEF Shapes, QueueMatchesHealth, Distinct
<1>2. /\ queue' \in Seq(Dockerds)
      /\ Distinct(queue')
      /\ ToSet(queue') = ToSet(queue)
      /\ Len(queue') = Len(queue)
      /\ \A i \in 1..Len(queue) :
           queue'[i] = IF i < Len(queue) THEN queue[i + 1] ELSE queue[1]
  BY <1>1, RotatedQueue, RotatedElements
<1>3. ASSUME NEW i \in 1..Len(queue), i # 1
      PROVE  /\ queue[i] # d /\ queue[i] \in Dockerds
             /\ passedOver'[queue[i]] = passedOver[queue[i]] + 1
             /\ passedOver[queue[i]] + i <= Cardinality(Dockerds)
  <2>1. queue[i] # d /\ queue[i] \in Dockerds
    BY <1>1, <1>3 DEF Distinct
  <2>2. Contains(queue, queue[i])
    BY DEF Contains
  <2>3. QED
    BY <1>1, <2>1, <2>2 DEF TurnsLeft
<1>4. Shapes'
  <2>1. ASSUME NEW e \in Dockerds
        PROVE  passedOver'[e] \in 0..Cardinality(Dockerds)
    <3>1. CASE e = d
      BY <3>1, DaemonsAreCounted
    <3>2. CASE e # d /\ ~Contains(queue, e)
      BY <3>2 DEF Shapes
    <3>3. CASE e # d /\ Contains(queue, e)
      <4>1. PICK i \in 1..Len(queue) : queue[i] = e
        BY <3>3 DEF Contains
      <4>2. i # 1 /\ i \in Nat
        BY <1>1, <3>3, <4>1
      <4>3. /\ passedOver'[e] = passedOver[e] + 1
            /\ passedOver[e] + i <= Cardinality(Dockerds)
        BY ONLY <1>3, <4>1, <4>2
      <4>4. passedOver[e] \in Nat
        BY DaemonsAreCounted DEF Shapes
      <4>5. i > 1
        BY ONLY <4>1, <4>2
      <4>6. QED
        BY ONLY <4>2, <4>3, <4>4, <4>5, DaemonsAreCounted
    <3>4. QED
      BY <3>1, <3>2, <3>3
  <2>2. QED
    BY <1>2, <2>1 DEF Shapes
<1>5. OneTask' /\ AgesBounded'
  BY DEF OneTask, AgesBounded
<1>6. QueueMatchesHealth'
  <2>1. /\ (known \ {received})' \subseteq ToSet(queue')
        /\ ToSet(queue') \subseteq known'
    BY <1>2 DEF QueueMatchesHealth
  <2>2. QED
    BY <1>2, <2>1 DEF QueueMatchesHealth, ToSet, Distinct
<1>7. TurnsLeft'
  <2>1. ASSUME NEW i \in 1..Len(queue), i < Len(queue)
        PROVE  passedOver'[queue'[i]] + i <= Cardinality(Dockerds)
    <3>1. i + 1 \in 1..Len(queue) /\ i + 1 # 1 /\ queue'[i] = queue[i + 1]
      BY <1>2, <2>1
    <3>2. /\ passedOver'[queue[i + 1]] = passedOver[queue[i + 1]] + 1
          /\ passedOver[queue[i + 1]] + (i + 1) <= Cardinality(Dockerds)
          /\ queue[i + 1] \in Dockerds
      BY ONLY <1>3, <3>1
    <3>3. passedOver[queue[i + 1]] \in Nat
      BY <3>2, DaemonsAreCounted DEF Shapes
    <3>4. QED
      BY ONLY <3>1, <3>2, <3>3, DaemonsAreCounted, i \in 1..Len(queue),
              Len(queue) \in Nat
  <2>2. passedOver'[queue'[Len(queue)]] + Len(queue) <= Cardinality(Dockerds)
    <3>1. queue'[Len(queue)] = d
      BY <1>1, <1>2
    <3>2. passedOver'[d] = 0
      OBVIOUS
    <3>3. Len(queue) <= Cardinality(Dockerds)
      BY <1>1, DistinctIsShort
    <3>4. QED
      BY <1>1, <3>1, <3>2, <3>3, DaemonsAreCounted
  <2>3. DOMAIN queue' = 1..Len(queue)
    BY <1>2
  <2>4. ASSUME NEW i \in 1..Len(queue)
        PROVE  passedOver'[queue'[i]] + i <= Cardinality(Dockerds)
    <3>1. i < Len(queue) \/ i = Len(queue)
      BY <1>1
    <3>2. QED
      BY ONLY <2>1, <2>2, <3>1, i \in 1..Len(queue)
  <2>5. QED
    BY ONLY <2>3, <2>4 DEF TurnsLeft
<1>8. QED
  BY <1>4, <1>5, <1>6, <1>7

LEMMA PassHealth ==
  ASSUME HealthInv, Pass
  PROVE  HealthInv'
<1> USE IntervalAssumption DEF HealthInv, Pass, Waiting
<1>1. Shapes' /\ OneTask'
  BY DEF Shapes, OneTask, MaxAge
<1>2. QueueMatchesHealth' /\ TurnsLeft'
  BY DEF QueueMatchesHealth, TurnsLeft, ToSet
<1>3. AgesBounded'
  BY DEF AgesBounded, Shapes, MaxAge
<1>4. QED
  BY <1>1, <1>2, <1>3

LEMMA StepHealth == HealthInv /\ [Next]_vars => HealthInv'
<1>1. SUFFICES ASSUME HealthInv, [Next]_vars PROVE HealthInv'
  OBVIOUS
<1>2. CASE UNCHANGED vars
  BY <1>1, <1>2
     DEF vars, worker, HealthInv, Shapes, OneTask, QueueMatchesHealth,
         TurnsLeft, AgesBounded, ToSet
<1>3. CASE Next
  BY <1>1, <1>3, ReceiveHealth, AppendHealth, SweepHealth, DropHealth,
     PickHealth, PassHealth DEF Next
<1>4. QED
  BY <1>1, <1>2, <1>3

LEMMA AlwaysHealth == Spec => []HealthInv
BY InitHealth, StepHealth, PTL DEF Spec
-----------------------------------------------------------------------------
\* The queue, the health map, the ages and the history keep their types, and
\* nobody is passed over more often than there are daemons.
THEOREM SchedulerTypeCorrect == Spec => []TypeOK
<1>1. HealthInv => TypeOK
  BY DEF HealthInv, Shapes, TypeOK
<1>2. QED
  BY AlwaysHealth, <1>1, PTL

\* However polls, ticks and picks interleave, the queue of the scheduler and
\* the worker's health map hold the same daemons, each once.
THEOREM QueueAndMapAgree == Spec => []QueueMatchesHealth
<1>1. HealthInv => QueueMatchesHealth
  BY DEF HealthInv
<1>2. QED
  BY AlwaysHealth, <1>1, PTL

\* No session is given to a daemon that has been silent for two intervals.
THEOREM SilentAreNotPicked == Spec => []SilenceIsBounded
<1>1. HealthInv => SilenceIsBounded
  <2>1. SUFFICES ASSUME HealthInv, NEW d \in ToSet(queue)
                 PROVE  age[d] <= 2 * Interval
    BY DEF SilenceIsBounded
  <2>2. d \in known /\ d \in Dockerds
    BY <2>1 DEF HealthInv, QueueMatchesHealth, Shapes
  <2>3. d \in overdue \/ age[d] <= Interval + clock
    BY <2>1, <2>2 DEF HealthInv, AgesBounded
  <2>4. QED
    BY <2>1, <2>2, <2>3, IntervalAssumption
       DEF HealthInv, AgesBounded, Shapes, MaxAge
<1>2. QED
  BY AlwaysHealth, <1>1, PTL

\* With n daemons a queued one waits for at most n - 1 picks of others, also
\* when some come and go in the meantime.
THEOREM RoundRobinIsFair == Spec => []TurnsAreFair
<1>1. HealthInv => TurnsAreFair
  <2>1. SUFFICES ASSUME HealthInv, NEW d \in ToSet(queue)
                 PROVE  passedOver[d] < Cardinality(Dockerds)
    BY DEF TurnsAreFair
  <2>2. queue \in Seq(Dockerds)
    BY <2>1 DEF HealthInv, Shapes
  <2>3. PICK i \in DOMAIN queue : queue[i] = d
    BY DEF ToSet
  <2>4. i \in Nat /\ i >= 1 /\ d \in Dockerds
    BY <2>2, <2>3
  <2>5. passedOver[d] + i <= Cardinality(Dockerds) /\ passedOver[d] \in Nat
    BY <2>1, <2>3, <2>4, DaemonsAreCounted
       DEF HealthInv, TurnsLeft, Shapes
  <2>6. QED
    BY <2>4, <2>5, DaemonsAreCounted
<1>2. QED
  BY AlwaysHealth, <1>1, PTL
-----------------------------------------------------------------------------
\* Who is queued changes in two ways: the append of a daemon that was heard,
\* and the drop of one that is overdue.
LEMMA MembersChange ==
  ASSUME HealthInv, [Next]_vars
  PROVE  \/ ToSet(queue') = ToSet(queue)
         \/ \E d \in Dockerds : ToSet(queue') = ToSet(queue) \cup {d}
         \/ \E d \in overdue \cap ToSet(queue) : ToSet(queue') = ToSet(queue) \ {d}
<1>1. queue \in Seq(Dockerds) /\ Distinct(queue)
  BY DEF HealthInv, Shapes, QueueMatchesHealth, Distinct
<1>2. CASE AppendReceived
  <2>1. received \in Dockerds
    BY <1>2 DEF AppendReceived, HealthInv, Shapes
  <2>2. ToSet(queue') = ToSet(queue) \cup {received}
    BY <1>1, <1>2, <2>1, AppendedQueue DEF AppendReceived
  <2>3. QED
    BY <2>1, <2>2
<1>3. ASSUME NEW d \in Dockerds, DropOverdue(d)
      PROVE  \E e \in overdue \cap ToSet(queue) :
               ToSet(queue') = ToSet(queue) \ {e}
  <2>1. d \in overdue \cap ToSet(queue)
    BY <1>3, NoDockerdAssumption
       DEF DropOverdue, HealthInv, Shapes, OneTask, QueueMatchesHealth
  <2>2. ToSet(queue') = ToSet(queue) \ {d}
    BY <1>1, <1>3, <2>1, DroppedQueue DEF DropOverdue
  <2>3. QED
    BY <2>1, <2>2
<1>4. ASSUME NEW d \in Dockerds, Pick(d) PROVE ToSet(queue') = ToSet(queue)
  BY <1>1, <1>4, RotatedQueue DEF Pick
<1>5. CASE UNCHANGED queue
  BY <1>5
<1>6. QED
  BY <1>2, <1>3, <1>4, <1>5 DEF Next, Receive, Sweep, Pass, vars

\* A daemon heard from within the last interval is not taken out of the queue,
\* not even by a sweep that had begun before it was heard.
THEOREM FreshDaemonsStay == Spec => FreshIsKept
<1> DEFINE Kept == \A d \in ToSet(queue) : age[d] <= Interval => d \in ToSet(queue')
<1>1. HealthInv /\ [Next]_vars => Kept
  <2>1. SUFFICES ASSUME HealthInv, [Next]_vars PROVE Kept
    OBVIOUS
  <2>2. \A d \in overdue : ~(age[d] <= Interval)
    BY <2>1, IntervalAssumption DEF HealthInv, AgesBounded, Shapes, MaxAge
  <2>3. QED
    BY <2>1, <2>2, MembersChange
<1>2. HealthInv /\ [Next]_vars => [Kept]_vars
  BY <1>1
<1>3. QED
  BY AlwaysHealth, <1>2, PTL DEF Spec, FreshIsKept

\* A queued daemon that is overdue grows older or is heard; a sweep finds it, and
\* from then on only its own drop ends the sweep for it.
LEMMA OverdueIsFound ==
  ASSUME HealthInv, [Next]_vars, NEW d \in ToSet(queue), age[d] > Interval
  PROVE  /\ d \in ToSet(queue') /\ age'[d] # 0 => age'[d] > Interval
         /\ Sweep => d \in overdue'
         /\ d \in overdue => ~Sweep
         /\ d \in overdue /\ d \in ToSet(queue') => d \in overdue'
<1>1. /\ queue \in Seq(Dockerds) /\ Distinct(queue)
      /\ d \in known /\ d \in Dockerds
      /\ age \in [Dockerds -> 0..MaxAge] /\ Interval \in Nat
  BY IntervalAssumption DEF HealthInv, Shapes, QueueMatchesHealth, Distinct
<1>2. age'[d] # 0 => age'[d] > Interval
  <2>1. CASE Pass
    BY <1>1, <2>1 DEF Pass, MaxAge
  <2>2. ASSUME NEW e \in Dockerds, Receive(e) PROVE age'[d] # 0 => age'[d] > Interval
    BY <1>1, <2>2 DEF Receive
  <2>3. CASE UNCHANGED age
    BY <2>3
  <2>4. QED
    BY <2>1, <2>2, <2>3
       DEF Next, AppendReceived, Sweep, DropOverdue, Pick, worker, vars
<1>3. Sweep => d \in overdue'
  BY <1>1 DEF Sweep, Overdue
<1>4. d \in overdue => ~Sweep
  BY DEF Sweep, Waiting
<1>5. ASSUME d \in overdue, d \in ToSet(queue') PROVE d \in overdue'
  <2>1. ASSUME NEW e \in Dockerds, DropOverdue(e) PROVE d \in overdue'
    <3>1. e # d
      BY <1>1, <1>5, <2>1, DroppedQueue DEF DropOverdue
    <3>2. QED
      BY <1>5, <2>1, <3>1 DEF DropOverdue
  <2>2. CASE UNCHANGED overdue
    BY <1>5, <2>2
  <2>3. QED
    BY <1>4, <1>5, <2>1, <2>2
       DEF Next, Receive, AppendReceived, Pick, Pass, worker, vars
<1>6. QED
  BY <1>2, <1>3, <1>4, <1>5

\* The ticker of the worker goes on, and its ticks are served.
SweepsRecur == []<><<Sweep>>_vars

\* A silent daemon is dropped by the sweep after the one that finds it overdue,
\* at the latest: it cannot begin before every drop of that one is done.
THEOREM SilentAreDropped == Spec /\ SweepsRecur => SilentIsDropped
<1>1. ASSUME NEW d \in Dockerds
      PROVE  Spec /\ SweepsRecur
               => ((d \in ToSet(queue) /\ age[d] > Interval)
                     ~> (d \notin ToSet(queue) \/ age[d] = 0))
  <2> DEFINE Silent == d \in ToSet(queue) /\ age[d] > Interval
             Over   == d \notin ToSet(queue) \/ age[d] = 0
             Found  == d \in overdue
  <2>1. HealthInv /\ [Next]_vars /\ Silent => Silent' \/ Over'
    BY OverdueIsFound
  <2>2. HealthInv /\ Silent /\ <<Sweep>>_vars => Found'
    BY OverdueIsFound DEF Next
  <2>3. HealthInv /\ [Next]_vars /\ Silent /\ Found => ~<<Sweep>>_vars
    BY OverdueIsFound
  <2>4. HealthInv /\ [Next]_vars /\ Silent /\ Found => Found' \/ Over'
    BY OverdueIsFound
  <2> HIDE DEF Silent, Over, Found
  <2>5. Spec /\ SweepsRecur => (Silent ~> Over)
    BY AlwaysHealth, <2>1, <2>2, <2>3, <2>4, PTL DEF Spec, SweepsRecur
  <2>6. QED
    BY <2>5 DEF Silent, Over
<1>2. QED
  BY <1>1 DEF SilentIsDropped

\* The queue, the map and the clock implement the membership that ApiSessions
\* is written against.
THEOREM SchedulerIsMembership == Spec => ImplementsMembership
<1>1. Init => Members!MembershipInit
  BY DEF Init, Members!MembershipInit, ToSet
<1>2. HealthInv /\ [Next]_vars => [Members!MembershipNext]_(ToSet(queue))
  BY MembersChange
     DEF Members!MembershipNext, Members!Heard, Members!Drop, HealthInv, Shapes
<1>3. QED
  BY AlwaysHealth, <1>1, <1>2, PTL
     DEF Spec, ImplementsMembership, Members!MembershipSpec
=============================================================================
