-------------------------- MODULE ZmqPipelineProofs --------------------------
(***************************************************************************)
(* Every request is in one place, and the server answers requests and ends, *)
(* for any number of requests and handlers.  When the steps of a goroutine *)
(* are enabled is a premise of what is said of the end.                    *)
(***************************************************************************)
EXTENDS ZmqPipeline, TLAPS

USE NoRequestAssumption, PollsAssumption

\* The steps that change no request and no stage.
Outside == \/ HealthStops \/ Signal \/ HttpStops \/ HttpFails
           \/ UNCHANGED vars

-----------------------------------------------------------------------------
LEMMA TypeInit == Init => TypeOK
<1> SUFFICES ASSUME Init PROVE TypeOK
  OBVIOUS
<1>1. /\ receiver \in Empty({"check", "receive", "done"})
      /\ sender \in Empty({"take", "done", "failed"})
  BY DEF Init, Empty, At
<1>2. handler \in [Handlers -> Empty({"take", "done"})
                                \cup InHand({"health", "put"})]
  BY DEF Init, Empty, At
<1>3. request \in [Requests -> {"new", "waiting", "answered", "gaveUp"}]
  BY DEF Init
<1> QED
  BY <1>1, <1>2, <1>3 DEF Init, TypeOK

\* Every stage keeps its shape.
LEMMA TypeStep == TypeOK /\ [Next]_vars => TypeOK'
<1> SUFFICES ASSUME TypeOK, [Next]_vars PROVE TypeOK'
  OBVIOUS
<1> USE DEF TypeOK, Empty, InHand, At, Holding
<1>1. ASSUME NEW r \in Requests, Send(r) PROVE TypeOK'
  BY <1>1 DEF Send, server, others
<1>2. ASSUME NEW r \in Requests, GiveUp(r) PROVE TypeOK'
  BY <1>2 DEF GiveUp, server, others
<1>3. CASE ReceiverCheck
  BY <1>3 DEF ReceiverCheck, others
<1>4. ASSUME NEW r \in Requests, Receive(r) PROVE TypeOK'
  BY <1>4 DEF Receive, others
<1>5. CASE ReceiveTimeout \/ ReceiverQuits
  BY <1>5 DEF ReceiveTimeout, ReceiverQuits, others
<1>6. ASSUME NEW h \in Handlers, Take(h) PROVE TypeOK'
  BY <1>6 DEF Take, others
<1>7. ASSUME NEW h \in Handlers, TellHealth(h) PROVE TypeOK'
  BY <1>7 DEF TellHealth, others
<1>8. ASSUME NEW h \in Handlers, Put(h) PROVE TypeOK'
  BY <1>8 DEF Put, others
<1>9. ASSUME NEW h \in Handlers, HandlerQuits(h) PROVE TypeOK'
  BY <1>9 DEF HandlerQuits, others
<1>10. CASE SenderStep \/ SenderQuits
  BY <1>10 DEF SenderStep, SendReply, SendFails, SenderQuits, others
<1>11. CASE Outside
  BY <1>11 DEF Outside, HealthStops, Signal, HttpStops, HttpFails, vars, server,
               others
<1> QED
  BY <1>1, <1>2, <1>3, <1>4, <1>5, <1>6, <1>7, <1>8, <1>9, <1>10, <1>11
  DEF Next, ReceiverStep, Outside

-----------------------------------------------------------------------------
\* A context that is cancelled stays so: signals and failures are not taken
\* back, and a server that has come to its end takes no step.
LEMMA CancelIsFinal ==
  ASSUME TypeOK, [Next]_vars, ZmqCancelled
  PROVE  ZmqCancelled'
<1> USE DEF TypeOK, Empty, InHand, At, Holding, ZmqCancelled, ApiCancelled,
            ZmqStopped
<1>1. ASSUME NEW r \in Requests, Send(r) \/ GiveUp(r) PROVE ZmqCancelled'
  BY <1>1 DEF Send, GiveUp, server, others
<1>2. CASE ReceiverStep
  BY <1>2 DEF ReceiverStep, ReceiverCheck, Receive, ReceiveTimeout,
              ReceiverQuits, others
<1>3. ASSUME NEW h \in Handlers,
             Take(h) \/ TellHealth(h) \/ Put(h) \/ HandlerQuits(h)
      PROVE  ZmqCancelled'
  BY <1>3 DEF Take, TellHealth, Put, HandlerQuits, others
<1>4. CASE SenderStep \/ SenderQuits
  BY <1>4 DEF SenderStep, SendReply, SendFails, SenderQuits, others
<1>5. CASE Outside
  BY <1>5 DEF Outside, HealthStops, Signal, HttpStops, HttpFails, vars, server,
              others
<1> QED
  BY <1>1, <1>2, <1>3, <1>4, <1>5 DEF Next, Outside
-----------------------------------------------------------------------------
LEMMA PlacesInit == Init => NoneTwiceNoneLost
BY DEF Init, At, NoneTwiceNoneLost, NeverTwice, InServer

\* Every step moves a request from one place to the next, or drops it when it
\* is answered, given up, or the server is told to end.
LEMMA PlacesStep ==
  ASSUME TypeOK, NoneTwiceNoneLost, [Next]_vars
  PROVE  NoneTwiceNoneLost'
<1>0. TypeOK' /\ (ZmqCancelled => ZmqCancelled')
  BY TypeStep, CancelIsFinal
<1>1. ASSUME NEW r \in Requests, Send(r) PROVE NoneTwiceNoneLost'
  BY <1>0, <1>1 DEF Send, server, NoneTwiceNoneLost, NeverTwice, InServer, TypeOK
<1>2. ASSUME NEW r \in Requests, GiveUp(r) PROVE NoneTwiceNoneLost'
  BY <1>0, <1>2 DEF GiveUp, server, NoneTwiceNoneLost, NeverTwice, InServer, TypeOK
<1>3. CASE ReceiverCheck
  BY <1>0, <1>3 DEF ReceiverCheck, At, NoneTwiceNoneLost, NeverTwice, InServer,
                    TypeOK, Empty, InHand
<1>4. ASSUME NEW r \in Requests, Receive(r) PROVE NoneTwiceNoneLost'
  BY <1>0, <1>4 DEF Receive, Holding, NoneTwiceNoneLost, NeverTwice, InServer,
                    TypeOK, Empty, InHand
<1>5. CASE ReceiveTimeout
  BY <1>0, <1>5 DEF ReceiveTimeout, At, NoneTwiceNoneLost, NeverTwice, InServer,
                    TypeOK, Empty, InHand
<1>6. CASE ReceiverQuits
  BY <1>0, <1>6 DEF ReceiverQuits, At, NoneTwiceNoneLost, NeverTwice, InServer,
                    TypeOK
<1>7. ASSUME NEW h \in Handlers, Take(h) PROVE NoneTwiceNoneLost'
  BY <1>0, <1>7 DEF Take, At, Holding, NoneTwiceNoneLost, NeverTwice, InServer,
                    TypeOK, Empty, InHand
<1>8. ASSUME NEW h \in Handlers, TellHealth(h) PROVE NoneTwiceNoneLost'
  BY <1>0, <1>8 DEF TellHealth, Holding, NoneTwiceNoneLost, NeverTwice, InServer,
                    TypeOK
<1>9. ASSUME NEW h \in Handlers, Put(h) PROVE NoneTwiceNoneLost'
  BY <1>0, <1>9 DEF Put, At, Holding, NoneTwiceNoneLost, NeverTwice, InServer,
                    TypeOK, Empty, InHand
<1>10. ASSUME NEW h \in Handlers, HandlerQuits(h) PROVE NoneTwiceNoneLost'
  BY <1>0, <1>10 DEF HandlerQuits, At, NoneTwiceNoneLost, NeverTwice, InServer,
                     TypeOK
<1>11. CASE SendReply
  BY <1>0, <1>11 DEF SendReply, At, NoneTwiceNoneLost, NeverTwice, InServer,
                     TypeOK, Empty, InHand
<1>12. CASE SendFails
  <2>1. ZmqCancelled'
    BY <1>12 DEF SendFails, At, ZmqCancelled
  <2> QED
    BY <1>0, <1>12, <2>1 DEF SendFails, At, NoneTwiceNoneLost, NeverTwice,
                             InServer, TypeOK
<1>13. CASE SenderQuits
  BY <1>0, <1>13 DEF SenderQuits, At, NoneTwiceNoneLost, NeverTwice, InServer,
                     TypeOK, Empty, InHand
<1>14. CASE Outside
  BY <1>0, <1>14 DEF Outside, HealthStops, Signal, HttpStops, HttpFails, vars,
                     server, NoneTwiceNoneLost, NeverTwice, InServer
<1> QED
  BY <1>1, <1>2, <1>3, <1>4, <1>5, <1>6, <1>7, <1>8, <1>9, <1>10, <1>11, <1>12,
     <1>13, <1>14 DEF Next, ReceiverStep, SenderStep, Outside

-----------------------------------------------------------------------------
\* The type invariant of ZmqPipeline.
THEOREM ZmqTypeCorrect == Spec => []TypeOK
<1>1. Init => TypeOK
  BY TypeInit
<1>2. TypeOK /\ [Next]_vars => TypeOK'
  BY TypeStep
<1> QED
  BY <1>1, <1>2, PTL DEF Spec

\* However many handlers pass requests on, and wherever a signal or a failure
\* meets them, no request is answered twice, and none that is waited for is
\* lost before the server is told to end.
THEOREM RequestsAreKept == Spec => []NoneTwiceNoneLost
<1>1. Init => NoneTwiceNoneLost
  BY PlacesInit
<1>2. TypeOK /\ NoneTwiceNoneLost /\ [Next]_vars => NoneTwiceNoneLost'
  BY PlacesStep
<1> QED
  BY <1>1, <1>2, ZmqTypeCorrect, PTL DEF Spec
-----------------------------------------------------------------------------
\* Each goroutine moves by its own steps and by those it takes with another.
LEMMA WhoMoves ==
  ASSUME TypeOK, [Next]_vars
  PROVE  /\ receiver' = receiver \/ ReceiverStep \/ \E h \in Handlers : Take(h)
         /\ sender' = sender \/ SenderStep \/ SenderQuits
                              \/ \E h \in Handlers : Put(h)
         /\ \A h \in Handlers : \/ handler'[h] = handler[h]
                               \/ Take(h) \/ TellHealth(h) \/ Put(h) \/ HandlerQuits(h)
         /\ healthUp' = healthUp \/ HealthStops
         /\ http' = http \/ HttpStops \/ HttpFails
         /\ signalled' = signalled \/ Signal
<1>1. ASSUME NEW g \in Handlers, NEW h \in Handlers, g # h,
             Take(g) \/ TellHealth(g) \/ Put(g) \/ HandlerQuits(g)
      PROVE  handler'[h] = handler[h]
  BY <1>1 DEF Take, TellHealth, Put, HandlerQuits, TypeOK
<1>2. \A r \in Requests : Send(r) \/ GiveUp(r) => UNCHANGED <<server, others>>
  BY DEF Send, GiveUp
<1>3. ReceiverStep => UNCHANGED <<handler, sender, others>>
  BY DEF ReceiverStep, ReceiverCheck, Receive, ReceiveTimeout, ReceiverQuits
<1>4. SenderStep \/ SenderQuits => UNCHANGED <<receiver, handler, others>>
  BY DEF SenderStep, SendReply, SendFails, SenderQuits
<1>5. \A h \in Handlers :
        /\ Take(h) => UNCHANGED <<sender, others>>
        /\ TellHealth(h) \/ HandlerQuits(h) => UNCHANGED <<receiver, sender, others>>
        /\ Put(h) => UNCHANGED <<receiver, others>>
  BY DEF Take, TellHealth, Put, HandlerQuits
<1>6. /\ HealthStops => UNCHANGED <<server, http, signalled>>
      /\ Signal => UNCHANGED <<server, healthUp, http>>
      /\ HttpStops \/ HttpFails => UNCHANGED <<server, healthUp, signalled>>
  BY DEF HealthStops, Signal, HttpStops, HttpFails
<1>7. QED
  BY <1>1, <1>2, <1>3, <1>4, <1>5, <1>6 DEF Next, vars, server, others

\* Nothing comes to an end before the server is told to.
EndedInv ==
  \/ ZmqCancelled
  \/ /\ healthUp
     /\ receiver.pc # "done"
     /\ sender.pc \in {"take", "send"}
     /\ \A h \in Handlers : handler[h].pc # "done"

LEMMA StepEnded ==
  ASSUME TypeOK, EndedInv, [Next]_vars
  PROVE  EndedInv'
<1>1. CASE ZmqCancelled
  BY <1>1, CancelIsFinal DEF EndedInv
<1>2. CASE ~ZmqCancelled /\ sender'.pc \in {"take", "send"}
  <2>1. healthUp'
    BY <1>2, WhoMoves DEF EndedInv, HealthStops, ZmqCancelled
  <2>2. receiver'.pc # "done"
    BY <1>2, WhoMoves DEF EndedInv, ReceiverStep, ReceiverCheck, Receive,
       ReceiveTimeout, ReceiverQuits, Take, At, Holding
  <2>3. ASSUME NEW h \in Handlers PROVE handler'[h].pc # "done"
    BY <1>2, WhoMoves
       DEF EndedInv, Take, TellHealth, Put, HandlerQuits, At, Holding, TypeOK
  <2>4. QED
    BY <1>2, <2>1, <2>2, <2>3 DEF EndedInv
<1>3. CASE ~ZmqCancelled /\ sender'.pc \notin {"take", "send"}
  <2>1. sender'.pc = "failed"
    BY <1>3, WhoMoves DEF EndedInv, SenderStep, SendReply, SendFails, SenderQuits,
       Put, At, Holding
  <2>2. QED
    BY <2>1 DEF EndedInv, ZmqCancelled
<1>4. QED
  BY <1>1, <1>2, <1>3

\* When goroutines have a step to take.
ServerGoesOn ==
  /\ receiver.pc \in {"check", "receive"} \/ (receiver.pc = "put" /\ ZmqCancelled)
       => ENABLED <<ReceiverStep>>_vars
  /\ receiver.pc = "put" /\ (\E h \in Handlers : handler[h].pc = "take")
       => ENABLED <<TakeStep>>_vars
  /\ sender.pc = "send" => ENABLED <<SenderStep>>_vars
  /\ sender.pc = "take" /\ ZmqCancelled => ENABLED <<SenderQuits>>_vars
  /\ healthUp /\ ApiCancelled => ENABLED <<HealthStops>>_vars
  /\ http = "serving" /\ signalled => ENABLED <<HttpStops>>_vars
HandlerGoesOn(h) ==
  /\ handler[h].pc = "health" /\ healthUp => ENABLED <<TellHealth(h)>>_vars
  /\ handler[h].pc = "put" /\ sender.pc = "take" => ENABLED <<Put(h)>>_vars
  /\ handler[h].pc \in {"take", "put"} /\ ZmqCancelled
       => ENABLED <<HandlerQuits(h)>>_vars
ReceiveGoesOn(r) ==
  receiver.pc = "receive" /\ r \in arrived => ENABLED <<Receive(r)>>_vars
GoroutinesGoOn == /\ ServerGoesOn
                  /\ \A h \in Handlers : HandlerGoesOn(h)
                  /\ \A r \in Requests : ReceiveGoesOn(r)

\* What all the arguments about the ends of goroutines start from.
Going == /\ []TypeOK /\ []EndedInv /\ [][Next]_vars
         /\ []GoroutinesGoOn /\ ServerFairness

LEMMA FairIsGoing ==
  FairSpec /\ []GoroutinesGoOn => Going /\ \A h \in Handlers : HandlerFairness(h)
<1>1. Init => EndedInv
  BY DEF Init, EndedInv, At
<1>2. Spec => []EndedInv
  BY <1>1, StepEnded, ZmqTypeCorrect, PTL DEF Spec
<1>3. FairSpec /\ []GoroutinesGoOn => Going
  BY <1>2, ZmqTypeCorrect, PTL DEF FairSpec, Fairness, Spec, Going
<1>4. FairSpec => \A h \in Handlers : HandlerFairness(h)
  BY DEF FairSpec, Fairness
<1>5. QED
  BY <1>3, <1>4

\* The receiver, told to end, ends, whether it waits, holds a request, or has
\* just received one.
LEMMA ReceiverEnds == Going => (ZmqCancelled ~> [](receiver.pc = "done"))
<1> DEFINE C == ZmqCancelled
           Check == receiver.pc = "check"
           Receives == receiver.pc = "receive"
           Puts == receiver.pc = "put"
           Done == receiver.pc = "done"
<1> USE DEF TypeOK, Empty, InHand, At, Holding, ReceiverStep, ReceiverCheck,
            Receive, ReceiveTimeout, ReceiverQuits, Take
<1>1. TypeOK => Check \/ Receives \/ Puts \/ Done
  OBVIOUS
<1>2. TypeOK /\ [Next]_vars /\ Done => Done'
  BY WhoMoves
<1>3. TypeOK /\ [Next]_vars /\ C /\ Check
        => (Check' \/ Done') /\ (<<ReceiverStep>>_vars => Done')
  BY WhoMoves
<1>4. TypeOK /\ [Next]_vars /\ C /\ Puts
        => (Puts' \/ Check' \/ Done') /\ (<<ReceiverStep>>_vars => Done')
  BY WhoMoves
<1>5. TypeOK /\ [Next]_vars /\ Receives
        => /\ Receives' \/ Check' \/ Puts'
           /\ <<ReceiverStep>>_vars => Check' \/ Puts'
  BY WhoMoves
<1>6. GoroutinesGoOn => /\ Check \/ Receives => ENABLED <<ReceiverStep>>_vars
                        /\ Puts /\ C => ENABLED <<ReceiverStep>>_vars
  BY DEF GoroutinesGoOn, ServerGoesOn
<1>7. TypeOK /\ [Next]_vars /\ C => C'
  BY CancelIsFinal
<1> HIDE DEF C, Check, Receives, Puts, Done
<1>8. Going => (C ~> []Done)
  BY <1>1, <1>2, <1>3, <1>4, <1>5, <1>6, <1>7, PTL DEF Going, ServerFairness
<1>9. QED
  BY <1>8 DEF C, Done

\* A handler, told to end, ends, unless one is caught.
LEMMA HandlerEnds ==
  ASSUME NEW h \in Handlers
  PROVE  Going /\ HandlerFairness(h)
           => ([](ZmqCancelled /\ []~Caught => <>[](handler[h].pc = "done")))
<1> DEFINE C == ZmqCancelled
           RDone == receiver.pc = "done"
           Takes == handler[h].pc = "take"
           Tells == handler[h].pc = "health"
           Puts == handler[h].pc = "put"
           Done == handler[h].pc = "done"
           Up == healthUp
           Out == Caught
<1> USE DEF TypeOK, Empty, InHand, At, Holding, Take, TellHealth, Put, HandlerQuits
<1>1. TypeOK => Takes \/ Tells \/ Puts \/ Done
  OBVIOUS
<1>2. TypeOK /\ [Next]_vars /\ Done => Done'
  BY WhoMoves
<1>3. TypeOK /\ [Next]_vars /\ RDone /\ Takes => Takes' \/ Done'
  BY WhoMoves
<1>4. TypeOK /\ [Next]_vars /\ Puts => Puts' \/ Takes' \/ Done'
  BY WhoMoves
<1>5. TypeOK /\ [Next]_vars /\ Tells
        => (Tells' \/ Puts') /\ (<<TellHealth(h)>>_vars => Puts')
  BY WhoMoves
<1>6. TypeOK /\ <<HandlerQuits(h)>>_vars => Done'
  OBVIOUS
<1>7. Tells /\ ~Out => Up
  BY DEF Caught
<1>8. GoroutinesGoOn => /\ Tells /\ Up => ENABLED <<TellHealth(h)>>_vars
                        /\ (Takes \/ Puts) /\ C => ENABLED <<HandlerQuits(h)>>_vars
  <2>1. GoroutinesGoOn => HandlerGoesOn(h)
    BY DEF GoroutinesGoOn
  <2>2. QED
    BY <2>1 DEF HandlerGoesOn
<1>9. TypeOK /\ [Next]_vars /\ C => C'
  BY CancelIsFinal
<1>10. Going => (C ~> []RDone)
  BY ReceiverEnds
<1> HIDE DEF C, RDone, Takes, Tells, Puts, Done, Up, Out
<1>11. Going /\ HandlerFairness(h) => [](C /\ []~Out => <>[]Done)
  BY <1>1, <1>2, <1>3, <1>4, <1>5, <1>6, <1>7, <1>8, <1>9, <1>10, PTL
     DEF Going, HandlerFairness
<1>12. QED
  BY <1>11 DEF C, Done, Out

\* Handlers that all come to an end have ended at some time: this is so for
\* every finite set of them, by an induction.
HandlersEndTogether ==
  (\A h \in Handlers : <>[](handler[h].pc = "done"))
    => <>[](\A h \in Handlers : handler[h].pc = "done")

LEMMA AllHandlersEnd ==
  FairSpec /\ []GoroutinesGoOn /\ HandlersEndTogether
    => [](ZmqCancelled /\ []~Caught
            => <>[](\A h \in Handlers : handler[h].pc = "done"))
<1> DEFINE Stuck == <>(ZmqCancelled /\ []~Caught)
           AllFair == \A h \in Handlers : HandlerFairness(h)
           Ends(h) == <>[](handler[h].pc = "done")
           AllEnd == <>[](\A h \in Handlers : handler[h].pc = "done")
<1>1. ASSUME NEW h \in Handlers
      PROVE  Going /\ HandlerFairness(h) /\ Stuck => Ends(h)
  BY HandlerEnds, PTL
<1> HIDE DEF Stuck, Ends
<1>2. Going /\ AllFair /\ Stuck => \A h \in Handlers : Ends(h)
  BY <1>1
<1>3. HandlersEndTogether => ((\A h \in Handlers : Ends(h)) => AllEnd)
  BY DEF HandlersEndTogether, Ends
<1> HIDE DEF AllFair, AllEnd
<1>4. FairSpec /\ []GoroutinesGoOn /\ HandlersEndTogether => (Stuck => AllEnd)
  BY <1>2, <1>3, FairIsGoing DEF AllFair
<1>5. QED
  BY <1>4, PTL DEF Stuck, AllEnd

\* What has ended stays so, and how the others than the handlers come to an end.
LEMMA SenderMoves ==
  ASSUME TypeOK, [Next]_vars
  PROVE  /\ sender.pc \in {"take", "send", "failed", "done"}
         /\ sender.pc = "failed" => sender'.pc = "failed"
         /\ sender.pc = "done" => sender'.pc = "done"
         /\ sender.pc = "send" => /\ sender'.pc \in {"send", "take", "failed"}
                                  /\ SenderStep => sender'.pc # "send"
         /\ sender.pc = "take" /\ (\A h \in Handlers : handler[h].pc = "done")
              => sender'.pc \in {"take", "done"}
         /\ SenderQuits => sender'.pc = "done"
BY WhoMoves DEF TypeOK, Empty, InHand, At, Holding, SenderStep, SendReply, SendFails,
   SenderQuits, Put

LEMMA OthersMove ==
  ASSUME TypeOK, [Next]_vars
  PROVE  /\ signalled => signalled'
         /\ ~healthUp => ~healthUp'
         /\ HealthStops => ~healthUp'
         /\ http # "serving" => http' # "serving"
         /\ http = "failed" => http' = "failed"
         /\ HttpStops => http' # "serving"
<1>1. signalled => signalled'
  BY WhoMoves, Zenon DEF Signal
<1>2. (~healthUp => ~healthUp') /\ (HealthStops => ~healthUp')
  <2>1. HealthStops => healthUp /\ ~healthUp'
    BY DEF HealthStops
  <2>2. healthUp' = healthUp \/ HealthStops
    BY WhoMoves
  <2>3. healthUp' => healthUp
    BY <2>1, <2>2, Zenon
  <2>4. QED
    BY <2>1, <2>3
<1>3. /\ http # "serving" \/ HttpStops => http' # "serving"
      /\ http = "failed" => http' = "failed"
  BY WhoMoves DEF HttpStops, HttpFails
<1>4. QED
  BY <1>1, <1>2, <1>3

\* After a signal the process ends, unless a handler is caught: the receiver
\* ends, then the handlers, then the sender, and the others on their own.
THEOREM SignalledEnds ==
  FairSpec /\ []GoroutinesGoOn /\ HandlersEndTogether => SignalEndsUnlessCaught
<1> DEFINE Signalled == signalled
           C == ZmqCancelled
           RDone == receiver.pc = "done"
           HDone == \A h \in Handlers : handler[h].pc = "done"
           Takes == sender.pc = "take"
           Sends == sender.pc = "send"
           SDone == sender.pc \in {"failed", "done"}
           Up == healthUp
           Serves == http = "serving"
           Over == Exited
           Out == Caught
<1>1. Signalled => C
  BY DEF ZmqCancelled, ApiCancelled
<1>2. TypeOK => Takes \/ Sends \/ SDone
  BY DEF TypeOK, Empty, InHand
<1>3. TypeOK /\ [Next]_vars
        => /\ Signalled => Signalled'
           /\ SDone => SDone'
           /\ ~Up => ~Up'
           /\ ~Serves => ~Serves'
  BY SenderMoves, OthersMove
<1>4. TypeOK /\ [Next]_vars /\ Sends
        => (Sends' \/ Takes' \/ SDone') /\ (<<SenderStep>>_vars => ~Sends')
  BY SenderMoves
<1>5. TypeOK /\ [Next]_vars /\ HDone /\ Takes => Takes' \/ SDone'
  BY SenderMoves
<1>6. TypeOK /\ [Next]_vars
        => /\ <<SenderQuits>>_vars => SDone'
           /\ <<HealthStops>>_vars => ~Up'
           /\ <<HttpStops>>_vars => ~Serves'
  BY SenderMoves, OthersMove
<1>7. GoroutinesGoOn => /\ Sends => ENABLED <<SenderStep>>_vars
                        /\ Takes /\ C => ENABLED <<SenderQuits>>_vars
                        /\ Up /\ Signalled => ENABLED <<HealthStops>>_vars
                        /\ Serves /\ Signalled => ENABLED <<HttpStops>>_vars
  BY DEF GoroutinesGoOn, ServerGoesOn, ApiCancelled
<1>8. RDone /\ HDone /\ SDone /\ ~Up /\ ~Serves => Over
  BY DEF Exited, ZmqStopped
<1>9. FairSpec /\ []GoroutinesGoOn /\ HandlersEndTogether
        => [](C /\ []~Out => <>[]HDone)
  BY AllHandlersEnd
<1>10. Going => (C ~> []RDone)
  BY ReceiverEnds
<1>11. FairSpec /\ []GoroutinesGoOn => Going
  BY FairIsGoing
<1> HIDE DEF Signalled, C, RDone, HDone, Takes, Sends, SDone, Up, Serves, Over, Out
<1>12. Going => [](Signalled => <>[]~Up /\ <>[]~Serves)
  BY <1>3, <1>6, <1>7, PTL DEF Going, ServerFairness
<1>13. Going => [](Signalled /\ <>[]HDone => <>[]SDone)
  BY <1>1, <1>2, <1>3, <1>4, <1>5, <1>6, <1>7, PTL DEF Going, ServerFairness
<1>14. FairSpec /\ []GoroutinesGoOn /\ HandlersEndTogether
         => (Signalled ~> Over \/ Out)
  BY <1>1, <1>8, <1>9, <1>10, <1>11, <1>12, <1>13, PTL
<1>15. QED
  BY <1>14 DEF SignalEndsUnlessCaught, Signalled, Over, Out

\* When the sender or the HTTP server fails, the receiver and the handlers end,
\* or one is caught; then the sender does, and with it the group, and then the
\* worker.
THEOREM FailureEndsServer ==
  FairSpec /\ []GoroutinesGoOn /\ HandlersEndTogether => FailureEndsTheOthers
<1> DEFINE Failed == sender.pc = "failed" \/ http = "failed"
           C == ZmqCancelled
           RDone == receiver.pc = "done"
           HDone == \A h \in Handlers : handler[h].pc = "done"
           Takes == sender.pc = "take"
           Sends == sender.pc = "send"
           SDone == sender.pc \in {"failed", "done"}
           Up == healthUp
           Over == ZmqStopped /\ ~healthUp
           Out == Caught
<1>1. Failed => C
  BY DEF ZmqCancelled, ApiCancelled
<1>2. TypeOK => Takes \/ Sends \/ SDone
  BY DEF TypeOK, Empty, InHand
<1>3. TypeOK /\ [Next]_vars
        => /\ Failed => Failed'
           /\ SDone => SDone'
           /\ ~Up => ~Up'
  BY SenderMoves, OthersMove
<1>4. TypeOK /\ [Next]_vars /\ Sends
        => (Sends' \/ Takes' \/ SDone') /\ (<<SenderStep>>_vars => ~Sends')
  BY SenderMoves
<1>5. TypeOK /\ [Next]_vars /\ HDone /\ Takes => Takes' \/ SDone'
  BY SenderMoves
<1>6. TypeOK /\ [Next]_vars
        => /\ <<SenderQuits>>_vars => SDone'
           /\ <<HealthStops>>_vars => ~Up'
  BY SenderMoves, OthersMove
<1>7. GoroutinesGoOn
        => /\ Sends => ENABLED <<SenderStep>>_vars
           /\ Takes /\ C => ENABLED <<SenderQuits>>_vars
           /\ RDone /\ HDone /\ SDone /\ Up => ENABLED <<HealthStops>>_vars
  BY DEF GoroutinesGoOn, ServerGoesOn, ApiCancelled, ZmqStopped
<1>8. RDone /\ HDone /\ SDone /\ ~Up => Over
  BY DEF ZmqStopped
<1>9. FairSpec /\ []GoroutinesGoOn /\ HandlersEndTogether
        => [](C /\ []~Out => <>[]HDone)
  BY AllHandlersEnd
<1>10. Going => (C ~> []RDone)
  BY ReceiverEnds
<1>11. FairSpec /\ []GoroutinesGoOn => Going
  BY FairIsGoing
<1> HIDE DEF Failed, C, RDone, HDone, Takes, Sends, SDone, Up, Over, Out
<1>12. Going => [](Failed /\ <>[]HDone => <>[]SDone)
  BY <1>1, <1>2, <1>3, <1>4, <1>5, <1>6, <1>7, PTL DEF Going, ServerFairness
<1>13. Going => []([](RDone /\ HDone /\ SDone) => <>[]~Up)
  BY <1>3, <1>6, <1>7, PTL DEF Going, ServerFairness
<1>14. FairSpec /\ []GoroutinesGoOn /\ HandlersEndTogether
         => (Failed ~> Over \/ Out)
  BY <1>1, <1>8, <1>9, <1>10, <1>11, <1>12, <1>13, PTL
<1>15. QED
  BY <1>14 DEF FailureEndsTheOthers, Failed, Over, Out
-----------------------------------------------------------------------------
\* While the server serves, every handler is free again and again: the health
\* worker is there, and the sender is free again and again.
LEMMA HandlerComesBack ==
  ASSUME NEW h \in Handlers
  PROVE  Going /\ HandlerFairness(h) /\ []~ZmqCancelled
           => []<>(handler[h].pc = "take")
<1> DEFINE C == ZmqCancelled
           Takes == handler[h].pc = "take"
           Tells == handler[h].pc = "health"
           Puts == handler[h].pc = "put"
           Free == sender.pc = "take"
           Sends == sender.pc = "send"
           Up == healthUp
<1>1. TypeOK /\ EndedInv /\ ~C => Up /\ (Takes \/ Tells \/ Puts) /\ (Free \/ Sends)
  BY DEF EndedInv, TypeOK, Empty, InHand
<1>2. TypeOK /\ EndedInv /\ EndedInv' /\ ~C' /\ [Next]_vars
        => /\ Puts => Puts' \/ Takes'
           /\ Tells => Tells' \/ Puts'
  BY WhoMoves DEF EndedInv, TypeOK, Empty, InHand, At, Holding, Take, TellHealth, Put,
     HandlerQuits
<1>3. TypeOK => /\ <<Put(h)>>_vars => Takes'
                /\ <<TellHealth(h)>>_vars => Puts'
  BY DEF TypeOK, At, Holding, Put, TellHealth
<1>4. TypeOK /\ EndedInv' /\ ~C' /\ [Next]_vars /\ Sends
        => (Sends' \/ Free') /\ (<<SenderStep>>_vars => Free')
  BY SenderMoves DEF EndedInv
<1>5. GoroutinesGoOn => /\ Tells /\ Up => ENABLED <<TellHealth(h)>>_vars
                        /\ Puts /\ Free => ENABLED <<Put(h)>>_vars
                        /\ Sends => ENABLED <<SenderStep>>_vars
  <2>1. GoroutinesGoOn => HandlerGoesOn(h) /\ ServerGoesOn
    BY DEF GoroutinesGoOn
  <2>2. QED
    BY <2>1 DEF HandlerGoesOn, ServerGoesOn
<1> HIDE DEF C, Takes, Tells, Puts, Free, Sends, Up
<1>6. Going /\ []~C => []<>Free
  BY <1>1, <1>4, <1>5, PTL DEF Going, ServerFairness
<1>7. Going /\ HandlerFairness(h) /\ []~C => []<>Takes
  BY <1>1, <1>2, <1>3, <1>5, <1>6, PTL DEF Going, HandlerFairness
<1>8. QED
  BY <1>7 DEF C, Takes

\* So the receiver finds a handler for what it holds, and receives again.
LEMMA ReceiverComesBack ==
  ASSUME Handlers # {}
  PROVE  Going /\ (\A h \in Handlers : HandlerFairness(h)) /\ []~ZmqCancelled
           => []<>(receiver.pc = "receive")
<1> DEFINE C == ZmqCancelled
           Check == receiver.pc = "check"
           Receives == receiver.pc = "receive"
           Puts == receiver.pc = "put"
           Serving == []~ZmqCancelled
           Back == []<>(receiver.pc = "receive")
<1>1. ASSUME NEW h \in Handlers
      PROVE  Going /\ HandlerFairness(h) /\ Serving => Back
  <2> DEFINE Takes == handler[h].pc = "take"
  <2>1. TypeOK /\ EndedInv /\ ~C => Check \/ Receives \/ Puts
    BY DEF TypeOK, EndedInv, Empty, InHand
  <2>2. TypeOK /\ EndedInv' /\ ~C' /\ [Next]_vars /\ Puts => Puts' \/ Check'
    BY WhoMoves DEF TypeOK, EndedInv, Empty, InHand, At, Holding, ReceiverStep,
       ReceiverCheck, Receive, ReceiveTimeout, ReceiverQuits, Take
  <2>3. <<TakeStep>>_vars => Check'
    BY DEF TakeStep, Take, At
  <2>4. TypeOK /\ EndedInv' /\ ~C' /\ [Next]_vars /\ Puts /\ Takes => Takes' \/ Check'
    BY WhoMoves DEF TypeOK, EndedInv, At, Holding, Take, TellHealth, Put, HandlerQuits
  <2>5. TypeOK /\ ~C /\ [Next]_vars /\ Check
          => (Check' \/ Receives') /\ (<<ReceiverStep>>_vars => Receives')
    BY WhoMoves DEF At, Holding, ReceiverStep, ReceiverCheck, Receive, ReceiveTimeout,
       ReceiverQuits, Take
  <2>6. GoroutinesGoOn => /\ Puts /\ Takes => ENABLED <<TakeStep>>_vars
                          /\ Check => ENABLED <<ReceiverStep>>_vars
    BY DEF GoroutinesGoOn, ServerGoesOn
  <2>7. Going /\ HandlerFairness(h) /\ []~C => []<>Takes
    BY HandlerComesBack
  <2> HIDE DEF C, Check, Receives, Puts, Takes
  <2>8. Going /\ HandlerFairness(h) /\ []~C => []<>Receives
    BY <2>1, <2>2, <2>3, <2>4, <2>5, <2>6, <2>7, PTL
       DEF Going, ServerFairness
  <2>9. QED
    BY <2>8 DEF C, Receives
<1> HIDE DEF Serving, Back
<1>2. Going /\ (\A h \in Handlers : HandlerFairness(h)) /\ Serving => Back
  BY <1>1
<1>3. QED
  BY <1>2 DEF Serving, Back

\* Every request that is there is received in the end: the receiver may not
\* pass one over again and again for others that come.  With finitely many
\* requests it cannot, as each is sent once.
RequestFairness(r) == SF_vars(Receive(r))

\* Fairness to every handler, at every time: each HandlerFairness(h) is about the
\* future only, so that this says no more than that they hold.
FairToHandlers == [](\A h \in Handlers : HandlerFairness(h))

AtHandler(r, h) == handler[h].pc \in {"health", "put"} /\ handler[h].req = r

\* The way of a request through the server, as long as its client waits.
LEMMA WayOfRequest ==
  ASSUME TypeOK, NoneTwiceNoneLost, EndedInv, EndedInv', [Next]_vars, ~ZmqCancelled',
         NEW r \in Requests, request'[r] = "waiting"
  PROVE  /\ request[r] = "waiting" /\ ~ZmqCancelled
              => \/ r \in arrived
                 \/ receiver.pc = "put" /\ receiver.req = r
                 \/ sender.pc = "send" /\ sender.req = r
                 \/ \E h \in Handlers : AtHandler(r, h)
         /\ r \in arrived
              => r \in arrived' \/ (receiver'.pc = "put" /\ receiver'.req = r)
         /\ receiver.pc = "put" /\ receiver.req = r
              => \/ receiver'.pc = "put" /\ receiver'.req = r
                 \/ \E h \in Handlers : AtHandler(r, h)'
         /\ \A h \in Handlers : AtHandler(r, h)
              => AtHandler(r, h)' \/ (sender'.pc = "send" /\ sender'.req = r)
         /\ sender.pc = "send" /\ sender.req = r
              => ~SenderStep /\ sender'.pc = "send" /\ sender'.req = r
<1> USE DEF TypeOK, Empty, InHand, At, Holding, AtHandler
<1>1. request[r] = "waiting" /\ ~ZmqCancelled
        => \/ r \in arrived
           \/ receiver.pc = "put" /\ receiver.req = r
           \/ sender.pc = "send" /\ sender.req = r
           \/ \E h \in Handlers : AtHandler(r, h)
  BY DEF NoneTwiceNoneLost, InServer
<1>2. r \in arrived
        => r \in arrived' \/ (receiver'.pc = "put" /\ receiver'.req = r)
  BY DEF Next, Send, GiveUp, ReceiverStep, ReceiverCheck, Receive, ReceiveTimeout,
         ReceiverQuits, Take, TellHealth, Put, HandlerQuits, SenderStep, SendReply,
         SendFails, SenderQuits, HealthStops, Signal, HttpStops, HttpFails, vars
<1>3. receiver.pc = "put" /\ receiver.req = r
        => \/ receiver'.pc = "put" /\ receiver'.req = r
           \/ \E h \in Handlers : AtHandler(r, h)'
  <2>1. ReceiverStep /\ receiver.pc = "put" => receiver'.pc = "done"
    BY DEF ReceiverStep, ReceiverCheck, Receive, ReceiveTimeout, ReceiverQuits
  <2>2. receiver'.pc # "done"
    BY DEF EndedInv
  <2>3. ASSUME NEW h \in Handlers, Take(h), receiver.req = r
        PROVE  AtHandler(r, h)'
    BY <2>3 DEF Take
  <2>4. QED
    BY <2>1, <2>2, <2>3, WhoMoves
<1>4. ASSUME NEW h \in Handlers, AtHandler(r, h)
      PROVE  AtHandler(r, h)' \/ (sender'.pc = "send" /\ sender'.req = r)
  <2>1. handler'[h].pc # "done"
    BY DEF EndedInv
  <2>2. QED
    BY <1>4, <2>1, WhoMoves DEF Take, TellHealth, Put, HandlerQuits
<1>5. sender.pc = "send" /\ sender.req = r
        => ~SenderStep /\ sender'.pc = "send" /\ sender'.req = r
  <2>1. sender'.pc # "failed"
    BY DEF EndedInv
  <2>2. sender.pc = "send" /\ sender.req = r => ~SenderStep
    BY <2>1 DEF SenderStep, SendReply, SendFails
  <2>3. QED
    BY <2>2, WhoMoves DEF SenderQuits, Put
<1> HIDE DEF TypeOK, Empty, InHand, At, Holding, AtHandler
<1>6. \A h \in Handlers :
        AtHandler(r, h) => AtHandler(r, h)' \/ (sender'.pc = "send" /\ sender'.req = r)
  BY <1>4
<1>7. QED
  BY <1>1, <1>2, <1>3, <1>5, <1>6

\* A client that waits is answered or gives up, unless the server ends: its
\* request is received in the end, finds a handler, and is handed on to the
\* sender and sent, however few handlers there are.
THEOREM ClientsAreAnswered ==
  ASSUME Handlers # {}
  PROVE  FairSpec /\ []GoroutinesGoOn /\ FairToHandlers
           /\ (\A r \in Requests : RequestFairness(r))
         => AnsweredUnlessEnding
<1> DEFINE Fair == FairSpec /\ []GoroutinesGoOn /\ FairToHandlers
           C == ZmqCancelled
           Receives == receiver.pc = "receive"
           AllFair == \A h \in Handlers : HandlerFairness(h)
           Ends(r) == request[r] = "waiting" ~> (request[r] # "waiting" \/ ZmqCancelled)
<1>1. Going /\ AllFair /\ []~C => []<>Receives
  BY ReceiverComesBack
<1>2. FairSpec /\ []GoroutinesGoOn => Going /\ []NoneTwiceNoneLost
  BY FairIsGoing, RequestsAreKept, PTL DEF FairSpec
<1>3. ASSUME NEW r \in Requests
      PROVE  Fair /\ RequestFairness(r) => Ends(r)
  <2> DEFINE Waits == request[r] = "waiting"
             Arrived == r \in arrived
             Received == receiver.pc = "put" /\ receiver.req = r
             Handled == \E h \in Handlers : AtHandler(r, h)
             Sent == sender.pc = "send" /\ sender.req = r
             Same == /\ TypeOK /\ NoneTwiceNoneLost /\ EndedInv /\ EndedInv'
                     /\ [Next]_vars /\ ~C' /\ Waits'
             Served == Going /\ []NoneTwiceNoneLost /\ [](Waits /\ ~C)
             Left == request[r] # "waiting"
             Answered == <>Left
  <2>0. Waits <=> ~Left
    OBVIOUS
  <2>1. Same /\ Waits /\ ~C => Arrived \/ Received \/ Handled \/ Sent
    BY WayOfRequest
  <2>2. Same => /\ Arrived => Arrived' \/ Received'
                /\ Received => Received' \/ Handled'
                /\ Sent => Sent' /\ ~<<SenderStep>>_vars
    BY WayOfRequest
  <2>3. <<Receive(r)>>_vars => Received'
    BY DEF Receive, Holding
  <2>4. Received => ~Receives
    OBVIOUS
  <2>5. GoroutinesGoOn => /\ Receives /\ Arrived => ENABLED <<Receive(r)>>_vars
                          /\ Sent => ENABLED <<SenderStep>>_vars
    <3>1. GoroutinesGoOn => ReceiveGoesOn(r) /\ ServerGoesOn
      BY DEF GoroutinesGoOn
    <3>2. QED
      BY <3>1 DEF ReceiveGoesOn, ServerGoesOn
  <2>6. ASSUME NEW h \in Handlers
        PROVE  Served /\ HandlerFairness(h) => (AtHandler(r, h) => Answered)
    <3> DEFINE Has == AtHandler(r, h)
               Takes == handler[h].pc = "take"
    <3>1. Same => (Has => Has' \/ Sent')
      BY WayOfRequest
    <3>2. Takes => ~Has
      BY DEF AtHandler
    <3>3. Going /\ HandlerFairness(h) /\ []~C => []<>Takes
      BY HandlerComesBack
    <3> HIDE DEF C, Waits, Sent, Has, Takes, Left
    <3>4. Served /\ HandlerFairness(h) => (Has => Answered)
      BY <2>2, <2>5, <3>1, <3>2, <3>3, <2>0, PTL DEF Going, ServerFairness
    <3>5. QED
      BY <3>4 DEF Has
  <2> HIDE DEF Served, Answered
  <2>7. Served /\ AllFair => (Handled => Answered)
    BY <2>6
  <2> HIDE DEF C, Receives, AllFair, Waits, Arrived, Received, Handled,
              Sent, Left
  <2>8. Served /\ []AllFair => [](Handled => Answered) /\ []<>Receives
    BY <1>1, <2>7, PTL DEF Served, Going, ServerFairness
  <2>9. Served => [](Sent => Answered)
    BY <2>2, <2>5, <2>0, PTL DEF Served, Answered, Going, ServerFairness
  <2>10. Served /\ []AllFair => [](Received => Answered)
    BY <2>2, <2>4, <2>8, PTL DEF Served, Answered, Going
  <2>11. Served /\ []AllFair /\ RequestFairness(r) => [](Arrived => Answered)
    BY <2>2, <2>3, <2>5, <2>8, <2>10, PTL
       DEF Served, Answered, Going, RequestFairness
  <2>12. Going /\ []NoneTwiceNoneLost /\ []AllFair /\ RequestFairness(r)
           => (Waits ~> (Left \/ C))
    BY <2>0, <2>1, <2>8, <2>9, <2>10, <2>11, PTL
       DEF Served, Answered, Going, ServerFairness, RequestFairness
  <2>13. Fair /\ RequestFairness(r) => (Waits ~> (Left \/ C))
    BY <1>2, <2>12, PTL DEF FairToHandlers, AllFair, Fair
  <2> HIDE DEF Fair
  <2>14. QED
    BY <2>13 DEF Waits, Left, C, Ends
<1> HIDE DEF Fair, Ends
<1>4. Fair /\ (\A r \in Requests : RequestFairness(r)) => \A r \in Requests : Ends(r)
  BY <1>3
<1>5. (\A r \in Requests : Ends(r)) => AnsweredUnlessEnding
  BY DEF AnsweredUnlessEnding, Ends
<1>6. QED
  BY <1>4, <1>5 DEF Fair
=============================================================================
