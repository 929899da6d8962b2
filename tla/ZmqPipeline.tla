----------------------------- MODULE ZmqPipeline -----------------------------
(***************************************************************************)
(* The API process as a set of goroutines: the receiver, the handlers and  *)
(* the sender of the ZMQ server, joined by unbuffered channels, the        *)
(* health worker, the HTTP server, and the two error groups that end them. *)
(* A request comes from a socket of its own, opened for it and closed when *)
(* its client has the reply or has waited too long.  What a handler does   *)
(* to the sessions is in ApiSessions and blocks on nothing; the two other  *)
(* workers wait for nothing but their ticker and their context.  Neither   *)
(* is in this module.                                                      *)
(*                                                                         *)
(* A send on an unbuffered channel and its receipt are one step of both    *)
(* goroutines.  A select with two ready cases takes either.                *)
(***************************************************************************)
CONSTANTS
  Requests,   \* the requests ever sent, each with its own dealer socket
  Polls,      \* those of daemons: they have a sender and a timeout; the
              \* others are health checks, which are echoed and wait for ever
  Handlers,   \* the socketHandler goroutines
  NoRequest   \* nothing in hand

ASSUME PollsAssumption == Polls \subseteq Requests
ASSUME NoRequestAssumption == NoRequest \notin Requests

VARIABLES
  request,    \* request -> where its client is
  arrived,    \* requests in the router's queue or on the way to it
  receiver,   \* pc and request in hand of socketReceiver
  handler,    \* handler -> pc and request in hand
  sender,     \* pc and request in hand of socketSender
  healthUp,   \* whether the health worker has not returned
  http,       \* the HTTP server
  signalled   \* whether the process was sent SIGINT or SIGTERM

server == <<receiver, handler, sender>>
others == <<healthUp, http, signalled>>
vars == <<request, arrived, server, others>>

At(pc)         == [pc |-> pc, req |-> NoRequest]
Holding(pc, r) == [pc |-> pc, req |-> r]

Init == /\ request = [r \in Requests |-> "new"]
        /\ arrived = {}
        /\ receiver = At("check")
        /\ handler = [h \in Handlers |-> At("take")]
        /\ sender = At("take")
        /\ healthUp = TRUE
        /\ http = "serving"
        /\ signalled = FALSE

-----------------------------------------------------------------------------
\* Contexts.  A goroutine of a group returns an error when its context is
\* cancelled as well, so a group that has come to its end cancels the outer one.

ZmqStopped == /\ receiver.pc = "done"
              /\ \A h \in Handlers : handler[h].pc = "done"
              /\ sender.pc \in {"done", "failed"}

\* The context of StartAPI's group.
ApiCancelled == signalled \/ http = "failed" \/ ZmqStopped

\* Faulty variant: the group of Serve has no context of its own.
ZmqCancelledFromOutside == ApiCancelled

\* The context of the group in Serve.
ZmqCancelled == ApiCancelled \/ sender.pc = "failed"

\* erg.Wait of StartAPI has returned.
Exited == ZmqStopped /\ ~healthUp /\ http # "serving"

-----------------------------------------------------------------------------
\* Clients.

\* sendEvent: open a dealer and send.
Send(r) ==
  /\ request[r] = "new"
  /\ request' = [request EXCEPT ![r] = "waiting"]
  /\ arrived' = arrived \cup {r}
  /\ UNCHANGED <<server, others>>

\* The receive timeout of a daemon's poll has passed and the dealer is
\* destroyed; what it has sent may have left it or not.
GiveUp(r) ==
  /\ r \in Polls
  /\ request[r] = "waiting"
  /\ request' = [request EXCEPT ![r] = "gaveUp"]
  /\ arrived' \in {arrived, arrived \ {r}}
  /\ UNCHANGED <<server, others>>

-----------------------------------------------------------------------------
\* socketReceiver.

ReceiverCheck ==
  /\ receiver.pc = "check"
  /\ receiver' = At(IF ZmqCancelled THEN "done" ELSE "receive")
  /\ UNCHANGED <<request, arrived, handler, sender, others>>

Receive(r) ==
  /\ receiver.pc = "receive"
  /\ r \in arrived
  /\ arrived' = arrived \ {r}
  /\ receiver' = Holding("put", r)
  /\ UNCHANGED <<request, handler, sender, others>>

\* Faulty variant: the socket has no receive timeout.
ReceiveTimeoutMissing == FALSE /\ UNCHANGED vars

\* Nothing arrives for two seconds.
ReceiveTimeout ==
  /\ receiver.pc = "receive"
  /\ arrived = {}
  /\ receiver' = At("check")
  /\ UNCHANGED <<request, arrived, handler, sender, others>>

\* The request in hand is dropped.
ReceiverQuits ==
  /\ receiver.pc = "put"
  /\ ZmqCancelled
  /\ receiver' = At("done")
  /\ UNCHANGED <<request, arrived, handler, sender, others>>

-----------------------------------------------------------------------------
\* socketHandler.

\* Faulty variant: the receiver keeps the request and hands it over again.
TakeAndLeave(h) ==
  /\ receiver.pc = "put"
  /\ handler[h].pc = "take"
  /\ handler' = [handler EXCEPT ![h] =
       Holding(IF receiver.req \in Polls THEN "health" ELSE "put", receiver.req)]
  /\ UNCHANGED <<request, arrived, receiver, sender, others>>

\* A request passes from the receiver to a handler; one without a sender is
\* sent back as it is, and with it one that is empty or cannot be parsed.
Take(h) ==
  /\ receiver.pc = "put"
  /\ handler[h].pc = "take"
  /\ handler' = [handler EXCEPT ![h] =
       Holding(IF receiver.req \in Polls THEN "health" ELSE "put", receiver.req)]
  /\ receiver' = At("check")
  /\ UNCHANGED <<request, arrived, sender, others>>

\* The name of the sender goes to the health worker, over a channel that has
\* no buffer and in a send that looks at no context.  The reply follows.
TellHealth(h) ==
  /\ handler[h].pc = "health"
  /\ healthUp
  /\ handler' = [handler EXCEPT ![h] = Holding("put", @.req)]
  /\ UNCHANGED <<request, arrived, receiver, sender, others>>

\* A handler without work returns, one with a reply drops it.
HandlerQuits(h) ==
  /\ handler[h].pc \in {"take", "put"}
  /\ ZmqCancelled
  /\ handler' = [handler EXCEPT ![h] = At("done")]
  /\ UNCHANGED <<request, arrived, receiver, sender, others>>

-----------------------------------------------------------------------------
\* socketSender.

\* Faulty variant: the handler returns after one request.
PutAndReturn(h) ==
  /\ handler[h].pc = "put"
  /\ sender.pc = "take"
  /\ sender' = Holding("send", handler[h].req)
  /\ handler' = [handler EXCEPT ![h] = At("done")]
  /\ UNCHANGED <<request, arrived, receiver, others>>

\* Faulty variant: the handler keeps the reply in hand.
PutAndKeep(h) ==
  /\ handler[h].pc = "put"
  /\ sender.pc = "take"
  /\ sender' = Holding("send", handler[h].req)
  /\ handler' = [handler EXCEPT ![h] = Holding("take", @.req)]
  /\ UNCHANGED <<request, arrived, receiver, others>>

\* A reply passes from a handler to the sender.
Put(h) ==
  /\ handler[h].pc = "put"
  /\ sender.pc = "take"
  /\ sender' = Holding("send", handler[h].req)
  /\ handler' = [handler EXCEPT ![h] = At("take")]
  /\ UNCHANGED <<request, arrived, receiver, others>>

\* The router drops a reply to a socket that is closed.
SendReply ==
  /\ sender.pc = "send"
  /\ request' = [request EXCEPT ![sender.req] =
                   IF @ = "waiting" THEN "answered" ELSE @]
  /\ sender' = At("take")
  /\ UNCHANGED <<arrived, receiver, handler, others>>

\* An error of the socket ends the sender and cancels its group.
SendFails ==
  /\ sender.pc = "send"
  /\ sender' = At("failed")
  /\ UNCHANGED <<request, arrived, receiver, handler, others>>

SenderQuits ==
  /\ sender.pc = "take"
  /\ ZmqCancelled
  /\ sender' = At("done")
  /\ UNCHANGED <<request, arrived, receiver, handler, others>>

-----------------------------------------------------------------------------
\* The rest of the process.

\* The health worker returns when its context is cancelled.
HealthStops ==
  /\ healthUp
  /\ ApiCancelled
  /\ healthUp' = FALSE
  /\ UNCHANGED <<request, arrived, server, http, signalled>>

Signal ==
  /\ ~signalled
  /\ signalled' = TRUE
  /\ UNCHANGED <<request, arrived, server, healthUp, http>>

\* Echo listens to the signals itself; it is given no context.
HttpStops ==
  /\ http = "serving"
  /\ signalled
  /\ http' = "stopped"
  /\ UNCHANGED <<request, arrived, server, healthUp, signalled>>

\* Start returns an error, such as an address in use.
HttpFails ==
  /\ http = "serving"
  /\ http' = "failed"
  /\ UNCHANGED <<request, arrived, server, healthUp, signalled>>

-----------------------------------------------------------------------------
ReceiverStep == \/ ReceiverCheck
                \/ \E r \in Requests : Receive(r)
                \/ ReceiveTimeout
                \/ ReceiverQuits
TakeStep == \E h \in Handlers : Take(h)
SenderStep == SendReply \/ SendFails

Next == \/ \E r \in Requests : Send(r) \/ GiveUp(r)
        \/ ReceiverStep
        \/ \E h \in Handlers : \/ Take(h)
                               \/ TellHealth(h)
                               \/ Put(h)
                               \/ HandlerQuits(h)
        \/ SenderStep
        \/ SenderQuits
        \/ HealthStops
        \/ Signal
        \/ HttpStops
        \/ HttpFails

Spec == Init /\ [][Next]_vars

\* Goroutines that can go on do.  Handlers blocked on the sender's channel are
\* queued by the runtime, so each gets its turn (Put).  Nobody has to send a
\* request, to give up, or to stop the process, and no send has to fail.
ServerFairness ==
  /\ WF_vars(ReceiverStep)
  /\ WF_vars(TakeStep)
  /\ WF_vars(SenderStep)
  /\ WF_vars(SenderQuits)
  /\ WF_vars(HealthStops)
  /\ WF_vars(HttpStops)
HandlerFairness(h) ==
  WF_vars(TellHealth(h)) /\ SF_vars(Put(h)) /\ WF_vars(HandlerQuits(h))
Fairness == ServerFairness /\ \A h \in Handlers : HandlerFairness(h)

FairSpec == Spec /\ Fairness
-----------------------------------------------------------------------------
InHand(pcs) == [pc : pcs, req : Requests]
Empty(pcs)  == [pc : pcs, req : {NoRequest}]

\* Type invariant: a goroutine has a request in hand at certain places only.
TypeOK ==
  /\ request \in [Requests -> {"new", "waiting", "answered", "gaveUp"}]
  /\ arrived \subseteq Requests
  /\ receiver \in Empty({"check", "receive", "done"}) \cup InHand({"put"})
  /\ handler \in [Handlers -> Empty({"take", "done"})
                               \cup InHand({"health", "put"})]
  /\ sender \in Empty({"take", "done", "failed"}) \cup InHand({"send"})
  /\ healthUp \in BOOLEAN
  /\ http \in {"serving", "stopped", "failed"}
  /\ signalled \in BOOLEAN

\* No request is at two places of the server at once.
NeverTwice ==
  /\ receiver.req \notin arrived
  /\ sender.req \notin arrived
  /\ receiver.req = sender.req => receiver.req = NoRequest
  /\ \A h \in Handlers :
       /\ handler[h].req \notin arrived
       /\ handler[h].req \in {receiver.req, sender.req} => handler[h].req = NoRequest
       /\ \A g \in Handlers : handler[g].req = handler[h].req
                                => g = h \/ handler[h].req = NoRequest

InServer(r) == \/ r \in arrived \/ receiver.req = r \/ sender.req = r
               \/ \E h \in Handlers : handler[h].req = r

\* Three kinds of goroutines pass a request on and each may be interrupted:
\* none is answered twice, since it is at one place at most and at none once it
\* is answered; and none is lost, since the request of a client that waits is
\* somewhere in the server until that is told to end.
NoneTwiceNoneLost ==
  /\ NeverTwice
  /\ \A r \in Requests :
       /\ request[r] \in {"new", "answered"} => ~InServer(r)
       /\ request[r] = "waiting" /\ ~ZmqCancelled => InServer(r)

\* A client that waits is answered or gives up, however few handlers there are
\* and whatever blocks whom, unless the server ends.
AnsweredUnlessEnding ==
  \A r \in Requests :
    request[r] = "waiting" ~> (request[r] # "waiting" \/ ZmqCancelled)

\* A handler that wants to tell the health worker, which has returned.
Caught == \E h \in Handlers : handler[h].pc = "health" /\ ~healthUp

\* After a signal the process ends, or a handler is caught: nothing else keeps
\* a goroutine, wherever the signal meets it.
SignalEndsUnlessCaught == signalled ~> (Exited \/ Caught)

\* A sender or an HTTP server that fails takes the ZMQ server and the worker
\* along (or catches a handler); no order of their ends leaves one of them
\* behind.  The HTTP server may go on without the others.
FailureEndsTheOthers ==
  sender.pc = "failed" \/ http = "failed"
    ~> ((ZmqStopped /\ ~healthUp) \/ Caught)

-----------------------------------------------------------------------------
\* A claim of the comments that the code does not keep.

\* main.go:28, "catch os signals for graceful shutdown", and the timeout of
\* zmq/handlers.go:18, "to allow graceful shutdown".
SignalEnds == signalled ~> Exited
=============================================================================
