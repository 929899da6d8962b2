--------------------------- MODULE BedrockLiveProofs ---------------------------
(***************************************************************************)
(* What becomes of a session in the end: one that stays stopped has no     *)
(* target left, one that stays pending has starts that fail again and      *)
(* again (both with the simulator, as long as polls are answered), one that *)
(* expires leaves running, and one that is over is marked as deleted; for  *)
(* any number of sessions, handlers and requests, over lost and late       *)
(* packets, stale copies and restarts of the API.                          *)
(***************************************************************************)
EXTENDS BedrockProofs

\* Whoever waits for a reply waits for the one to its last report, and it is
\* asked for in one place.
AwaitedInv ==
  /\ \A p \in wire :
       p.awaited => /\ pc = "sent" /\ p.events = report
                    /\ \A h \in Handlers : ~held[h].awaited
  /\ \A h \in Handlers :
       held[h].awaited => /\ pc = "sent"
                          /\ \A g \in Handlers : held[g].awaited => g = h

\* A handler works for a daemon.
SenderInv == \A h \in Handlers : zmq[h].pc # "idle" => zmq[h].dockerd \in Dockerds

\* What was lost in a restart does not come back.
ForgottenInv ==
  \A s \in forgotten :
    /\ store[s] = NoSession
    /\ \A c \in Clients : http[c].pc = "create" => http[c].copy.id # s

LinkInv == LinkShapes /\ CountsInv /\ AwaitedInv /\ SenderInv /\ ForgottenInv

\* The daemon's own steps, between two polls.
LEMMA AloneIsNotSent == DaemonAlone => pc # "sent"
BY DEF DaemonAlone, D!BeginPoll, D!Inspect, D!SkipStart, D!BeginStart,
       D!BeginStop, D!SyncDone, D!MakeVolume, D!CreateTracer, D!CreateTarget,
       D!StartTracer, D!StartTarget, D!StartFails, D!StageFails,
       D!StopContainer, D!RemoveContainer, D!StopDone, D!StopStages

LEMMA StepAwaited ==
  ASSUME LinkShapes, AwaitedInv, [SystemNext]_systemVars
  PROVE  AwaitedInv'
<1> DEFINE Nobody == /\ \A p \in wire : ~p.awaited
                     /\ \A h \in Handlers : ~held[h].awaited
<1>1. held \in [Handlers -> Packets] /\ wire \subseteq Packets
  BY DEF LinkShapes
<1>2. ~NoPacket.awaited /\ \A p \in Packets : ~GivenUp(p).awaited
  BY DEF NoPacket, GivenUp, Packets
<1>3. Nobody' => AwaitedInv'
  BY DEF AwaitedInv
<1>4. pc # "sent" => Nobody
  BY DEF AwaitedInv
<1>5. CASE NobodyWaits
  BY <1>1, <1>2, <1>3, <1>5 DEF NobodyWaits
<1>6. CASE Poll
  <2>1. /\ pc = "report" /\ pc' = "sent" /\ report' = report /\ held' = held
        /\ wire' = {Packet(TRUE)}
    BY <1>6 DEF Poll, D!SendReport
  <2>2. Packet(TRUE).events = report
    BY DEF Packet
  <2>3. QED
    BY <1>4, <2>1, <2>2 DEF AwaitedInv
<1>7. ASSUME NEW h \in Handlers, NEW d \in Dockerds, Arrive(h, d)
      PROVE  AwaitedInv'
  <2>1. PICK p \in wire : held' = [held EXCEPT ![h] = p]
    BY <1>7 DEF Arrive
  <2>2. wire' = {} /\ pc' = pc
    BY <1>7 DEF Arrive, dockerdVars
  <2>3. \A g \in Handlers : held'[g] = IF g = h THEN p ELSE held[g]
    BY <1>1, <2>1
  <2>4. QED
    BY <2>2, <2>3 DEF AwaitedInv
<1>8. ASSUME NEW h \in Handlers, Answer(h) PROVE AwaitedInv'
  <2>1. held[h].awaited /\ wire' = wire /\ held' = [held EXCEPT ![h] = NoPacket]
    BY <1>8 DEF Answer
  <2>2. \A g \in Handlers : held'[g] = IF g = h THEN NoPacket ELSE held[g]
    BY <1>1, <2>1
  <2>3. Nobody'
    BY <1>2, <2>1, <2>2 DEF AwaitedInv
  <2>4. QED
    BY <1>3, <2>3
<1>9. ASSUME UNCHANGED <<pc, report>>, wire' = wire,
             \A g \in Handlers : held'[g].awaited => held[g].awaited
      PROVE  AwaitedInv'
  BY <1>9 DEF AwaitedInv
<1>10. ASSUME NEW h \in Handlers, ReadEvent(h) PROVE AwaitedInv'
  <2>1. /\ held'[h].awaited = held[h].awaited
        /\ \A g \in Handlers : g # h => held'[g] = held[g]
    BY <1>10, ReadEventFacts
  <2>2. UNCHANGED <<pc, report, wire>>
    BY <1>10 DEF ReadEvent, dockerdVars
  <2>3. QED
    BY <1>9, <2>1, <2>2
<1>11. ASSUME NEW h \in Handlers, AnswerLost(h) PROVE AwaitedInv'
  BY <1>1, <1>2, <1>9, <1>11 DEF AnswerLost, dockerdVars
<1>12. CASE ApiRestarts
  BY <1>2, <1>9, <1>12 DEF ApiRestarts, dockerdVars
<1>13. CASE DaemonAlone
  BY <1>3, <1>4, <1>13, AloneIsNotSent DEF DaemonAlone, linkVars
<1>14. CASE UNCHANGED <<pc, report, wire, held>>
  BY <1>9, <1>14
<1>15. QED
  BY <1>5, <1>6, <1>7, <1>8, <1>10, <1>11, <1>12, <1>13, <1>14
     DEF SystemNext, Request, Work, SaveEvent, Handle, DaemonNext, Surroundings,
         D!FileMDTakes, D!Exit, Timeout, Crash, linkVars, dockerdVars,
         systemVars

LEMMA StepSender ==
  ASSUME IInv, SenderInv, [SystemNext]_systemVars
  PROVE  SenderInv'
<1> USE DEF SenderInv
<1>1. zmq \in [Handlers -> [pc : {"idle", "events", "save"},
                            dockerd : Dockerds \cup {NoDockerd},
                            left : 0..MaxEvents,
                            copy : Session \cup {NoSession},
                            event : Reports]]
  BY DEF IInv, TypeOK
<1>2. ASSUME NEW h \in Handlers,
             \/ ReadEvent(h) \/ SaveEvent(h) \/ Answer(h) \/ AnswerLost(h)
             \/ \E d \in Dockerds : Arrive(h, d)
      PROVE  SenderInv'
  <2>1. \A g \in Handlers : g # h => zmq'[g] = zmq[g]
    BY <1>1, <1>2 DEF ReadEvent, EventRead, EventSkip, SaveEvent, EventSave,
                      Answer, AnswerLost, Reply, Arrive, Receive
  <2>2. zmq'[h].pc # "idle" => zmq'[h].dockerd \in Dockerds
    BY <1>1, <1>2 DEF ReadEvent, EventRead, EventSkip, SaveEvent, EventSave,
      Answer, AnswerLost, Reply, Arrive, Receive, Serving, Applying, IdleHandler
  <2>3. QED
    BY <2>1, <2>2
<1>3. CASE ApiRestarts
  BY <1>3 DEF ApiRestarts, IdleHandler
<1>4. CASE UNCHANGED zmq
  BY <1>4
<1>5. QED
  BY <1>2, <1>3, <1>4
     DEF SystemNext, Request, CreateBegin, UpdateRead, ClientSave, CreateEnd,
         UpdateSave, Work, WorkerNext, ExpireTick, ExpireSave, RemoveTick,
         RemoveSave, DockerdSilent, apiVars, TtlPasses, Handle, DaemonNext,
         DaemonAlone, Surroundings, Timeout, Crash, Poll, vars, systemVars

LEMMA StepForgotten ==
  ASSUME IInv, ForgottenInv, forgotten \subseteq Sessions, [SystemNext]_systemVars
  PROVE  ForgottenInv'
<1> USE DEF ForgottenInv
<1>1. CASE ApiRestarts
  BY <1>1 DEF ApiRestarts, IdleClient
<1>2. CASE ~ApiRestarts
  <2>1. SUFFICES ASSUME NEW s \in forgotten'
                 PROVE  /\ store'[s] = NoSession
                        /\ \A c \in Clients :
                             http'[c].pc = "create" => http'[c].copy.id # s
    OBVIOUS
  <2>2. s \in forgotten /\ s \in Sessions
    BY <1>2 DEF SystemNext, Request, Work, Handle, ReadEvent, SaveEvent, Answer,
      AnswerLost, Arrive, DaemonNext, DaemonAlone, Surroundings, Timeout, Crash,
      Poll, linkVars, systemVars
  <2>3. store'[s] = NoSession
    BY <1>2, <2>2, SystemStepIsApiStep, RecordsStay DEF ApiStep, EventSkip
  <2>4. http \in [Clients -> [pc : {"idle", "create", "update"},
                              copy : Session \cup {NoSession},
                              want : SessionStatus]]
    BY DEF IInv, TypeOK
  <2>5. ASSUME NEW c \in Clients, NEW t \in Sessions \ forgotten,
               NEW d \in Dockerds, CreateBegin(c, t, d), NEW b \in Clients,
               http'[b].pc = "create"
        PROVE  http'[b].copy.id # s
    BY <2>2, <2>4, <2>5 DEF CreateBegin, Creating, NewSession
  <2>6. ASSUME NEW c \in Clients,
               ClientSave(c) \/ \E t \in Sessions, w \in Requests : UpdateRead(c, t, w),
               NEW b \in Clients, http'[b].pc = "create"
        PROVE  http'[b].copy.id # s
    BY <2>2, <2>4, <2>6 DEF ClientSave, CreateEnd, UpdateSave, UpdateRead,
                            Updating, IdleClient
  <2>7. CASE UNCHANGED http
    BY <2>2, <2>3, <2>7
  <2>8. QED
    BY <1>2, <2>3, <2>5, <2>6, <2>7
       DEF SystemNext, Request, Work, WorkerNext, ExpireTick, ExpireSave,
           RemoveTick, RemoveSave, DockerdSilent, apiVars, TtlPasses, Handle,
           ReadEvent, EventRead, EventSkip, SaveEvent, EventSave, Answer,
           AnswerLost, Reply, Arrive, Receive, DaemonNext, DaemonAlone,
           Surroundings, Timeout, Crash, Poll, vars, systemVars
<1>3. QED
  BY <1>1, <1>2

\* The invariants that the proofs below need.
LiveInv == IInv /\ LinkInv /\ R!SimulatorInv

LEMMA LiveInvariance ==
  ASSUME IsFiniteSet(Sessions), Runtime = "simulator"
  PROVE  SystemSpec => []LiveInv
<1>1. R!Spec => []R!SimulatorInv
  BY R!SimulatorHolds, DockerdAssumption DEF D!Operations, R!Operations
<1>2. SystemInit => LinkInv
  <2>1. SystemInit => LinkShapes /\ CountsInv
    BY InitLink
  <2>2. SystemInit => AwaitedInv /\ SenderInv /\ ForgottenInv
    BY DEF SystemInit, Init, AwaitedInv, SenderInv, ForgottenInv, NoPacket,
           IdleHandler
  <2>3. QED
    BY <2>1, <2>2 DEF LinkInv
<1>3. IInv /\ R!SimulatorInv /\ LinkInv /\ [SystemNext]_systemVars => LinkInv'
  BY StepShapes, StepCounts, StepAwaited, StepSender, StepForgotten
     DEF LinkInv, LinkShapes, R!SimulatorInv
<1>4. QED
  BY SystemInvariance, SystemSpecIsDockerds, <1>1, <1>2, <1>3, PTL
     DEF SystemSpec, LiveInv
-----------------------------------------------------------------------------
\* What the next reply orders for a session in these statuses.
OrdersFollowStatus ==
  \A s \in Sessions :
    /\ HasStatus(s, "stopped") => Want[s] = "session_stopped"
    /\ HasStatus(s, "pending") => Want[s] = "session_start"

LEMMA WhatIsWanted == IInv /\ ForgottenInv => OrdersFollowStatus
<1> SUFFICES ASSUME IInv, ForgottenInv, NEW s \in Sessions
             PROVE  /\ HasStatus(s, "stopped") => Want[s] = "session_stopped"
                    /\ HasStatus(s, "pending") => Want[s] = "session_start"
  BY DEF OrdersFollowStatus
<1>1. ASSUME HasStatus(s, "stopped") \/ HasStatus(s, "pending")
      PROVE  s \notin forgotten /\ ~store[s].deleted
  BY <1>1 DEF HasStatus, ForgottenInv, IInv, DeletedIsTerminal, IsDeleted,
              IsTerminal, Terminal
<1>2. QED
  BY <1>1 DEF HasStatus, Want, Wanted, OrdersFor

\* A handler whose reply is awaited has the daemon's report on s still before
\* it, or is about to save what it says.
Reporting(s, status) ==
  \A h \in Handlers :
    held[h].awaited
      => \/ held[h].events[s] = report[s]
         \/ /\ zmq[h].pc = "save" /\ zmq[h].copy.id = s
            /\ zmq[h].copy.status = status /\ zmq[h].event = report[s]

\* The report asks for a change.
Telling(s, status) ==
  pc = "sent" /\ report[s] # "none"
    => Transition(status, ReportedStatus(report[s])) # status

\* Such a report is not lost between the daemon and the record without that
\* the record changes: its sender is the owner, and is heard.
LEMMA StepReporting ==
  ASSUME LiveInv, [SystemNext]_systemVars, NEW s \in Sessions, NEW status,
         HasStatus(s, status), HasStatus(s, status)', Telling(s, status),
         Reporting(s, status)
  PROVE  Reporting(s, status)'
<1> USE DEF Reporting
<1> DEFINE Nobody == \A h \in Handlers : ~held[h].awaited
<1>1. /\ held \in [Handlers -> Packets] /\ wire \subseteq Packets
      /\ zmq \in [Handlers -> [pc : {"idle", "events", "save"},
                               dockerd : Dockerds \cup {NoDockerd},
                               left : 0..MaxEvents,
                               copy : Session \cup {NoSession},
                               event : Reports]]
  BY DEF LiveInv, LinkInv, LinkShapes, IInv, TypeOK
<1>2. ~NoPacket.awaited /\ \A p \in Packets : ~GivenUp(p).awaited
  BY DEF NoPacket, GivenUp, Packets
<1>3. Nobody' => Reporting(s, status)'
  OBVIOUS
<1>4. pc # "sent" => Nobody
  BY DEF LiveInv, LinkInv, AwaitedInv
<1>5. CASE NobodyWaits
  BY <1>1, <1>2, <1>3, <1>5 DEF NobodyWaits
<1>6. CASE Poll \/ DaemonAlone
  <2>1. pc # "sent" /\ held' = held
    BY <1>6, AloneIsNotSent DEF Poll, D!SendReport, DaemonAlone, linkVars
  <2>2. QED
    BY <1>3, <1>4, <2>1
<1>7. ASSUME NEW h \in Handlers, NEW d \in Dockerds, Arrive(h, d)
      PROVE  Reporting(s, status)'
  <2>1. PICK p \in wire : held' = [held EXCEPT ![h] = p]
    BY <1>7 DEF Arrive
  <2>2. report' = report /\ (p.awaited => p.events = report)
    BY <1>7 DEF Arrive, dockerdVars, LiveInv, LinkInv, AwaitedInv
  <2>3. \A g \in Handlers : g # h => zmq'[g] = zmq[g] /\ held'[g] = held[g]
    BY <1>1, <1>7, <2>1 DEF Arrive, Receive
  <2>4. held'[h] = p
    BY <1>1, <2>1
  <2>5. QED
    BY <2>2, <2>3, <2>4
<1>8. ASSUME NEW h \in Handlers, report' = report,
             \A g \in Handlers : g # h => zmq'[g] = zmq[g] /\ held'[g] = held[g],
             held'[h].awaited
               => \/ held'[h].events[s] = report[s]
                  \/ /\ zmq'[h].pc = "save" /\ zmq'[h].copy.id = s
                     /\ zmq'[h].copy.status = status /\ zmq'[h].event = report[s]
      PROVE  Reporting(s, status)'
  BY <1>8
<1>9. ASSUME NEW h \in Handlers, Answer(h) \/ AnswerLost(h)
      PROVE  Reporting(s, status)'
  <2>1. CASE Answer(h)
    <3>1. held[h].awaited /\ held' = [held EXCEPT ![h] = NoPacket]
      BY <2>1 DEF Answer
    <3>2. Nobody'
      BY <1>1, <1>2, <3>1 DEF LiveInv, LinkInv, AwaitedInv
    <3>3. QED
      BY <1>3, <3>2
  <2>2. CASE AnswerLost(h)
    <3>1. /\ held' = [held EXCEPT ![h] = NoPacket] /\ report' = report
          /\ \A g \in Handlers : g # h => zmq'[g] = zmq[g]
      BY <1>1, <2>2 DEF AnswerLost, Reply, dockerdVars
    <3>2. QED
      BY <1>1, <1>2, <1>8, <3>1
  <2>3. QED
    BY <1>9, <2>1, <2>2
<1>10. ASSUME NEW h \in Handlers, ReadEvent(h) PROVE Reporting(s, status)'
  <2>1. PICK t \in EventsOf(held[h]) :
          /\ \/ EventRead(h, t, held[h].events[t])
             \/ EventSkip(h, t, held[h].events[t])
          /\ held'[h].events = [held[h].events EXCEPT ![t] = "none"]
          /\ held'[h].awaited = held[h].awaited
          /\ \A g \in Handlers : g # h => held'[g] = held[g]
    BY <1>10, ReadEventFacts DEF LiveInv, LinkInv
  <2>2. /\ report' = report /\ zmq[h].pc = "events"
        /\ \A g \in Handlers : g # h => zmq'[g] = zmq[g]
    BY <1>1, <1>10, <2>1 DEF ReadEvent, dockerdVars, EventRead, EventSkip
  <2>3. CASE t # s
    BY <1>1, <1>8, <2>1, <2>2, <2>3 DEF Packets
  <2>4. CASE t = s
    <3>1. held[h].events[s] \in Reports
      BY <1>1, <2>1, <2>4 DEF EventsOf, Packets, D!Reports, Reports
    <3>2. Owned(h, s)
      BY <2>2, OneDockerd, NoSessionAssumption
         DEF Owned, HasStatus, LiveInv, LinkInv, SenderInv, IInv, TypeOK,
             Session, IndexLeadsToRecord
    <3>3. EventRead(h, s, held[h].events[s])
      BY <2>1, <2>4, <3>1, <3>2 DEF EventSkip
    <3>4. /\ zmq'[h].pc = "save" /\ zmq'[h].copy = store[s]
          /\ zmq'[h].event = held[h].events[s]
      BY <1>1, <3>3 DEF EventRead, Applying
    <3>5. store[s].id = s /\ store[s].status = status
      BY DEF HasStatus, LiveInv, IInv, IndexLeadsToRecord
    <3>6. held[h].awaited => held[h].events[s] = report[s]
      BY <2>2
    <3>7. QED
      BY <1>8, <2>1, <2>2, <3>4, <3>5, <3>6
  <2>5. QED
    BY <2>3, <2>4
<1>11. ASSUME NEW h \in Handlers, SaveEvent(h) PROVE Reporting(s, status)'
  <2>1. /\ report' = report /\ held' = held
        /\ \A g \in Handlers : g # h => zmq'[g] = zmq[g]
    BY <1>1, <1>11 DEF SaveEvent, EventSave, dockerdVars, linkVars
  <2>2. CASE held[h].awaited => held[h].events[s] = report[s]
    BY <1>8, <2>1, <2>2
  <2>3. ASSUME held[h].awaited, held[h].events[s] # report[s] PROVE FALSE
    <3> DEFINE r == zmq[h].copy
               t == Transition(status, ReportedStatus(report[s]))
    <3>1. /\ r.id = s /\ r.status = status /\ zmq[h].event = report[s]
          /\ r \in Session
      BY <1>11, <2>3
         DEF SaveEvent, EventSave, LiveInv, IInv, CopiesAreGood, GoodCopy
    <3>2. report[s] \in Reports
      BY <1>1, <3>1
    <3>3. t # status
      BY <2>3, <3>2 DEF LiveInv, LinkInv, AwaitedInv, Telling, Reports
    <3>4. store' = [store EXCEPT ![s] = WithStatus(r, t)]
      <4>1. WithStatus(r, t).id = s
        BY <3>1 DEF WithStatus, Session
      <4>2. QED
        BY <1>11, <3>1, <4>1 DEF SaveEvent, EventSave, SaveSession, SetRecord
    <3>5. store'[s].status = t
      BY <3>1, <3>4 DEF WithStatus, Session, LiveInv, IInv, TypeOK
    <3>6. QED
      BY <3>3, <3>5 DEF HasStatus
  <2>4. QED
    BY <2>2, <2>3
<1>12. CASE ApiRestarts
  BY <1>12 DEF ApiRestarts, HasStatus
<1>13. CASE UNCHANGED <<report, zmq, held>>
  BY <1>13
<1>14. QED
  BY <1>5, <1>6, <1>7, <1>9, <1>10, <1>11, <1>12, <1>13
     DEF SystemNext, Request, CreateBegin, UpdateRead, ClientSave, CreateEnd,
         UpdateSave, Work, WorkerNext, ExpireTick, ExpireSave, RemoveTick,
         RemoveSave, DockerdSilent, apiVars, TtlPasses, Handle, DaemonNext,
         Surroundings, D!FileMDTakes, D!Exit, Timeout, Crash, vars, linkVars,
         dockerdVars, systemVars

LEMMA EmptyCount ==
  ASSUME IsFiniteSet(Sessions), NEW h \in Handlers,
         Cardinality(EventsOf(held[h])) = 0
  PROVE  EventsOf(held[h]) = {}
BY FS_Subset, FS_EmptySet DEF EventsOf

\* When a reply arrives, the report it answers has been dealt with.
LEMMA AnswerFacts ==
  ASSUME IsFiniteSet(Sessions), LiveInv, NEW h \in Handlers, Answer(h), NEW s \in Sessions
  PROVE  /\ pc = "sent" /\ pc' = "sync" /\ todo = {} /\ inbox = R!NoEvents
         /\ inbox'[s] = IF Want[s] \in Orders THEN Want[s] ELSE "none"
         /\ box' = box
         /\ \A status : Reporting(s, status) => report[s] = "none"
         /\ \A status : Reporting(s, status)'
<1>1. /\ pc = "sent" /\ pc' = "sync" /\ box' = box
      /\ inbox'[s] = IF Want[s] \in Orders THEN Want[s] ELSE "none"
  BY DEF Answer, D!Reply, D!Orders, Orders
<1>2. todo = {} /\ inbox = R!NoEvents
  BY <1>1 DEF LiveInv, R!SimulatorInv, R!ReportInv, R!InboxInv, R!BeforeReply
<1>3. held[h].awaited /\ zmq[h].pc = "events" /\ zmq[h].left = 0
  BY DEF Answer, Reply
<1>4. held[h].events[s] = "none"
  BY <1>3, EmptyCount DEF LiveInv, LinkInv, CountsInv, EventsOf
<1>5. /\ held \in [Handlers -> Packets] /\ held' = [held EXCEPT ![h] = NoPacket]
      /\ ~NoPacket.awaited
  BY DEF LiveInv, LinkInv, LinkShapes, Answer, NoPacket
<1>6. \A g \in Handlers : ~held'[g].awaited
  BY <1>3, <1>5 DEF LiveInv, LinkInv, AwaitedInv
<1>7. QED
  BY <1>1, <1>2, <1>3, <1>4, <1>6 DEF Reporting
-----------------------------------------------------------------------------
LEMMA DaemonFacts ==
  ASSUME Runtime = "simulator", LiveInv, [SystemNext]_systemVars
  PROVE  /\ R!TypeInv /\ R!SimulatorInv /\ [R!Next]_(R!vars)
         /\ {"list", "stop"} \cap Failures = {}
         /\ Crash => \A s \in Sessions, k \in R!Kinds : box'[s][k] = "absent"
<1>1. R!TypeInv /\ R!SimulatorInv /\ [R!Next]_(R!vars)
  BY StepIsDockerds DEF LiveInv, R!SimulatorInv
<1>2. {"list", "stop"} \cap Failures = {}
  BY DockerdAssumption
<1>3. Crash => \A s \in Sessions, k \in R!Kinds : box'[s][k] = "absent"
  BY DEF Crash, D!Crash, D!Kinds, R!Kinds
<1>4. QED
  BY <1>1, <1>2, <1>3

\* The order to stop a session is carried out, a crash included.
LEMMA StopGoesOn ==
  ASSUME Runtime = "simulator", LiveInv, [SystemNext]_systemVars,
         NEW s \in Sessions, R!NoStart(s), R!Stopping(s)
  PROVE  R!NoStart(s)' /\ R!Stopping(s)'
<1>1. /\ R!TypeInv /\ R!SimulatorInv /\ [R!Next]_(R!vars)
      /\ {"list", "stop"} \cap Failures = {}
      /\ Crash => \A k \in R!Kinds : box'[s][k] = "absent"
  BY DaemonFacts
<1>2. R!NoStart(s)'
  BY <1>1, R!StepNoStart, DockerdAssumption DEF D!Operations, R!Operations
<1>3. R!Silenced(s) => R!Silenced(s)'
  BY <1>1, R!StepSilenced, DockerdAssumption DEF D!Operations, R!Operations
<1>4. CASE R!BeforeReply
  <2>1. R!Silenced(s)
    BY <1>1, <1>4 DEF R!SimulatorInv, R!InboxInv, R!BeforeReply, R!Stopping,
                      R!StopOrders, R!NoEvents
  <2>2. QED
    BY <1>2, <1>3, <2>1 DEF R!Stopping
<1>5. CASE ~R!BeforeReply
  <2>1. R!Stopping(s)' \/ R!Crash
    BY <1>1, <1>5, R!SimulatorStops, R!StepStops, DockerdAssumption
       DEF D!Operations, R!Operations
  <2>2. R!Crash => R!Silenced(s)'
    BY DEF R!Crash, R!Silenced, R!Kinds
  <2>3. QED
    BY <1>2, <2>1, <2>2 DEF R!Stopping
<1>6. QED
  BY <1>4, <1>5

\* A reply that finds the session stopped orders to stop it.
LEMMA AnswerOrdersStop ==
  ASSUME IsFiniteSet(Sessions), LiveInv, OrdersFollowStatus,
         OrdersFollowStatus', NEW h \in Handlers, Answer(h),
         NEW s \in Sessions, HasStatus(s, "stopped"), HasStatus(s, "stopped")'
  PROVE  R!NoStart(s)' /\ R!Stopping(s)'
<1>1. pc' = "sync" /\ inbox'[s] = "session_stopped"
  BY AnswerFacts DEF OrdersFollowStatus, Orders
<1>2. Want'[s] = "session_stopped"
  BY DEF OrdersFollowStatus
<1>3. QED
  BY <1>1, <1>2
     DEF R!NoStart, R!MayStart, R!Stopping, R!StopOrders, R!StartStages

\* Once that is done, the target is reported as ended or not at all.
LEMMA StopIsAnswered ==
  ASSUME IsFiniteSet(Sessions), Runtime = "simulator", LiveInv,
         [SystemNext]_systemVars, NEW h \in Handlers, Answer(h),
         NEW s \in Sessions, R!NoStart(s), R!Stopping(s)
  PROVE  R!Quiet(s)' /\ Reporting(s, "stopped")'
<1>1. /\ R!TypeInv /\ R!SimulatorInv /\ [R!Next]_(R!vars)
      /\ pc = "sent" /\ pc' = "sync" /\ inbox = R!NoEvents
      /\ Reporting(s, "stopped")'
  BY DaemonFacts, AnswerFacts
<1>2. R!Silenced(s)
  BY <1>1 DEF R!Stopping, R!StopOrders, R!NoEvents
<1>3. R!Silent(s)
  BY <1>2 DEF R!Silent, R!NoStart, R!Silenced, R!Kinds
<1>4. R!Silent(s)'
  BY <1>1, <1>3, R!StepSilent, DockerdAssumption DEF D!Operations, R!Operations
<1>5. QED
  BY <1>1, <1>4 DEF R!Quiet

LEMMA QuietGoesOn ==
  ASSUME Runtime = "simulator", LiveInv, [SystemNext]_systemVars,
         NEW s \in Sessions, HasStatus(s, "stopped"), HasStatus(s, "stopped")',
         R!Quiet(s), Reporting(s, "stopped")
  PROVE  R!Quiet(s)' /\ Reporting(s, "stopped")'
<1>1. R!Quiet(s)'
  BY DaemonFacts, R!StepQuiet, DockerdAssumption DEF D!Operations, R!Operations
<1>2. Telling(s, "stopped")
  BY DEF Telling, R!Quiet, Transition, ReportedStatus, Successors
<1>3. QED
  BY <1>1, <1>2, StepReporting

\* The reply to a report that says nothing of the session: it has no target.
LEMMA QuietIsAnswered ==
  ASSUME IsFiniteSet(Sessions), LiveInv, NEW h \in Handlers, Answer(h),
         NEW s \in Sessions, R!Quiet(s), Reporting(s, "stopped")
  PROVE  ~R!MayStart(s) /\ box'[s]["target"] = "absent"
<1>1. pc = "sent" /\ todo = {} /\ report[s] = "none" /\ box' = box
  BY AnswerFacts
<1>2. QED
  BY <1>1 DEF LiveInv, R!SimulatorInv, R!ReportInv, R!Quiet, R!Silent

LEMMA GoneGoesOn ==
  ASSUME Runtime = "simulator", LiveInv, [SystemNext]_systemVars,
         NEW s \in Sessions, R!NoStart(s), box[s]["target"] = "absent"
  PROVE  R!NoStart(s)' /\ box'[s]["target"] = "absent"
<1>1. R!TypeInv /\ [R!Next]_(R!vars)
  BY DaemonFacts
<1>2. R!NoStart(s)'
  BY <1>1, R!StepNoStart, DockerdAssumption DEF D!Operations, R!Operations
<1>3. CASE R!Next
  <2>1. "target" \in R!Kinds /\ ~(pc \in R!StartStages /\ cur = s)
    BY DEF R!Kinds, R!NoStart
  <2>2. QED
    BY <1>1, <1>2, <1>3, <2>1, R!AbsentStays, DockerdAssumption
       DEF D!Operations, R!Operations
<1>4. CASE UNCHANGED (R!vars)
  BY <1>2, <1>4 DEF R!vars
<1>5. QED
  BY <1>1, <1>3, <1>4

\* With the simulator, a session that stays stopped has no target in the end:
\* every other one is reported as ended, and that report arrives, however many
\* are lost or come late, and finishes it.
THEOREM StoppedIsFinished ==
  ASSUME IsFiniteSet(Sessions), Runtime = "simulator"
  PROVE  SystemSpec => StoppedFinishes
<1>1. LiveInv => OrdersFollowStatus
  BY WhatIsWanted DEF LiveInv, LinkInv
<1>2. ASSUME NEW s \in Sessions
      PROVE  SystemSpec /\ KeepsAnswering
               => (<>[]HasStatus(s, "stopped") => <>[](box[s]["target"] = "absent"))
  <2> DEFINE A == \E h \in Handlers : Answer(h)
             H == HasStatus(s, "stopped")
             P == R!NoStart(s) /\ R!Stopping(s)
             Q == R!Quiet(s) /\ Reporting(s, "stopped")
             G == box[s]["target"] = "absent"
             Z == R!NoStart(s) /\ G
             Inv == LiveInv /\ OrdersFollowStatus
  <2>1. Inv /\ Inv' /\ H /\ H' /\ <<A>>_systemVars => P'
    BY AnswerOrdersStop
  <2>2. Inv /\ [SystemNext]_systemVars /\ P => P'
    BY StopGoesOn
  <2>3. Inv /\ [SystemNext]_systemVars /\ P /\ <<A>>_systemVars => Q'
    BY StopIsAnswered
  <2>4. Inv /\ [SystemNext]_systemVars /\ H /\ H' /\ Q => Q'
    BY QuietGoesOn
  <2>5. Inv /\ [SystemNext]_systemVars /\ P /\ Q /\ <<A>>_systemVars => Z'
    BY StopGoesOn, QuietIsAnswered
  <2>6. Inv /\ [SystemNext]_systemVars /\ Z => Z'
    BY GoneGoesOn
  <2>7. Z => G
    OBVIOUS
  <2>8. SystemSpec => []Inv /\ [][SystemNext]_systemVars
    BY <1>1, LiveInvariance, PTL DEF SystemSpec
  <2> HIDE DEF H, P, Q, G, Z, Inv
  <2>9. SystemSpec /\ KeepsAnswering => (<>[]H => <>[]G)
    BY <2>1, <2>2, <2>3, <2>4, <2>5, <2>6, <2>7, <2>8, PTL DEF KeepsAnswering
  <2>10. QED
    BY <2>9 DEF H, G
<1>3. QED
  BY <1>2 DEF StoppedFinishes
-----------------------------------------------------------------------------
\* The daemon does not crash again and again.  A bounded number of crashes is
\* all that the model has; that they come to an end is an induction over it.
CrashesEnd == <>[][~Crash]_systemVars

LEMMA SameStartFails == D!StartFails <=> R!StartFails
BY DEF D!StartFails, R!StartFails, D!StageFails, R!StageFails, D!NameTaken,
       R!NameTaken, D!Existing, R!Existing, D!ToStop, R!ToStop, D!env, R!env,
       D!Kinds, R!Kinds

LEMMA OnlyCrashCounts ==
  ASSUME R!TypeInv, [SystemNext]_systemVars, ~Crash
  PROVE  ~R!Crash
<1>1. crashes' = crashes
  BY DEF SystemNext, Request, Work, Handle, ReadEvent, SaveEvent, Answer,
         AnswerLost, Arrive, ApiRestarts, DaemonNext, DaemonAlone, Poll,
         Timeout, Surroundings, D!BeginPoll, D!Inspect, D!SkipStart,
         D!BeginStart, D!BeginStop, D!SyncDone, D!MakeVolume, D!CreateTracer,
         D!CreateTarget, D!Create, D!StartTracer, D!StartTarget, D!StartFails,
         D!StopContainer, D!RemoveContainer, D!StopDone, D!SendReport,
         D!Timeout, D!Reply, D!FileMDTakes, D!Exit, D!env, dockerdVars,
         systemVars
<1>2. QED
  BY <1>1 DEF R!Crash, R!TypeInv, R!TypeOK

LEMMA StartGoesOn ==
  ASSUME Runtime = "simulator", LiveInv, OrdersFollowStatus,
         [SystemNext]_systemVars, ~Crash,
         NEW s \in Sessions, HasStatus(s, "pending"), R!Starting(s),
         ~(D!StartFails /\ cur = s)
  PROVE  R!Starting(s)'
<1>1. R!TypeInv /\ R!SimulatorInv /\ [R!Next]_(R!vars)
  BY DaemonFacts
<1>2. ~R!Crash /\ ~(R!StartFails /\ cur = s) /\ Want[s] = "session_start"
  BY <1>1, OnlyCrashCounts, SameStartFails DEF OrdersFollowStatus
<1>3. QED
  BY <1>1, <1>2, R!StepStart, DockerdAssumption DEF D!Operations, R!Operations

LEMMA RunningGoesOn ==
  ASSUME Runtime = "simulator", LiveInv, OrdersFollowStatus,
         [SystemNext]_systemVars, ~Crash, NEW s \in Sessions,
         HasStatus(s, "pending"), HasStatus(s, "pending")',
         R!Running(s), Reporting(s, "pending")
  PROVE  R!Running(s)' /\ Reporting(s, "pending")'
<1>1. R!TypeInv /\ R!SimulatorInv /\ [R!Next]_(R!vars)
  BY DaemonFacts
<1>2. ~R!Crash /\ Want[s] = "session_start"
  BY <1>1, OnlyCrashCounts DEF OrdersFollowStatus
<1>3. R!Running(s)'
  BY <1>1, <1>2, R!StepRunning, DockerdAssumption DEF D!Operations, R!Operations
<1>4. Telling(s, "pending")
  BY <1>1 DEF Telling, R!Running, R!SimulatorInv, R!ReportInv, Transition,
              ReportedStatus, Successors
<1>5. QED
  BY <1>3, <1>4, StepReporting

\* The reply after the one that ordered the start: the target runs.
LEMMA StartIsAnswered ==
  ASSUME IsFiniteSet(Sessions), LiveInv, NEW h \in Handlers, Answer(h),
         NEW s \in Sessions, R!Starting(s)
  PROVE  R!Running(s)' /\ Reporting(s, "pending")'
<1>1. /\ pc = "sent" /\ pc' = "sync" /\ inbox = R!NoEvents /\ box' = box
      /\ Reporting(s, "pending")'
  BY AnswerFacts
<1>2. box[s]["target"] = "running"
  BY <1>1 DEF R!Starting, R!NoEvents, R!StartStages
<1>3. QED
  BY <1>1, <1>2 DEF R!Running

\* ... and no further one finds the session pending.
LEMMA RunningIsNotAnswered ==
  ASSUME IsFiniteSet(Sessions), LiveInv, NEW h \in Handlers, Answer(h),
         NEW s \in Sessions, R!Running(s), Reporting(s, "pending")
  PROVE  FALSE
<1>1. pc = "sent" /\ todo = {} /\ report[s] = "none"
  BY AnswerFacts
<1>2. QED
  BY <1>1 DEF R!Running

LEMMA AnswerOrdersStart ==
  ASSUME IsFiniteSet(Sessions), LiveInv, OrdersFollowStatus,
         NEW h \in Handlers, Answer(h),
         NEW s \in Sessions, HasStatus(s, "pending")
  PROVE  R!Starting(s)'
BY AnswerFacts DEF OrdersFollowStatus, Orders, R!Starting

\* With the simulator, a session that stays pending has a start that fails
\* again and again: otherwise its target comes to run, and the report of that
\* arrives, whatever is lost or late.
THEOREM PendingIsStarted ==
  ASSUME IsFiniteSet(Sessions), Runtime = "simulator"
  PROVE  SystemSpec /\ CrashesEnd => PendingStarts
<1>1. LiveInv => OrdersFollowStatus
  BY WhatIsWanted DEF LiveInv, LinkInv
<1>2. ASSUME NEW s \in Sessions
      PROVE  SystemSpec /\ CrashesEnd /\ KeepsAnswering
               => (<>[]HasStatus(s, "pending")
                     => []<><<D!StartFails /\ cur = s>>_systemVars)
  <2> DEFINE A == \E h \in Handlers : Answer(h)
             F == D!StartFails /\ cur = s
             H == HasStatus(s, "pending")
             P == R!Starting(s)
             Q == R!Running(s) /\ Reporting(s, "pending")
             Inv == LiveInv /\ OrdersFollowStatus
             Still == UNCHANGED systemVars
  <2>1. Inv /\ H /\ <<A>>_systemVars => P'
    BY AnswerOrdersStart
  <2>2. Inv /\ [SystemNext]_systemVars /\ [~Crash]_systemVars
          /\ ~<<F>>_systemVars /\ H /\ P => P'
    <3> SUFFICES ASSUME Inv, [SystemNext]_systemVars, [~Crash]_systemVars,
                        ~<<F>>_systemVars, H, P
                 PROVE  P'
      OBVIOUS
    <3>1. CASE Still
      BY <3>1 DEF systemVars, dockerdVars, R!Starting
    <3>2. CASE ~Still
      <4>1. ~Crash /\ ~(D!StartFails /\ cur = s)
        BY <3>2
      <4>2. QED
        BY <4>1, StartGoesOn
    <3>3. QED
      BY <3>1, <3>2
  <2>3. Inv /\ P /\ <<A>>_systemVars => Q'
    BY StartIsAnswered
  <2>4. Inv /\ [SystemNext]_systemVars /\ [~Crash]_systemVars /\ H /\ H' /\ Q
          => Q'
    <3> SUFFICES ASSUME Inv, [SystemNext]_systemVars, [~Crash]_systemVars,
                        H, H', Q
                 PROVE  Q'
      OBVIOUS
    <3>1. CASE Still
      BY <3>1 DEF systemVars, vars, apiVars, dockerdVars, linkVars, R!Running,
                  Reporting
    <3>2. CASE ~Still
      BY <3>2, RunningGoesOn
    <3>3. QED
      BY <3>1, <3>2
  <2>5. Inv /\ Q => ~<<A>>_systemVars
    BY RunningIsNotAnswered
  <2>6. SystemSpec => []Inv /\ [][SystemNext]_systemVars
    BY <1>1, LiveInvariance, PTL DEF SystemSpec
  <2> HIDE DEF H, P, Q, F, Inv
  <2>7. SystemSpec /\ CrashesEnd /\ KeepsAnswering
          => (<>[]H => []<><<F>>_systemVars)
    BY <2>1, <2>2, <2>3, <2>4, <2>5, <2>6, PTL DEF KeepsAnswering, CrashesEnd
  <2>8. QED
    BY <2>7 DEF H, F
<1>3. QED
  BY <1>2 DEF PendingStarts
-----------------------------------------------------------------------------
\* The workers, under their fairness.  Two facts about them are premises: when
\* a tick is enabled, which no prover here can evaluate, and that a tick comes
\* to an end, which is an induction over the records it has listed.
ExpiryIsEnabled ==
  \A s \in Sessions :
    expiring = {} /\ HasStatus(s, "running") /\ s \in ttlPassed
      => ENABLED <<ExpireTick>>_vars

RemovalIsEnabled ==
  \A s \in Sessions :
    removing = {} /\ IsTerminal(s) /\ ~IsDeleted(s)
      => ENABLED <<RemoveTick>>_vars

TicksEnd == []<>(expiring = {}) /\ []<>(removing = {})

\* What the workers have in hand changes by their own steps, and by restarts.
LEMMA WhoChangesLists ==
  ASSUME [SystemNext]_systemVars, ~ApiRestarts
  PROVE  /\ expiring' = expiring \/ ExpireTick \/ \E r \in expiring : ExpireSave(r)
         /\ removing' = removing \/ RemoveTick \/ \E r \in removing : RemoveSave(r)
         /\ seen' = seen \/ RemoveTick
         /\ ttlPassed \subseteq ttlPassed'
BY DEF SystemNext, Request, CreateBegin, UpdateRead, ClientSave, CreateEnd,
       UpdateSave, Work, WorkerNext, ExpireTick, ExpireSave, RemoveTick,
       RemoveSave, DockerdSilent, apiVars, TtlPasses, Handle, ReadEvent,
       EventRead, EventSkip, SaveEvent, EventSave, Answer, AnswerLost, Reply,
       Arrive, Receive, DaemonNext, DaemonAlone, Surroundings, Timeout, Crash,
       Poll, vars, systemVars

\* A listed record is saved, and then as stopped.
LEMMA ExpiringStays ==
  ASSUME IInv, [SystemNext]_systemVars, NEW s \in Sessions,
         HasStatus(s, "running")', NEW r \in expiring, r.id = s
  PROVE  \E q \in expiring' : q.id = s
<1>1. ~ApiRestarts
  BY DEF ApiRestarts, HasStatus
<1>2. ~ExpireTick
  BY DEF ExpireTick
<1>3. ASSUME NEW q \in expiring, ExpireSave(q) PROVE r \in expiring'
  <2>1. /\ expiring' = expiring \ {q}
        /\ store' = [store EXCEPT ![q.id] = WithStatus(q, "stopped")]
    BY <1>3
       DEF ExpireSave, SaveSession, SetRecord, WithStatus, IInv, TypeOK, Session
  <2>2. q = r => store'[s].status = "stopped"
    BY <2>1 DEF WithStatus, IInv, TypeOK, Session
  <2>3. QED
    BY <2>1, <2>2 DEF HasStatus
<1>4. QED
  BY <1>1, <1>2, <1>3, WhoChangesLists

\* A session that runs past its TTL leaves running: whatever saves come
\* between, the next tick finds it and saves it as stopped.
THEOREM ExpiredIsStopped ==
  FairSystemSpec /\ []ExpiryIsEnabled /\ TicksEnd => ExpiredLeavesRunning
<1>1. ASSUME NEW s \in Sessions
      PROVE  FairSystemSpec /\ []ExpiryIsEnabled /\ TicksEnd
               => ((HasStatus(s, "running") /\ s \in ttlPassed)
                     ~> ~HasStatus(s, "running"))
  <2> DEFINE H == HasStatus(s, "running")
             Late == H /\ s \in ttlPassed
             N == expiring = {}
             P == \E r \in expiring : r.id = s
  <2>1. IInv /\ [SystemNext]_systemVars /\ Late /\ H' => Late'
    <3>1. H' => ~ApiRestarts
      BY DEF ApiRestarts, HasStatus
    <3>2. QED
      BY <3>1, WhoChangesLists
  <2>2. IInv /\ [SystemNext]_systemVars /\ N /\ H' /\ ~<<ExpireTick>>_vars => N'
    <3> SUFFICES ASSUME IInv, [SystemNext]_systemVars, N, H', ~<<ExpireTick>>_vars
                 PROVE  N'
      OBVIOUS
    <3>1. ~ApiRestarts
      BY DEF ApiRestarts, HasStatus
    <3>2. UNCHANGED vars => N'
      BY DEF vars, apiVars
    <3>3. QED
      BY <3>1, <3>2, WhoChangesLists
  <2>3. IInv /\ Late /\ <<ExpireTick>>_vars => P'
    BY DEF ExpireTick, ListSessions, Expirable, HasStatus, IInv,
           IndexLeadsToRecord
  <2>4. IInv /\ [SystemNext]_systemVars /\ P /\ H' => P'
    BY ExpiringStays
  <2>5. P => ~N
    OBVIOUS
  <2>6. ExpiryIsEnabled => (Late /\ N => ENABLED <<ExpireTick>>_vars)
    BY DEF ExpiryIsEnabled
  <2>7. Late => H
    OBVIOUS
  <2>8. FairSystemSpec
          => []IInv /\ [][SystemNext]_systemVars /\ WF_vars(ExpireTick)
    BY SystemInvariance, PTL
       DEF FairSystemSpec, SystemSpec, SystemFairness, WorkerFairness
  <2>9. TicksEnd => []<>N
    BY PTL DEF TicksEnd
  <2> HIDE DEF H, Late, N, P
  <2>10. FairSystemSpec /\ []ExpiryIsEnabled /\ TicksEnd => (Late ~> ~H)
    BY <2>1, <2>2, <2>3, <2>4, <2>5, <2>6, <2>7, <2>8, <2>9, PTL
  <2>11. QED
    BY <2>10 DEF Late, H
<1>2. QED
  BY <1>1 DEF ExpiredLeavesRunning

\* A terminal session that is found once more, and one that is found twice.
LEMMA RemovalTick ==
  ASSUME IInv, RemoveTick, NEW s \in Sessions, IsTerminal(s), ~IsDeleted(s)
  PROVE  /\ seen'[s] >= 1
         /\ seen[s] >= 1 => \E r \in removing' : r.id = s
<1>1. /\ store[s] \in ListSessions /\ Removable(store[s]) /\ store[s].id = s
      /\ seen[s] \in 0..2
  BY DEF IsTerminal, IsDeleted, ListSessions, Removable, IInv,
         IndexLeadsToRecord, TypeOK
<1>2. seen'[s] = SeenOnceMore(seen[s])
  BY <1>1 DEF RemoveTick
<1>3. SeenOnceMore(seen[s]) = 2 => store[s] \in removing'
  BY <1>1 DEF RemoveTick
<1>4. QED
  BY <1>1, <1>2, <1>3 DEF SeenOnceMore

LEMMA RemovingStays ==
  ASSUME IInv, [SystemNext]_systemVars, NEW s \in Sessions,
         IsTerminal(s)', ~IsDeleted(s)', NEW r \in removing, r.id = s
  PROVE  \E q \in removing' : q.id = s
<1>1. ~ApiRestarts
  BY DEF ApiRestarts, IsTerminal
<1>2. ~RemoveTick
  BY DEF RemoveTick
<1>3. ASSUME NEW q \in removing, RemoveSave(q) PROVE r \in removing'
  <2>1. /\ removing' = removing \ {q}
        /\ store' = [store EXCEPT ![q.id] = MarkedDeleted(q)]
    BY <1>3 DEF RemoveSave, SaveSession, SetRecord, MarkedDeleted, IInv, TypeOK,
                Session
  <2>2. q = r => store'[s].deleted
    BY <2>1 DEF MarkedDeleted, IInv, TypeOK, Session
  <2>3. QED
    BY <2>1, <2>2 DEF IsTerminal, IsDeleted
<1>4. QED
  BY <1>1, <1>2, <1>3, WhoChangesLists

LEMMA SeenStays ==
  ASSUME IInv, [SystemNext]_systemVars, NEW s \in Sessions,
         IsTerminal(s)', seen[s] >= 1
  PROVE  seen'[s] >= 1
<1>1. ~ApiRestarts
  BY DEF ApiRestarts, IsTerminal
<1>2. RemoveTick => seen'[s] \in {seen[s], SeenOnceMore(seen[s])}
  BY DEF RemoveTick
<1>3. QED
  BY <1>1, <1>2, WhoChangesLists DEF SeenOnceMore, IInv, TypeOK

\* A session that stays terminal gets its deletion mark, and gets it back when
\* the save of an older copy takes it away.
THEOREM TerminalIsMarked ==
  FairSystemSpec /\ []RemovalIsEnabled /\ TicksEnd => TerminalIsDeleted
<1>1. ASSUME NEW s \in Sessions
      PROVE  FairSystemSpec /\ []RemovalIsEnabled /\ TicksEnd
               => (<>[]IsTerminal(s) => []<>IsDeleted(s))
  <2> DEFINE T == IsTerminal(s)
             M == IsDeleted(s)
             N == removing = {}
             S == seen[s] >= 1
             P == \E r \in removing : r.id = s
  <2>1. IInv /\ [SystemNext]_systemVars /\ N /\ T' /\ ~<<RemoveTick>>_vars => N'
    <3> SUFFICES ASSUME IInv, [SystemNext]_systemVars, N, T', ~<<RemoveTick>>_vars
                 PROVE  N'
      OBVIOUS
    <3>1. ~ApiRestarts
      BY DEF ApiRestarts, IsTerminal
    <3>2. UNCHANGED vars => N'
      BY DEF vars, apiVars
    <3>3. QED
      BY <3>1, <3>2, WhoChangesLists
  <2>2. IInv /\ T /\ ~M /\ <<RemoveTick>>_vars => S'
    BY RemovalTick
  <2>3. IInv /\ T /\ ~M /\ S /\ <<RemoveTick>>_vars => P'
    BY RemovalTick
  <2>4. IInv /\ [SystemNext]_systemVars /\ T' /\ S => S'
    BY SeenStays
  <2>5. IInv /\ [SystemNext]_systemVars /\ T' /\ ~M' /\ P => P'
    BY RemovingStays
  <2>6. P => ~N
    OBVIOUS
  <2>7. RemovalIsEnabled => (N /\ T /\ ~M => ENABLED <<RemoveTick>>_vars)
    BY DEF RemovalIsEnabled
  <2>8. FairSystemSpec
          => []IInv /\ [][SystemNext]_systemVars /\ WF_vars(RemoveTick)
    BY SystemInvariance, PTL
       DEF FairSystemSpec, SystemSpec, SystemFairness, WorkerFairness
  <2>9. TicksEnd => []<>N
    BY PTL DEF TicksEnd
  <2> HIDE DEF T, M, N, S, P
  <2>10. FairSystemSpec /\ []RemovalIsEnabled /\ TicksEnd => (<>[]T => []<>M)
    BY <2>1, <2>2, <2>3, <2>4, <2>5, <2>6, <2>7, <2>8, <2>9, PTL
  <2>11. QED
    BY <2>10 DEF T, M
<1>2. QED
  BY <1>1 DEF TerminalIsDeleted
=============================================================================
