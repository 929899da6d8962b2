---------------------------- MODULE BedrockProofs ----------------------------
(***************************************************************************)
(* The API is a world that DockerD was written for: whatever it does, also *)
(* in an event loop that skips reports, over lost updates and restarts, is *)
(* what Dockerd allows its environment, for any number of sessions,        *)
(* handlers and requests.                                                  *)
(***************************************************************************)
EXTENDS Bedrock, ApiSessionsProofs, FiniteSetTheorems

\* The steps of the API, as seen from the sessions.
ApiStep == \/ [Next]_vars
           \/ \E h \in Handlers, s \in Sessions : \E e : EventSkip(h, s, e)
           \/ ApiRestarts

LEMMA SystemStepIsApiStep == [SystemNext]_systemVars => ApiStep
<1> USE DEF ApiStep
<1>1. CASE Request
  BY <1>1, RequestsAssumption DEF Request, Next, ClientNext
<1>2. CASE Work
  BY <1>2 DEF Work, Next
<1>3. ASSUME NEW h \in Handlers, ReadEvent(h) PROVE ApiStep
  <2>1. PICK s \in Sessions : \/ EventRead(h, s, held[h].events[s])
                              \/ EventSkip(h, s, held[h].events[s])
    BY <1>3 DEF ReadEvent, EventsOf
  <2>2. CASE EventRead(h, s, held[h].events[s])
    <3>1. held[h].events[s] \in EventType
      BY <2>2 DEF EventRead, EventType
    <3>2. QED
      BY <2>2, <3>1 DEF Next, HandlerNext, HandlerStep
  <2>3. QED
    BY <2>1, <2>2
<1>4. ASSUME NEW h \in Handlers, SaveEvent(h) \/ Answer(h) \/ AnswerLost(h)
      PROVE  ApiStep
  BY <1>4 DEF SaveEvent, Answer, AnswerLost, Next, HandlerNext, HandlerStep
<1>5. ASSUME NEW h \in Handlers, NEW d \in Dockerds, Arrive(h, d) PROVE ApiStep
  BY <1>5 DEF Arrive, Next, HandlerNext
<1>6. CASE ApiRestarts
  BY <1>6
<1>7. CASE DaemonNext \/ Surroundings \/ Crash
  BY <1>7 DEF DaemonNext, DaemonAlone, Poll, Timeout, Surroundings, Crash
<1>8. CASE UNCHANGED systemVars
  BY <1>8 DEF systemVars
<1>9. QED
  BY <1>1, <1>2, <1>3, <1>4, <1>5, <1>6, <1>7, <1>8 DEF SystemNext, Handle
-----------------------------------------------------------------------------
LEMMA RestartIInv ==
  ASSUME IInv, ApiRestarts
  PROVE  IInv'
<1> USE DEF ApiRestarts
<1>1. TypeOK'
  BY MaxEventsAssumption
     DEF IInv, TypeOK, IdleClient, IdleHandler, SessionStatus, Reports
<1>2. CopiesAreGood' /\ CreatingIsFresh'
  BY DEF CopiesAreGood, CreatingIsFresh, IdleClient, IdleHandler
<1>3. /\ IndexLeadsToRecord' /\ DeletedIsTerminal' /\ StoppedHasLeftPending'
  BY DEF IndexLeadsToRecord, DeletedIsTerminal, IsDeleted, StoppedHasLeftPending
<1>4. QED
  BY <1>1, <1>2, <1>3 DEF IInv

LEMMA ApiStepIInv == IInv /\ ApiStep => IInv'
BY NextIInv, EventSkipIInv, RestartIInv DEF ApiStep

\* A record is there to stay, and is pending when it is new.
LEMMA RecordsStay ==
  ASSUME IInv, [Next]_vars, NEW s \in Sessions
  PROVE  /\ store[s] # NoSession => store'[s] # NoSession
         /\ store[s] = NoSession /\ store'[s] # NoSession
              => /\ HasStatus(s, "pending")'
                 /\ \E c \in Clients : http[c].pc = "create" /\ http[c].copy.id = s
<1>1. ASSUME NEW c \in Clients, CreateEnd(c)
      PROVE  \/ store'[s] = store[s]
             \/ /\ store'[s] \in Session /\ store'[s].status = "pending"
                /\ http[c].pc = "create" /\ http[c].copy.id = s
  BY <1>1 DEF CreateEnd, SetRecord, IInv, CreatingIsFresh, TypeOK, Session
<1>2. ASSUME NEW c \in Clients, UpdateSave(c)
      PROVE  store'[s] = NoSession <=> store[s] = NoSession
  <2> DEFINE r == http[c].copy
             n == WithStatus(r, Transition(r.status, http[c].want))
  <2>1. /\ GoodCopy(r) /\ r.status \in SessionStatus
        /\ http[c].want \in Successors(r.status)
    BY <1>2 DEF UpdateSave, IInv, CopiesAreGood, GoodCopy, Session
  <2>2. GoodCopy(n) /\ n.status # "pending"
    BY <2>1, TransitionFacts, SuccessorsFacts, ChangedCopyIsGood DEF Transition
  <2>3. QED
    BY <1>2, <2>2, SaveKeeps DEF UpdateSave
<1>3. ASSUME NEW h \in Handlers, EventSave(h)
      PROVE  store'[s] = NoSession <=> store[s] = NoSession
  <2> DEFINE r == zmq[h].copy
             t == Transition(r.status, ReportedStatus(zmq[h].event))
  <2>1. GoodCopy(r) /\ r.status \in SessionStatus /\ zmq[h].event \in Reports
    BY <1>3 DEF EventSave, IInv, CopiesAreGood, GoodCopy, Session, TypeOK
  <2>2. /\ t \in SessionStatus /\ t # "pending"
        /\ r.status \in Terminal => t = r.status
    BY <2>1, TransitionFacts, ReportLeavesPending
  <2>3. GoodCopy(WithStatus(r, t)) /\ WithStatus(r, t).status # "pending"
    BY <2>1, <2>2, ChangedCopyIsGood
  <2>4. QED
    BY <1>3, <2>3, SaveKeeps DEF EventSave
<1>4. ASSUME NEW r \in expiring, ExpireSave(r)
      PROVE  store'[s] = NoSession <=> store[s] = NoSession
  <2>1. GoodCopy(r) /\ r.status = "running"
    BY DEF IInv, CopiesAreGood
  <2>2. GoodCopy(WithStatus(r, "stopped")) /\ WithStatus(r, "stopped").status # "pending"
    BY <2>1, ChangedCopyIsGood DEF Terminal, SessionStatus
  <2>3. QED
    BY <1>4, <2>2, SaveKeeps DEF ExpireSave
<1>5. ASSUME NEW r \in removing, RemoveSave(r)
      PROVE  store'[s] = NoSession <=> store[s] = NoSession
  <2>1. GoodCopy(r) /\ r.status \in Terminal
    BY DEF IInv, CopiesAreGood
  <2>2. GoodCopy(MarkedDeleted(r)) /\ MarkedDeleted(r).status # "pending"
    BY <2>1, DeletedCopyIsGood DEF Terminal
  <2>3. QED
    BY <1>5, <2>2, SaveKeeps DEF RemoveSave
<1>6. ASSUME store' = store
      PROVE  store'[s] = NoSession <=> store[s] = NoSession
  BY <1>6
<1>7. \/ \E c \in Clients : CreateEnd(c) \/ UpdateSave(c)
      \/ \E h \in Handlers : EventSave(h)
      \/ \E r \in expiring : ExpireSave(r)
      \/ \E r \in removing : RemoveSave(r)
      \/ store' = store
  BY DEF Next, ClientNext, ClientSave, HandlerNext, HandlerStep, WorkerNext,
         CreateBegin, UpdateRead, Receive, EventRead, EventSkip, Reply,
         ExpireTick, RemoveTick, TtlPasses, DockerdSilent, apiVars, vars
<1>8. QED
  BY <1>1, <1>2, <1>3, <1>4, <1>5, <1>6, <1>7, NoSessionAssumption DEF HasStatus
-----------------------------------------------------------------------------
\* What the API wants of a session, read off its status.
WantIsStatus ==
  \A s \in Sessions :
    /\ Wanted(s) \in Orders \cup {"none", "new"}
    /\ Wanted(s) = "new" <=> s \notin forgotten /\ store[s] = NoSession
    /\ Wanted(s) = "session_start"
         <=> s \notin forgotten /\ HasStatus(s, "pending")

LEMMA WantedFacts == IInv => WantIsStatus
<1> SUFFICES ASSUME IInv, NEW s \in Sessions
    PROVE  /\ Wanted(s) \in Orders \cup {"none", "new"}
           /\ Wanted(s) = "new" <=> s \notin forgotten /\ store[s] = NoSession
           /\ Wanted(s) = "session_start"
                <=> s \notin forgotten /\ HasStatus(s, "pending")
  BY DEF WantIsStatus
<1>1. CASE s \in forgotten \/ store[s] = NoSession
  BY <1>1 DEF Wanted, HasStatus
<1>2. CASE s \notin forgotten /\ store[s] # NoSession
  <2>1. store[s].status \in SessionStatus /\ (HasStatus(s, "pending") => ~store[s].deleted)
    BY <1>2 DEF IInv, TypeOK, Session, DeletedIsTerminal, IsDeleted, IsTerminal,
                HasStatus, Terminal
  <2>2. QED
    BY <1>2, <2>1 DEF Wanted, OrdersFor, SessionStatus, Orders, HasStatus
<1>3. QED
  BY <1>1, <1>2

LEMMA WantedStays == IInv /\ ApiStep => WantIsStatus'
<1>1. IInv /\ ApiStep => IInv'
  BY ApiStepIInv
<1>2. IInv' => WantIsStatus'
  BY WantedFacts, PTL
<1>3. QED
  BY <1>1, <1>2

\* What the API wants changes as its store does: from nothing to a start, and
\* from a start to anything but a start.
LEMMA WantFollows ==
  ASSUME IInv, ApiStep, forgotten' = forgotten \/ ApiRestarts, NEW s \in Sessions
  PROVE  Wanted(s)' = Wanted(s) \/ D!MayFollow(Wanted(s), Wanted(s)')
<1>1. WantIsStatus /\ WantIsStatus'
  BY WantedStays, WantedFacts
<1>2. /\ Wanted(s)' \in Orders \cup {"none", "new"}
      /\ Wanted(s)' = "new" <=> s \notin forgotten' /\ store'[s] = NoSession
      /\ Wanted(s)' = "session_start"
           <=> s \notin forgotten' /\ HasStatus(s, "pending")'
  BY <1>1 DEF WantIsStatus
<1>3. CASE ApiRestarts
  <2>1. store' = [t \in Sessions |-> NoSession]
        /\ forgotten' = forgotten \cup {t \in Sessions : store[t] # NoSession}
    BY <1>3 DEF ApiRestarts
  <2>2. CASE s \in forgotten'
    BY <1>1, <2>1, <2>2 DEF WantIsStatus, Wanted, D!MayFollow
  <2>3. CASE s \notin forgotten'
    BY <1>1, <1>2, <2>1, <2>3 DEF WantIsStatus
  <2>4. QED
    BY <2>2, <2>3
<1>4. CASE forgotten' = forgotten /\ [Next]_vars
  <2>1. /\ store[s] # NoSession => store'[s] # NoSession
        /\ store[s] = NoSession /\ store'[s] # NoSession
             => HasStatus(s, "pending")'
    BY <1>4, RecordsStay
  <2>2. store[s] # NoSession /\ ~HasStatus(s, "pending")
          => ~HasStatus(s, "pending")'
    BY <1>4, RecordsAreMadeFromCopies DEF HasStatus, MadeFrom
  <2>3. QED
    BY <1>1, <1>2, <1>4, <2>1, <2>2
       DEF WantIsStatus, D!MayFollow, D!Orders, Orders, HasStatus
<1>5. CASE forgotten' = forgotten /\ store' = store
  BY <1>5 DEF Wanted
<1>6. QED
  BY <1>3, <1>4, <1>5 DEF ApiStep, EventSkip
-----------------------------------------------------------------------------
\* A step of the system is one of the daemon and its world.
LEMMA StepImplementsDockerd ==
  ASSUME IInv, [SystemNext]_systemVars
  PROVE  [D!Next]_(D!vars)
<1>1. ASSUME UNCHANGED dockerdVars, forgotten' = forgotten \/ ApiRestarts
      PROVE  D!WantChanges
  <2>1. \A s \in Sessions : Wanted(s)' = Wanted(s) \/ D!MayFollow(Wanted(s), Wanted(s)')
    BY <1>1, SystemStepIsApiStep, WantFollows
  <2>2. \A s \in Sessions : Wanted(s)' \in D!Orders \cup {"none", "new"}
    BY SystemStepIsApiStep, WantedStays DEF WantIsStatus, D!Orders, Orders
  <2>3. QED
    BY <1>1, <2>1, <2>2 DEF D!WantChanges, Want, dockerdVars, D!history
<1>2. CASE DaemonAlone \/ Poll \/ Timeout
  BY <1>2 DEF DaemonAlone, Poll, Timeout, D!Next, D!DaemonStep
<1>3. CASE Surroundings
  BY <1>3 DEF Surroundings, D!Next
<1>4. CASE Crash
  BY <1>4 DEF Crash, D!Next
<1>5. CASE \E h \in Handlers : Answer(h)
  BY <1>5 DEF Answer, D!Next, D!DaemonStep
<1>6. CASE \/ Request \/ Work \/ ApiRestarts
           \/ \E h \in Handlers :
                \/ ReadEvent(h) \/ SaveEvent(h) \/ AnswerLost(h)
                \/ \E d \in Dockerds : Arrive(h, d)
           \/ UNCHANGED systemVars
  <2>1. UNCHANGED dockerdVars /\ (forgotten' = forgotten \/ ApiRestarts)
    BY <1>6 DEF Request, Work, ApiRestarts, ReadEvent, SaveEvent, AnswerLost,
                Arrive, systemVars, linkVars
  <2>2. QED
    BY <1>1, <2>1 DEF D!Next
<1>7. QED
  BY <1>2, <1>3, <1>4, <1>5, <1>6 DEF SystemNext, DaemonNext, Handle

LEMMA InitImplementsDockerd == SystemInit => IInv /\ D!Init
BY InitIInv DEF SystemInit

\* The inductive invariant of the API's sessions holds with a daemon at the
\* other end and over restarts.
THEOREM SystemInvariance == SystemSpec => []IInv
<1>1. IInv /\ [SystemNext]_systemVars => IInv'
  BY SystemStepIsApiStep, ApiStepIInv
<1>2. QED
  BY InitImplementsDockerd, <1>1, PTL DEF SystemSpec

\* The API and the daemon together behave as Dockerd says: all that is proved
\* of Dockerd is true of the daemon at work for this API.
THEOREM SystemImplementsDockerd == SystemSpec => ImplementsDockerd
<1>1. IInv /\ [SystemNext]_systemVars => [D!Next]_(D!vars)
  BY StepImplementsDockerd
<1>2. QED
  BY SystemInvariance, InitImplementsDockerd, <1>1, PTL
     DEF SystemSpec, ImplementsDockerd, D!Spec
-----------------------------------------------------------------------------
\* What is proved of Dockerd, for the daemon that works for this API.  The
\* instance R has the same text as D and brings the theorems along.
R == INSTANCE DockerdServiceProofs WITH want <- Want

LEMMA SameNext == D!Next <=> R!Next
BY DEF D!env, R!env, D!history, R!history, D!vars, R!vars, D!Kinds, R!Kinds,
       D!Orders, R!Orders, D!NoEvents, R!NoEvents, D!BeginPoll, R!BeginPoll,
       D!Collected, R!Collected, D!EventOf, R!EventOf,
       D!DockerTellsLabels, R!DockerTellsLabels,
       D!SimulatorTellsLabels, R!SimulatorTellsLabels,
       D!InspectTellsLabels, R!InspectTellsLabels, D!Inspect, R!Inspect,
       D!SendReport, R!SendReport, D!Reply, R!Reply, D!Timeout, R!Timeout,
       D!SyncDone, R!SyncDone, D!Existing, R!Existing,
       D!AlreadyStarted, R!AlreadyStarted, D!SkipStart, R!SkipStart,
       D!BeginStart, R!BeginStart, D!MakeVolume, R!MakeVolume,
       D!NameTaken, R!NameTaken, D!Create, R!Create,
       D!CreateTracer, R!CreateTracer, D!CreateTarget, R!CreateTarget,
       D!StartTracer, R!StartTracer, D!StartTarget, R!StartTarget,
       D!StageFails, R!StageFails, D!StartFails, R!StartFails,
       D!ToStop, R!ToStop, D!StageOf, R!StageOf, D!StopStages, R!StopStages,
       D!BeginStop, R!BeginStop, D!StoppedByDocker, R!StoppedByDocker,
       D!StoppedBySimulator, R!StoppedBySimulator, D!Stopped, R!Stopped,
       D!RemovedByDocker, R!RemovedByDocker,
       D!RemovedBySimulator, R!RemovedBySimulator, D!Removed, R!Removed,
       D!StopContainer, R!StopContainer,
       D!RemoveContainer, R!RemoveContainer, D!StopDone, R!StopDone,
       D!MayFollow, R!MayFollow, D!WantChanges, R!WantChanges, D!Exit, R!Exit,
       D!FileMDTakes, R!FileMDTakes, D!Crash, R!Crash,
       D!DaemonStep, R!DaemonStep, D!Next, R!Next

LEMMA SameSpec == D!Spec => R!Spec
<1>1. D!Init => R!Init
  BY DEF D!Init, R!Init, D!Kinds, R!Kinds, D!NoEvents, R!NoEvents
<1>2. UNCHANGED (D!vars) => UNCHANGED (R!vars)
  BY DEF D!vars, R!vars, D!env, R!env, D!history, R!history
<1>3. [D!Next]_(D!vars) => [R!Next]_(R!vars)
  BY <1>2, SameNext
<1>4. QED
  BY <1>1, <1>3, PTL DEF D!Spec, R!Spec

LEMMA StepIsDockerds ==
  ASSUME IInv, [SystemNext]_systemVars
  PROVE  [R!Next]_(R!vars)
<1>1. UNCHANGED (D!vars) => UNCHANGED (R!vars)
  BY DEF D!vars, R!vars, D!env, R!env, D!history, R!history
<1>2. QED
  BY <1>1, StepImplementsDockerd, SameNext

LEMMA SystemSpecIsDockerds == SystemSpec => R!Spec
BY SystemImplementsDockerd, SameSpec DEF ImplementsDockerd

\* While a target runs its directory is locked, whatever the API orders.
THEOREM SystemLocks == SystemSpec => []LockedWhileTargetRuns
<1>1. R!Spec => []R!LockedWhileTargetRuns
  BY R!LockHolds, DockerdAssumption DEF D!Operations, R!Operations
<1>2. R!LockedWhileTargetRuns => LockedWhileTargetRuns
  BY DEF R!LockedWhileTargetRuns, LockedWhileTargetRuns, D!LockedWhileTargetRuns
<1>3. QED
  BY SystemSpecIsDockerds, <1>1, <1>2, PTL

\* With the simulator the API is told of every target there is, so that it
\* never takes one that runs for one that is still to be started.
THEOREM SystemHidesNoTarget ==
  ASSUME Runtime = "simulator"
  PROVE  SystemSpec => []ReportCoversTargets
<1>1. R!InspectTellsLabels /\ "inspect" \notin Failures
  BY DockerdAssumption
     DEF R!InspectTellsLabels, R!SimulatorTellsLabels, R!DockerTellsLabels
<1>2. R!Spec => []R!ReportCoversTargets
  BY <1>1, R!NoTargetIsHidden, DockerdAssumption DEF D!Operations, R!Operations
<1>3. R!ReportCoversTargets => ReportCoversTargets
  BY DEF R!ReportCoversTargets, ReportCoversTargets, D!ReportCoversTargets
<1>4. QED
  BY SystemSpecIsDockerds, <1>2, <1>3, PTL

\* When files can be written, what the API learns to be over is open to FileMD.
THEOREM SystemEndsUnlocked ==
  ASSUME "files" \notin Failures
  PROVE  SystemSpec => []EndedIsUnlocked
<1>1. R!Spec => []R!EndedIsUnlocked
  BY R!EndIsToldAfterUnlock, DockerdAssumption DEF D!Operations, R!Operations
<1>2. R!EndedIsUnlocked => EndedIsUnlocked
  BY DEF R!EndedIsUnlocked, EndedIsUnlocked, D!EndedIsUnlocked
<1>3. QED
  BY SystemSpecIsDockerds, <1>1, <1>2, PTL
-----------------------------------------------------------------------------
\* What travels between the two keeps its shape.
Packets == [events : [Sessions -> D!Reports \cup {"none"}], awaited : BOOLEAN]

LinkShapes ==
  /\ wire = {} \/ \E p \in Packets : wire = {p}
  /\ held \in [Handlers -> Packets]
  /\ restarts \in 0..MaxRestarts
  /\ forgotten \subseteq Sessions

\* A handler counts the events it has before it.
CountsInv ==
  \A h \in Handlers : /\ zmq[h].left = Cardinality(EventsOf(held[h]))
                      /\ zmq[h].pc = "idle" => held[h] = NoPacket

LEMMA PacketFacts ==
  /\ NoPacket \in Packets /\ GivenUp(NoPacket) = NoPacket
  /\ \A s \in Sessions : NoPacket.events[s] = "none"
  /\ EventsOf(NoPacket) = {}
  /\ \A p \in Packets :
       /\ GivenUp(p) \in Packets
       /\ GivenUp(p).events = p.events /\ EventsOf(GivenUp(p)) = EventsOf(p)
<1>1. NoPacket \in Packets
  BY DEF NoPacket, Packets
<1>2. GivenUp(NoPacket) = NoPacket
  <2>1. /\ DOMAIN NoPacket = {"events", "awaited"}
        /\ NoPacket.awaited = FALSE
    BY DEF NoPacket
  <2>2. NoPacket = [events |-> NoPacket.events, awaited |-> FALSE]
    BY Zenon DEF NoPacket
  <2>3. QED
    BY <2>1, <2>2 DEF GivenUp
<1>3. \A s \in Sessions : NoPacket.events[s] = "none"
  BY DEF NoPacket
<1>4. EventsOf(NoPacket) = {}
  BY <1>3 DEF EventsOf
<1>5. ASSUME NEW p \in Packets
      PROVE  GivenUp(p) \in Packets /\ GivenUp(p).events = p.events
  BY DEF Packets, GivenUp
<1>6. \A p \in Packets : EventsOf(GivenUp(p)) = EventsOf(p)
  BY <1>5 DEF EventsOf
<1>7. QED
  BY <1>1, <1>2, <1>3, <1>4, <1>5, <1>6

LEMMA ReadEventFacts ==
  ASSUME LinkShapes, NEW h \in Handlers, ReadEvent(h)
  PROVE  \E s \in EventsOf(held[h]) :
           /\ \/ EventRead(h, s, held[h].events[s])
              \/ EventSkip(h, s, held[h].events[s])
           /\ held' \in [Handlers -> Packets]
           /\ held'[h].events = [held[h].events EXCEPT ![s] = "none"]
           /\ held'[h].awaited = held[h].awaited
           /\ \A g \in Handlers : g # h => held'[g] = held[g]
<1>1. PICK s \in EventsOf(held[h]) :
        /\ \/ EventRead(h, s, held[h].events[s])
           \/ EventSkip(h, s, held[h].events[s])
        /\ held' = [held EXCEPT ![h].events[s] = "none"]
  BY DEF ReadEvent
<1>2. s \in Sessions
  BY DEF EventsOf
<1>3. QED
  BY <1>1, <1>2 DEF LinkShapes, Packets

LEMMA StepShapes ==
  ASSUME R!TypeInv, LinkShapes, [SystemNext]_systemVars
  PROVE  LinkShapes'
<1> USE PacketFacts DEF LinkShapes
<1>1. CASE ApiRestarts
  BY <1>1, MaxRestartsAssumption DEF ApiRestarts, Packets, D!Reports
<1>2. ASSUME UNCHANGED <<restarts, forgotten>>,
             wire' = {} \/ \E p \in Packets : wire' = {p},
             held' \in [Handlers -> Packets]
      PROVE  LinkShapes'
  BY <1>2 DEF Packets, D!Reports
<1>3. ASSUME NEW h \in Handlers, ReadEvent(h) PROVE LinkShapes'
  <2>1. UNCHANGED <<wire, restarts, forgotten>>
    BY <1>3 DEF ReadEvent
  <2>2. QED
    BY <1>2, <1>3, <2>1, ReadEventFacts
<1>4. ASSUME NEW h \in Handlers, SaveEvent(h) \/ Answer(h) \/ AnswerLost(h)
      PROVE  LinkShapes'
  BY <1>2, <1>4 DEF SaveEvent, Answer, AnswerLost, linkVars
<1>5. ASSUME NEW h \in Handlers, NEW d \in Dockerds, Arrive(h, d)
      PROVE  LinkShapes'
  BY <1>2, <1>5 DEF Arrive
<1>6. CASE Timeout \/ Crash
  BY <1>2, <1>6 DEF Timeout, Crash, NobodyWaits
<1>7. CASE Poll
  <2>1. Packet(TRUE) \in Packets
    BY DEF Packet, Packets, R!TypeInv, R!TypeOK, R!Reports, D!Reports
  <2>2. QED
    BY <1>2, <1>7, <2>1 DEF Poll
<1>8. CASE UNCHANGED linkVars
  BY <1>2, <1>8 DEF linkVars
<1>9. QED
  BY <1>1, <1>3, <1>4, <1>5, <1>6, <1>7, <1>8
     DEF SystemNext, Request, Work, Handle, DaemonNext, DaemonAlone,
         Surroundings, systemVars

LEMMA StepCounts ==
  ASSUME IsFiniteSet(Sessions), IInv, LinkShapes, CountsInv,
         [SystemNext]_systemVars
  PROVE  CountsInv'
<1> DEFINE Good(z, p) == /\ z.left = Cardinality(EventsOf(p))
                         /\ z.pc = "idle" => p = NoPacket
<1>1. /\ zmq \in [Handlers -> [pc : {"idle", "events", "save"},
                               dockerd : Dockerds \cup {NoDockerd},
                               left : 0..MaxEvents,
                               copy : Session \cup {NoSession},
                               event : Reports]]
      /\ held \in [Handlers -> Packets]
  BY DEF IInv, TypeOK, LinkShapes
<1>2. Good(IdleHandler, NoPacket)
  BY PacketFacts, FS_EmptySet DEF IdleHandler
<1>3. ASSUME NEW h \in Handlers, Good(zmq'[h], held'[h]),
             \A g \in Handlers :
               g # h => zmq'[g] = zmq[g] /\ held'[g] = held[g]
      PROVE  CountsInv'
  <2>1. \A g \in Handlers : Good(zmq'[g], held'[g])
    BY <1>3, Zenon DEF CountsInv
  <2>2. QED
    BY <2>1, Zenon DEF CountsInv, EventsOf, NoPacket
<1>4. ASSUME NEW h \in Handlers, ReadEvent(h) PROVE CountsInv'
  <2>1. PICK s \in EventsOf(held[h]) :
          /\ \/ EventRead(h, s, held[h].events[s])
             \/ EventSkip(h, s, held[h].events[s])
          /\ held'[h].events = [held[h].events EXCEPT ![s] = "none"]
          /\ \A g \in Handlers : g # h => held'[g] = held[g]
    BY <1>4, ReadEventFacts DEF LinkShapes
  <2>2. EventsOf(held'[h]) = EventsOf(held[h]) \ {s}
    BY <1>1, <2>1 DEF EventsOf, Packets
  <2>3. IsFiniteSet(EventsOf(held[h]))
    BY FS_Subset DEF EventsOf
  <2>4. Cardinality(EventsOf(held'[h])) = Cardinality(EventsOf(held[h])) - 1
    BY <2>1, <2>2, <2>3, FS_RemoveElement
  <2>5. /\ zmq'[h].left = zmq[h].left - 1 /\ zmq'[h].pc # "idle"
        /\ \A g \in Handlers : g # h => zmq'[g] = zmq[g]
    BY <1>1, <2>1 DEF EventRead, EventSkip, Applying, Serving
  <2>6. QED
    BY <1>3, <2>1, <2>4, <2>5 DEF CountsInv
<1>5. ASSUME NEW h \in Handlers, SaveEvent(h) PROVE CountsInv'
  <2>1. /\ zmq'[h].left = zmq[h].left /\ zmq'[h].pc # "idle" /\ held' = held
        /\ \A g \in Handlers : g # h => zmq'[g] = zmq[g]
    BY <1>1, <1>5 DEF SaveEvent, EventSave, Serving, linkVars
  <2>2. QED
    BY <1>3, <2>1 DEF CountsInv
<1>6. ASSUME NEW h \in Handlers, Answer(h) \/ AnswerLost(h) PROVE CountsInv'
  <2>1. zmq' = [zmq EXCEPT ![h] = IdleHandler] /\ held' = [held EXCEPT ![h] = NoPacket]
    BY <1>6 DEF Answer, AnswerLost, Reply
  <2>2. QED
    BY <1>1, <1>2, <1>3, <2>1
<1>7. ASSUME NEW h \in Handlers, NEW d \in Dockerds, Arrive(h, d)
      PROVE  CountsInv'
  <2>1. PICK p \in wire, n \in 0..MaxEvents :
          /\ zmq' = [zmq EXCEPT ![h] = Serving(d, n)]
          /\ zmq'[h].left = Cardinality(EventsOf(p))
          /\ held' = [held EXCEPT ![h] = p]
    BY <1>7 DEF Arrive, Receive
  <2>2. zmq'[h].pc # "idle" /\ held'[h] = p
    BY <1>1, <2>1 DEF Serving
  <2>3. QED
    BY <1>1, <1>3, <2>1, <2>2
<1>8. CASE ApiRestarts
  BY <1>2, <1>8 DEF ApiRestarts, CountsInv, EventsOf, NoPacket
<1>9. CASE NobodyWaits /\ zmq' = zmq
  <2>1. \A h \in Handlers : EventsOf(held'[h]) = EventsOf(held[h])
                            /\ (held[h] = NoPacket => held'[h] = NoPacket)
    BY <1>1, <1>9, PacketFacts DEF NobodyWaits
  <2>2. QED
    BY <1>9, <2>1 DEF CountsInv, EventsOf, NoPacket
<1>10. CASE UNCHANGED <<zmq, held>>
  BY <1>10 DEF CountsInv, EventsOf, NoPacket
<1>11. QED
  BY <1>4, <1>5, <1>6, <1>7, <1>8, <1>9, <1>10
     DEF SystemNext, Request, CreateBegin, UpdateRead, ClientSave, CreateEnd,
         UpdateSave, Work, WorkerNext, ExpireTick, ExpireSave, RemoveTick,
         RemoveSave, DockerdSilent, apiVars, TtlPasses, Handle, DaemonNext,
         DaemonAlone, Surroundings, Timeout, Crash, Poll, vars, linkVars,
         systemVars

LEMMA InitLink == SystemInit => LinkShapes /\ CountsInv
<1> SUFFICES ASSUME SystemInit PROVE LinkShapes /\ CountsInv
  OBVIOUS
<1>1. /\ zmq = [h \in Handlers |-> IdleHandler]
      /\ held = [h \in Handlers |-> NoPacket]
      /\ wire = {} /\ restarts = 0 /\ forgotten = {}
  BY DEF SystemInit, Init
<1>2. LinkShapes
  BY <1>1, PacketFacts, MaxRestartsAssumption DEF LinkShapes
<1>3. IdleHandler.left = Cardinality(EventsOf(NoPacket))
  BY PacketFacts, FS_EmptySet DEF IdleHandler
<1>4. CountsInv
  BY <1>1, <1>3 DEF CountsInv
<1>5. QED
  BY <1>2, <1>4

\* The type of the composition, for every finite set of sessions: a handler is
\* done with a packet when it has dealt with the events the packet carried.
THEOREM SystemTypeCorrect ==
  ASSUME IsFiniteSet(Sessions)
  PROVE  SystemSpec => []SystemTypeOK
<1>1. R!Spec => [](R!TypeInv /\ R!EndedIsSilent)
  BY R!ReportedEndIsFinal, DockerdAssumption DEF D!Operations, R!Operations
<1>2. SystemInit => LinkShapes /\ CountsInv
  BY InitLink
<1>3. IInv /\ R!TypeInv /\ LinkShapes /\ CountsInv /\ [SystemNext]_systemVars
        => LinkShapes' /\ CountsInv'
  BY StepShapes, StepCounts
<1>4. IInv /\ R!TypeInv /\ LinkShapes /\ CountsInv => SystemTypeOK
  <2> SUFFICES ASSUME IInv, R!TypeInv, LinkShapes, CountsInv
               PROVE  SystemTypeOK
    OBVIOUS
  <2>1. TypeOK
    BY DEF IInv
  <2>2. D!TypeOK
    BY DEF R!TypeInv, R!TypeOK, D!TypeOK, R!Kinds, D!Kinds, R!ContainerState,
           D!ContainerState, R!VolumeState, D!VolumeState, R!StartStages,
           D!StartStages, R!StopStages, D!StopStages, R!Reports, D!Reports,
           R!Orders, D!Orders
  <2>3. Cardinality(wire) <= 1
    BY FS_EmptySet, FS_Singleton DEF LinkShapes
  <2>4. QED
    BY <2>1, <2>2, <2>3 DEF SystemTypeOK, LinkShapes, CountsInv, Packets
<1>5. QED
  BY SystemInvariance, SystemSpecIsDockerds, <1>1, <1>2, <1>3, <1>4, PTL
     DEF SystemSpec
-----------------------------------------------------------------------------
\* The sessions that are over: no target runs and none is going to.
Over == {s \in Sessions : R!Silent(s)}

\* Whoever says that a session has ended, now or later, is right: the packets
\* under way and at the handlers, the copies that were read, the store.
PacketsTellTruth ==
  \A s \in Sessions :
    /\ \A p \in wire : p.events[s] = "session_end" => s \in Over
    /\ \A h \in Handlers : held[h].events[s] = "session_end" => s \in Over

CopiesTellTruth ==
  /\ \A h \in Handlers :
       zmq[h].pc = "save" /\ ( \/ zmq[h].event = "session_end"
                               \/ zmq[h].copy.status = "finished" )
         => zmq[h].copy.id \in Over
  /\ \A r \in removing : r.status = "finished" => r.id \in Over
  /\ \A c \in Clients : http[c].pc = "update" => http[c].want # "finished"

StoreTellsTruth ==
  \A s \in Sessions : HasStatus(s, "finished") => s \in Over

TruthInv == LinkShapes /\ PacketsTellTruth /\ CopiesTellTruth /\ StoreTellsTruth

\* What the daemon knows to be over stays so, and that is all it reports.
LEMMA OverStays ==
  ASSUME IInv, R!TypeInv, [SystemNext]_systemVars
  PROVE  Over \subseteq Over'
<1>1. [R!Next]_(R!vars)
  BY StepIsDockerds
<1>2. \A s \in Sessions : R!Silent(s) => R!Silent(s)'
  BY <1>1, R!StepSilent, DockerdAssumption DEF D!Operations, R!Operations
<1>3. QED
  BY <1>2 DEF Over

LEMMA StepPackets ==
  ASSUME IInv, R!TypeInv, R!EndedIsSilent, TruthInv, [SystemNext]_systemVars
  PROVE  PacketsTellTruth'
<1> USE PacketFacts DEF TruthInv, PacketsTellTruth
<1>1. Over \subseteq Over'
  BY OverStays
<1>2. held \in [Handlers -> Packets] /\ wire \subseteq Packets
  BY DEF LinkShapes
<1>3. ASSUME \A s \in Sessions :
               /\ \A p \in wire' : p.events[s] = "session_end" => s \in Over
               /\ \A h \in Handlers :
                    held'[h].events[s] = "session_end" => s \in Over
      PROVE  PacketsTellTruth'
  BY <1>1, <1>3
<1>4. CASE UNCHANGED <<wire, held>>
  BY <1>3, <1>4
<1>5. CASE ApiRestarts
  BY <1>3, <1>5 DEF ApiRestarts
<1>6. ASSUME NEW h \in Handlers, Answer(h) \/ AnswerLost(h)
      PROVE  PacketsTellTruth'
  BY <1>2, <1>3, <1>6 DEF Answer, AnswerLost
<1>7. ASSUME NEW h \in Handlers, ReadEvent(h) PROVE PacketsTellTruth'
  <2>1. PICK s \in EventsOf(held[h]) :
          /\ held'[h].events = [held[h].events EXCEPT ![s] = "none"]
          /\ \A g \in Handlers : g # h => held'[g] = held[g]
    BY <1>7, ReadEventFacts
  <2>2. \A g \in Handlers, t \in Sessions :
          held'[g].events[t] = held[g].events[t] \/ held'[g].events[t] = "none"
    BY <1>2, <2>1 DEF Packets
  <2>3. wire' = wire
    BY <1>7 DEF ReadEvent
  <2>4. QED
    BY <1>3, <2>2, <2>3
<1>8. ASSUME NEW h \in Handlers, NEW d \in Dockerds, Arrive(h, d)
      PROVE  PacketsTellTruth'
  BY <1>2, <1>3, <1>8 DEF Arrive
<1>9. CASE NobodyWaits
  BY <1>2, <1>3, <1>9 DEF NobodyWaits
<1>10. CASE Poll
  BY <1>3, <1>10 DEF Poll, Packet, R!EndedIsSilent, Over
<1>11. QED
  BY <1>4, <1>5, <1>6, <1>7, <1>8, <1>9, <1>10
     DEF SystemNext, Request, Work, SaveEvent, Handle, DaemonNext, DaemonAlone,
         Surroundings, Timeout, Crash, linkVars, systemVars

LEMMA StepCopies ==
  ASSUME IInv, R!TypeInv, TruthInv, "finished" \notin Requests,
         [SystemNext]_systemVars
  PROVE  CopiesTellTruth'
<1>1. Over \subseteq Over'
  BY OverStays
<1>2. /\ \A h \in Handlers : zmq[h].pc = "save" => zmq[h].copy.id \in Sessions
      /\ \A r \in removing : r.id \in Sessions
  BY DEF IInv, CopiesAreGood, GoodCopy, Session
<1>3. \A s \in Sessions :
        store[s] # NoSession
          => store[s].id = s
             /\ (store[s].status = "finished" => s \in Over)
  BY DEF IInv, IndexLeadsToRecord, TruthInv, StoreTellsTruth, HasStatus
<1>4. /\ http \in [Clients -> [pc : {"idle", "create", "update"},
                               copy : Session \cup {NoSession},
                               want : SessionStatus]]
      /\ zmq \in [Handlers -> [pc : {"idle", "events", "save"},
                               dockerd : Dockerds \cup {NoDockerd},
                               left : 0..MaxEvents,
                               copy : Session \cup {NoSession},
                               event : Reports]]
  BY DEF IInv, TypeOK
<1>5. \A h \in Handlers :
        zmq'[h].pc = "save" /\ ( \/ zmq'[h].event = "session_end"
                                 \/ zmq'[h].copy.status = "finished" )
          => zmq'[h].copy.id \in Over'
  <2> SUFFICES ASSUME NEW h \in Handlers, zmq'[h].pc = "save",
                      \/ zmq'[h].event = "session_end"
                      \/ zmq'[h].copy.status = "finished"
               PROVE  zmq'[h].copy.id \in Over'
    OBVIOUS
  <2>1. CASE zmq'[h] = zmq[h]
    BY <1>1, <1>2, <2>1 DEF TruthInv, CopiesTellTruth
  <2>2. ASSUME ReadEvent(h), zmq'[h] # zmq[h]
        PROVE  zmq'[h].copy.id \in Over'
    <3>1. PICK s \in Sessions : \/ EventRead(h, s, held[h].events[s])
                                \/ EventSkip(h, s, held[h].events[s])
      BY <2>2 DEF ReadEvent, EventsOf
    <3>2. CASE EventSkip(h, s, held[h].events[s])
      BY <1>4, <3>2 DEF EventSkip, Serving
    <3>3. CASE EventRead(h, s, held[h].events[s])
      <4>1. /\ zmq'[h].copy = store[s] /\ zmq'[h].event = held[h].events[s]
            /\ store[s] # NoSession
        BY <1>4, <3>3 DEF EventRead, Applying, Owned, Found
      <4>2. s \in Over
        BY <1>3, <4>1 DEF TruthInv, PacketsTellTruth
      <4>3. zmq'[h].copy.id = s
        BY <1>3, <4>1
      <4>4. QED
        BY <1>1, <4>2, <4>3
    <3>4. QED
      BY <3>1, <3>2, <3>3
  <2>3. ASSUME NEW g \in Handlers, ReadEvent(g), g # h
        PROVE  zmq'[h] = zmq[h]
    BY <1>4, <2>3 DEF ReadEvent, EventRead, EventSkip
  <2>4. ASSUME NEW g \in Handlers,
               SaveEvent(g) \/ Answer(g) \/ AnswerLost(g)
                 \/ \E d \in Dockerds : Arrive(g, d)
        PROVE  zmq'[h] = zmq[h]
    BY <1>4, <2>4 DEF SaveEvent, EventSave, Answer, AnswerLost, Reply, Arrive,
                      Receive, Serving, IdleHandler
  <2>5. CASE ApiRestarts
    BY <2>5 DEF ApiRestarts, IdleHandler
  <2>6. CASE UNCHANGED zmq
    BY <2>1, <2>6
  <2>7. QED
    BY <2>1, <2>2, <2>3, <2>4, <2>5, <2>6
       DEF SystemNext, Request, CreateBegin, UpdateRead, ClientSave, CreateEnd,
           UpdateSave, Work, WorkerNext, ExpireTick, ExpireSave, RemoveTick,
           RemoveSave, DockerdSilent, apiVars, TtlPasses, Handle, DaemonNext,
           DaemonAlone, Surroundings, Timeout, Crash, Poll, vars, systemVars
<1>6. \A r \in removing' : r.status = "finished" => r.id \in Over'
  <2>1. CASE removing' \subseteq removing
    BY <1>1, <1>2, <2>1 DEF TruthInv, CopiesTellTruth
  <2>2. CASE RemoveTick
    BY <1>1, <1>3, <2>2 DEF RemoveTick, ListSessions
  <2>3. QED
    BY <2>1, <2>2
       DEF SystemNext, Request, CreateBegin, UpdateRead, ClientSave, CreateEnd,
           UpdateSave, Work, WorkerNext, ExpireTick, ExpireSave,
           RemoveSave, DockerdSilent, apiVars, TtlPasses, Handle, ReadEvent,
           EventRead, EventSkip, SaveEvent, EventSave, Answer, AnswerLost,
           Reply, Arrive, Receive, ApiRestarts, DaemonNext, DaemonAlone,
           Surroundings, Timeout, Crash, Poll, vars, systemVars
<1>7. \A c \in Clients : http'[c].pc = "update" => http'[c].want # "finished"
  <2>1. ASSUME NEW c \in Clients, NEW s \in Sessions, NEW w \in Requests,
               UpdateRead(c, s, w)
        PROVE  \A b \in Clients : http'[b].pc = "update" => http'[b].want # "finished"
    BY <1>4, <2>1 DEF UpdateRead, Updating, TruthInv, CopiesTellTruth
  <2>2. ASSUME NEW c \in Clients,
               ClientSave(c) \/ \E s \in Sessions, d \in Dockerds :
                                  CreateBegin(c, s, d)
        PROVE  \A b \in Clients : http'[b].pc = "update" => http'[b].want # "finished"
    BY <1>4, <2>2
       DEF ClientSave, CreateEnd, UpdateSave, CreateBegin, IdleClient, Creating,
           TruthInv, CopiesTellTruth
  <2>3. CASE ApiRestarts
    BY <2>3 DEF ApiRestarts, IdleClient
  <2>4. CASE UNCHANGED http
    BY <2>4 DEF TruthInv, CopiesTellTruth
  <2>5. QED
    BY <2>1, <2>2, <2>3, <2>4
       DEF SystemNext, Request, Work, WorkerNext, ExpireTick, ExpireSave,
           RemoveTick, RemoveSave, DockerdSilent, apiVars, TtlPasses, Handle,
           ReadEvent, EventRead, EventSkip, SaveEvent, EventSave, Answer,
           AnswerLost, Reply, Arrive, Receive, DaemonNext, DaemonAlone,
           Surroundings, Timeout, Crash, Poll, vars, systemVars
<1>8. QED
  BY <1>5, <1>6, <1>7 DEF CopiesTellTruth

\* A record is saved as finished only from a copy that was, or for a report
\* that says so.
LEMMA StepStore ==
  ASSUME IInv, R!TypeInv, TruthInv, [SystemNext]_systemVars
  PROVE  StoreTellsTruth'
<1>1. Over \subseteq Over'
  BY OverStays
<1>2. ASSUME NEW n \in Session, store' = [store EXCEPT ![n.id] = n],
             n.status = "finished" => n.id \in Over
      PROVE  StoreTellsTruth'
  BY <1>1, <1>2
     DEF IInv, TypeOK, TruthInv, StoreTellsTruth, HasStatus, Session
<1>3. CASE store' = store
  BY <1>1, <1>3 DEF TruthInv, StoreTellsTruth, HasStatus
<1>4. CASE ApiRestarts
  BY <1>4 DEF ApiRestarts, StoreTellsTruth, HasStatus
<1>5. ASSUME NEW c \in Clients, CreateEnd(c) PROVE StoreTellsTruth'
  BY <1>2, <1>5 DEF CreateEnd, SetRecord, IInv, CreatingIsFresh
<1>6. ASSUME NEW c \in Clients, UpdateSave(c) PROVE StoreTellsTruth'
  <2> DEFINE r == http[c].copy
             t == Transition(r.status, http[c].want)
  <2>1. GoodCopy(r) /\ http[c].want \in Successors(r.status)
    BY <1>6 DEF UpdateSave, IInv, CopiesAreGood
  <2>2. r \in Session /\ r.status \in SessionStatus
    BY <2>1 DEF GoodCopy, Session
  <2>3. t = http[c].want /\ t # "finished" /\ t \in SessionStatus
    BY <1>6, <2>1, SuccessorsFacts
       DEF Transition, UpdateSave, TruthInv, CopiesTellTruth
  <2>4. WithStatus(r, t) \in Session /\ WithStatus(r, t).status = t
    BY <2>2, <2>3 DEF WithStatus, Session
  <2>5. QED
    BY <1>2, <1>6, <2>3, <2>4 DEF UpdateSave, SaveSession, SetRecord
<1>7. ASSUME NEW h \in Handlers, EventSave(h) PROVE StoreTellsTruth'
  <2> DEFINE r == zmq[h].copy
             t == Transition(r.status, ReportedStatus(zmq[h].event))
  <2>1. r \in Session /\ r.status \in SessionStatus /\ zmq[h].event \in Reports
    BY <1>7 DEF EventSave, IInv, CopiesAreGood, GoodCopy, Session, TypeOK
  <2>2. t = "finished" => r.status = "finished" \/ zmq[h].event = "session_end"
    BY <2>1 DEF Transition, ReportedStatus, Reports
  <2>3. t \in SessionStatus
    BY <2>1, TransitionFacts
  <2>4. /\ WithStatus(r, t) \in Session
        /\ WithStatus(r, t).status = t /\ WithStatus(r, t).id = r.id
    BY <2>1, <2>3 DEF WithStatus, Session
  <2>5. t = "finished" => r.id \in Over
    BY <1>7, <2>2 DEF EventSave, TruthInv, CopiesTellTruth
  <2>6. QED
    BY <1>2, <1>7, <2>4, <2>5 DEF EventSave, SaveSession, SetRecord
<1>8. ASSUME NEW r \in expiring, ExpireSave(r) PROVE StoreTellsTruth'
  <2>1. /\ WithStatus(r, "stopped") \in Session
        /\ WithStatus(r, "stopped").status # "finished"
    BY DEF IInv, CopiesAreGood, GoodCopy, WithStatus, Session, SessionStatus
  <2>2. QED
    BY <1>2, <1>8, <2>1 DEF ExpireSave, SaveSession, SetRecord
<1>9. ASSUME NEW r \in removing, RemoveSave(r) PROVE StoreTellsTruth'
  <2>1. /\ MarkedDeleted(r) \in Session /\ MarkedDeleted(r).id = r.id
        /\ MarkedDeleted(r).status = r.status
    BY DEF IInv, CopiesAreGood, GoodCopy, MarkedDeleted, Session
  <2>2. QED
    BY <1>2, <1>9, <2>1
       DEF RemoveSave, SaveSession, SetRecord, TruthInv, CopiesTellTruth
<1>10. QED
  BY <1>3, <1>4, <1>5, <1>6, <1>7, <1>8, <1>9
     DEF SystemNext, Request, CreateBegin, UpdateRead, ClientSave, Work,
         WorkerNext, ExpireTick, RemoveTick, DockerdSilent, apiVars, TtlPasses,
         Handle, ReadEvent, EventRead, EventSkip, SaveEvent, Answer, AnswerLost,
         Reply, Arrive, Receive, DaemonNext, DaemonAlone, Surroundings, Timeout,
         Crash, Poll, vars, systemVars

LEMMA InitTruth == SystemInit => TruthInv
BY PacketFacts, MaxRestartsAssumption
   DEF SystemInit, Init, TruthInv, LinkShapes, PacketsTellTruth,
       CopiesTellTruth, StoreTellsTruth, HasStatus, IdleHandler, IdleClient

\* A session that the API shows as finished, when users may not say so, has no
\* target that runs or is going to, however late a packet arrives or a copy is
\* saved, over lost replies, crashes of the daemon and restarts of the API.
THEOREM FinishedIsOver == SystemSpec => []FinishedIsSilent
<1>1. R!Spec => [](R!TypeInv /\ R!EndedIsSilent)
  BY R!ReportedEndIsFinal, DockerdAssumption DEF D!Operations, R!Operations
<1>2. /\ "finished" \notin Requests
      /\ IInv /\ R!TypeInv /\ R!EndedIsSilent /\ TruthInv
      /\ [SystemNext]_systemVars
      => TruthInv'
  BY StepShapes, StepPackets, StepCopies, StepStore DEF TruthInv
<1>3. R!TypeInv /\ TruthInv => FinishedIsSilent
  <2> SUFFICES ASSUME R!TypeInv, TruthInv,
                      NEW s \in Sessions, HasStatus(s, "finished")
               PROVE  /\ box[s]["target"] # "running"
                      /\ inbox[s] # "session_start"
                      /\ ~(cur = s /\ pc \in D!StartStages)
    BY DEF FinishedIsSilent
  <2>1. R!Silent(s)
    BY DEF TruthInv, StoreTellsTruth, Over
  <2>2. QED
    BY <2>1 DEF R!Silent, R!MayStart, R!StartStages, D!StartStages
<1>4. CASE "finished" \in Requests
  <2>1. FinishedIsSilent
    BY <1>4 DEF FinishedIsSilent
  <2>2. QED
    BY <2>1, PTL
<1>5. CASE "finished" \notin Requests
  <2>1. /\ IInv /\ R!TypeInv /\ R!EndedIsSilent /\ TruthInv
        /\ [SystemNext]_systemVars
        => TruthInv'
    BY <1>2, <1>5
  <2>2. QED
    BY InitTruth, SystemInvariance, SystemSpecIsDockerds, <1>1, <1>3, <2>1, PTL
       DEF SystemSpec
<1>6. QED
  BY <1>4, <1>5
=============================================================================
