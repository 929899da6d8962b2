---------------------------- MODULE DockerdProofs ----------------------------
(***************************************************************************)
(* What DockerD does with the containers and the directory of a session    *)
(* over its life: its target is run once, the directory is locked          *)
(* meanwhile, and what was cleaned up stays so, for any number of          *)
(* sessions, any failures and any number of crashes.                       *)
(***************************************************************************)
EXTENDS Dockerd, TLAPS

\* The daemon is busy with the containers of cur, whose order is taken.
BusyStages == StartStages \cup StopStages
CurIsSession == pc \in BusyStages => cur \in Sessions /\ inbox[cur] = "none"

\* The targets still to be inspected are there.
ListedExist == pc = "report" => \A s \in todo : box[s]["target"] # "absent"

TypeInv == TypeOK /\ CurIsSession /\ ListedExist

LEMMA InitType == Init => TypeInv
<1>1. SUFFICES ASSUME Init PROVE TypeInv
  OBVIOUS
<1>2. TypeOK
  <2>1. remove \subseteq Kinds
    BY <1>1 DEF Init
  <2>2. box \in [Sessions -> [Kinds -> ContainerState]]
    BY <1>1 DEF Init, ContainerState
  <2>3. crashes \in 0..MaxCrashes
    BY <1>1, MaxCrashesAssumption DEF Init
  <2>4. QED
    BY <1>1, <2>1, <2>2, <2>3 DEF Init, TypeOK, NoEvents, VolumeState
<1>3. CurIsSession /\ ListedExist
  BY <1>1
     DEF Init, CurIsSession, BusyStages, StartStages, StopStages, ListedExist
<1>4. QED
  BY <1>2, <1>3 DEF TypeInv
-----------------------------------------------------------------------------
\* The steps of the loop that leave containers and directories alone.
LEMMA LoopType ==
  ASSUME TypeInv,
         \/ BeginPoll \/ SendReport \/ Reply \/ Timeout \/ SyncDone \/ StopDone
         \/ \E s \in Sessions : SkipStart(s) \/ BeginStart(s) \/ BeginStop(s)
  PROVE  TypeInv'
<1> USE DEF TypeInv, TypeOK, CurIsSession, BusyStages, StartStages, StopStages,
            ListedExist
<1>1. CASE BeginPoll
  BY <1>1 DEF BeginPoll, NoEvents, env, history
<1>2. CASE SendReport
  BY <1>2 DEF SendReport, env, history
<1>3. CASE Reply
  BY <1>3 DEF Reply, Orders, env, history
<1>4. CASE Timeout
  BY <1>4 DEF Timeout, env, history
<1>5. CASE SyncDone
  BY <1>5 DEF SyncDone, env, history
<1>6. CASE StopDone
  BY <1>6 DEF StopDone, env
<1>7. ASSUME NEW s \in Sessions, SkipStart(s) PROVE TypeInv'
  BY <1>7 DEF SkipStart, env, history
<1>8. ASSUME NEW s \in Sessions, BeginStart(s) PROVE TypeInv'
  BY <1>8 DEF BeginStart, env, history
<1>9. ASSUME NEW s \in Sessions, BeginStop(s) PROVE TypeInv'
  <2>1. left' \subseteq Kinds /\ remove' \subseteq Kinds
    BY <1>9 DEF BeginStop, ToStop, Existing
  <2>2. pc' \in {"sync", "stopping", "cleaning"} /\ (pc' # "sync" => cur' = s)
    BY <1>9 DEF BeginStop, StageOf
  <2>3. inbox' = [inbox EXCEPT ![s] = "none"] /\ cur' \in Sessions \cup {NoSession}
    BY <1>9 DEF BeginStop
  <2>4. UNCHANGED <<box, volume, todo, report, env, history>>
    BY <1>9 DEF BeginStop
  <2>5. QED
    BY <2>1, <2>2, <2>3, <2>4 DEF env, history
<1>10. QED
  BY <1>1, <1>2, <1>3, <1>4, <1>5, <1>6, <1>7, <1>8, <1>9

LEMMA InspectType ==
  ASSUME TypeInv, NEW s \in Sessions, Inspect(s)
  PROVE  TypeInv'
<1> USE DEF Inspect
<1>1. \A v \in VolumeState : Collected(v) \subseteq VolumeState
  BY DEF Collected, VolumeState
<1>2. volume' \in [Sessions -> VolumeState]
  BY <1>1 DEF TypeInv, TypeOK
<1>3. EventOf(box[s]["target"]) \in Reports
  BY DEF TypeInv, TypeOK, ListedExist, EventOf, Reports, ContainerState, Kinds
<1>4. QED
  BY <1>2, <1>3 DEF TypeInv, TypeOK, CurIsSession, ListedExist, env, history

\* A start, stage by stage.
LEMMA StartType ==
  ASSUME TypeInv,
         MakeVolume \/ CreateTracer \/ CreateTarget \/ StartTracer \/ StartTarget
  PROVE  TypeInv'
<1> USE DEF TypeInv, TypeOK, CurIsSession, BusyStages, StartStages, StopStages,
            ListedExist, env, history
<1>1. CASE MakeVolume
  BY <1>1 DEF MakeVolume, VolumeState
<1>2. CASE CreateTracer
  BY <1>2 DEF CreateTracer, Create, Kinds, ContainerState
<1>3. CASE CreateTarget
  BY <1>3 DEF CreateTarget, Create, Kinds, ContainerState
<1>4. CASE StartTracer
  BY <1>4 DEF StartTracer, Kinds, ContainerState
<1>5. CASE StartTarget
  BY <1>5 DEF StartTarget, Kinds, ContainerState
<1>6. QED
  BY <1>1, <1>2, <1>3, <1>4, <1>5

LEMMA StartFailsType ==
  ASSUME TypeInv, StartFails
  PROVE  TypeInv'
<1> USE DEF TypeInv, StartFails
<1>1. pc \in StartStages /\ cur \in Sessions /\ inbox[cur] = "none"
  BY DEF StageFails, StartStages, CurIsSession, BusyStages
<1>2. volume' \in [Sessions -> VolumeState]
  BY <1>1 DEF TypeOK, VolumeState
<1>3. ToStop(cur) \subseteq Kinds
  BY DEF ToStop, Existing
<1>4. left' \subseteq Kinds /\ remove' \subseteq Kinds /\ cur' \in Sessions \cup {NoSession}
  BY <1>3 DEF TypeOK
<1>5. pc' \in {"undoing", "sync"} /\ (pc' = "undoing" => cur' = cur)
  OBVIOUS
<1>6. QED
  BY <1>1, <1>2, <1>4, <1>5
     DEF TypeOK, CurIsSession, BusyStages, StartStages, StopStages, ListedExist,
         env

\* What stopping and removing leave of a container.
LEMMA StoppedStates ==
  \A c \in ContainerState :
    /\ Stopped(c) \subseteq ContainerState
    /\ Removed(c) \subseteq ContainerState
    /\ \A a \in Stopped(c) : a = "absent" <=> c = "absent"
    /\ "running" \in Stopped(c) \cup Removed(c) => c = "running"
    /\ Removed("absent") = {"absent"}
BY RuntimeAssumption
   DEF Stopped, StoppedByDocker, StoppedBySimulator, Removed, RemovedByDocker,
       RemovedBySimulator, ContainerState

\* What a call to stop or remove changes: one container of the session at hand,
\* which neither comes into being nor starts to run, and is not gone unless it
\* was to be removed.
LEMMA StopCall ==
  ASSUME TypeInv, NEW k \in Kinds, StopContainer(k) \/ RemoveContainer(k)
  PROVE  /\ pc \in StopStages /\ cur \in Sessions /\ inbox[cur] = "none"
         /\ box[cur][k] \in ContainerState
         /\ \E b \in ContainerState :
              /\ box' = [box EXCEPT ![cur][k] = b]
              /\ box[cur][k] = "absent" => b = "absent"
              /\ b = "running" => box[cur][k] = "running"
              /\ b = "absent" => box[cur][k] = "absent" \/ k \in remove
         /\ left' \subseteq left /\ remove' \subseteq remove
         /\ UNCHANGED <<volume, pc, todo, report, inbox, cur, env, history>>
<1>1. pc \in StopStages /\ UNCHANGED <<volume, pc, todo, report, inbox, cur, env, history>>
  BY DEF StopContainer, RemoveContainer
<1>2. cur \in Sessions /\ inbox[cur] = "none" /\ box[cur][k] \in ContainerState
  BY <1>1 DEF TypeInv, CurIsSession, BusyStages, TypeOK
<1>3. left' \subseteq left /\ remove' \subseteq remove
  BY DEF StopContainer, RemoveContainer
<1>4. CASE StopContainer(k)
  BY <1>1, <1>2, <1>3, <1>4, StoppedStates DEF StopContainer
<1>5. CASE RemoveContainer(k)
  BY <1>1, <1>2, <1>3, <1>5, StoppedStates DEF RemoveContainer
<1>6. QED
  BY <1>4, <1>5

LEMMA StopCallType ==
  ASSUME TypeInv, NEW k \in Kinds, StopContainer(k) \/ RemoveContainer(k)
  PROVE  TypeInv'
<1> USE DEF TypeInv
<1>1. PICK b \in ContainerState : /\ box' = [box EXCEPT ![cur][k] = b]
                                  /\ box[cur][k] = "absent" => b = "absent"
  BY StopCall
<1>2. cur \in Sessions /\ box' \in [Sessions -> [Kinds -> ContainerState]]
  BY <1>1, StopCall DEF TypeOK
<1>3. QED
  BY <1>2, StopCall
     DEF TypeOK, CurIsSession, ListedExist, BusyStages, StopStages, env, history

LEMMA AroundType ==
  ASSUME TypeInv,
         \/ WantChanges
         \/ \E s \in Sessions : FileMDTakes(s)
         \/ \E s \in Sessions, k \in Kinds : Exit(s, k)
         \/ Crash
         \/ UNCHANGED vars
  PROVE  TypeInv'
<1> USE DEF TypeInv, TypeOK, CurIsSession, BusyStages, StartStages, StopStages,
            ListedExist, env, history
<1>1. CASE WantChanges
  BY <1>1 DEF WantChanges
<1>2. ASSUME NEW s \in Sessions, FileMDTakes(s) PROVE TypeInv'
  BY <1>2 DEF FileMDTakes, VolumeState
<1>3. ASSUME NEW s \in Sessions, NEW k \in Kinds, Exit(s, k) PROVE TypeInv'
  BY <1>3 DEF Exit, Kinds, ContainerState
<1>4. CASE Crash
  <2>1. crashes' \in 0..MaxCrashes
    BY <1>4, MaxCrashesAssumption DEF Crash
  <2>2. box' \in [Sessions -> [Kinds -> ContainerState]]
    BY <1>4 DEF Crash, ContainerState
  <2>3. remove' \subseteq Kinds
    BY <1>4 DEF Crash
  <2>4. QED
    BY <1>4, <2>1, <2>2, <2>3 DEF Crash, NoEvents
<1>5. CASE UNCHANGED vars
  BY <1>5 DEF vars
<1>6. QED
  BY <1>1, <1>2, <1>3, <1>4, <1>5

LEMMA StepType == TypeInv /\ [Next]_vars => TypeInv'
<1>1. SUFFICES ASSUME TypeInv, [Next]_vars PROVE TypeInv'
  OBVIOUS
<1>2. CASE DaemonStep
  BY <1>1, <1>2, LoopType, InspectType, StartType, StartFailsType,
     StopCallType DEF DaemonStep
<1>3. CASE ~DaemonStep
  BY <1>1, <1>3, AroundType DEF Next
<1>4. QED
  BY <1>2, <1>3

\* Every variable of the daemon keeps its shape.
THEOREM DockerdTypeCorrect == Spec => []TypeOK
<1>1. TypeInv => TypeOK
  BY DEF TypeInv
<1>2. QED
  BY InitType, StepType, <1>1, PTL DEF Spec
-----------------------------------------------------------------------------
\* The session may still get an order to start, or has one to be carried out.
MayStart(s) ==
  want[s] \in {"new", "session_start"} \/ inbox[s] = "session_start"

\* Whatever is stopped or cleaned up is not to be started any more.
OrdersInv ==
  /\ \A s \in Sessions :
       inbox[s] \in {"session_stopped", "session_cleanup"}
         => want[s] \notin {"new", "session_start"}
  /\ pc \in {"stopping", "cleaning"} => want[cur] \notin {"new", "session_start"}

\* No step makes a session startable again that was not: only the API could,
\* and it does not (MayFollow).
LEMMA StepNoNewStart ==
  ASSUME TypeInv, Next, NEW s \in Sessions, MayStart(s)'
  PROVE  MayStart(s)
<1> USE DEF MayStart
<1>1. CASE Reply
  BY <1>1 DEF Reply, env, TypeInv, TypeOK
<1>2. CASE WantChanges
  BY <1>2 DEF WantChanges, MayFollow, Orders, TypeInv, TypeOK
<1>3. CASE Crash
  BY <1>3 DEF Crash, NoEvents
<1>4. ASSUME NEW t \in Sessions, SkipStart(t) \/ BeginStart(t) \/ BeginStop(t)
      PROVE MayStart(s)
  BY <1>4 DEF SkipStart, BeginStart, BeginStop, env, TypeInv, TypeOK
<1>5. ASSUME UNCHANGED <<want, inbox>> PROVE MayStart(s)
  BY <1>5
<1>6. QED
  BY <1>1, <1>2, <1>3, <1>4, <1>5
     DEF Next, DaemonStep, BeginPoll, Inspect, SendReport, Timeout, SyncDone,
         MakeVolume, CreateTracer, CreateTarget, Create, StartTracer,
         StartTarget, StartFails, StopContainer, RemoveContainer, StopDone,
         Exit, FileMDTakes, env

LEMMA StepOrders ==
  ASSUME TypeInv, OrdersInv, Next
  PROVE  OrdersInv'
<1> USE DEF OrdersInv
<1>1. CASE Reply
  BY <1>1 DEF Reply, env, TypeInv, TypeOK
<1>2. CASE WantChanges
  <2>1. \A s \in Sessions : want[s] \notin {"new", "session_start"}
          => want'[s] \notin {"new", "session_start"}
    BY <1>2 DEF WantChanges, MayFollow, Orders, TypeInv, TypeOK
  <2>2. pc \in {"stopping", "cleaning"} => cur \in Sessions
    BY DEF TypeInv, CurIsSession, BusyStages, StopStages
  <2>3. QED
    BY <1>2, <2>1, <2>2 DEF WantChanges
<1>3. CASE Crash
  BY <1>3 DEF Crash, NoEvents
<1>4. ASSUME NEW t \in Sessions, SkipStart(t) \/ BeginStart(t) PROVE OrdersInv'
  BY <1>4 DEF SkipStart, BeginStart, env, TypeInv, TypeOK
<1>5. ASSUME NEW t \in Sessions, BeginStop(t) PROVE OrdersInv'
  <2>1. want' = want /\ inbox' = [inbox EXCEPT ![t] = "none"]
    BY <1>5 DEF BeginStop, env
  <2>2. /\ inbox[t] \in {"session_stopped", "session_cleanup"}
        /\ pc' \in {"stopping", "cleaning"} => cur' = t
    BY <1>5 DEF BeginStop
  <2>3. QED
    BY <2>1, <2>2 DEF TypeInv, TypeOK
<1>6. ASSUME UNCHANGED <<want, inbox>>,
             pc' \in {"stopping", "cleaning"} => UNCHANGED <<pc, cur>>
      PROVE  OrdersInv'
  BY <1>6
<1>7. QED
  BY <1>1, <1>2, <1>3, <1>4, <1>5, <1>6
     DEF Next, DaemonStep, BeginPoll, Inspect, SendReport, Timeout, SyncDone,
         MakeVolume, CreateTracer, CreateTarget, Create, StartTracer,
         StartTarget, StartFails, StopContainer, RemoveContainer, StopDone,
         Exit, FileMDTakes, env
-----------------------------------------------------------------------------
\* A cleaned session has no container, no way to a start, and no start going on.
CleanInv ==
  \A s \in cleaned : /\ ~MayStart(s)
                     /\ \A k \in Kinds : box[s][k] = "absent"
                     /\ ~(pc \in StartStages /\ cur = s)

\* What no step brings back: a container of a session that is not being started.
LEMMA AbsentStays ==
  ASSUME TypeInv, Next, NEW s \in Sessions, NEW k \in Kinds,
         box[s][k] = "absent", ~(pc \in StartStages /\ cur = s)
  PROVE  box'[s][k] = "absent"
<1> USE DEF TypeInv, TypeOK, StartStages
<1>1. CASE CreateTracer \/ CreateTarget \/ StartTracer \/ StartTarget
  BY <1>1 DEF CreateTracer, CreateTarget, Create, StartTracer, StartTarget,
              CurIsSession, BusyStages, Kinds
<1>2. ASSUME NEW l \in Kinds, StopContainer(l) \/ RemoveContainer(l)
      PROVE  box'[s][k] = "absent"
  BY <1>2, StopCall
<1>3. ASSUME NEW t \in Sessions, NEW l \in Kinds, Exit(t, l)
      PROVE  box'[s][k] = "absent"
  BY <1>3 DEF Exit
<1>4. CASE Crash
  BY <1>4 DEF Crash
<1>5. CASE UNCHANGED box
  BY <1>5
<1>6. QED
  BY <1>1, <1>2, <1>3, <1>4, <1>5
     DEF Next, DaemonStep, BeginPoll, Inspect, SendReport, Reply, Timeout,
         SyncDone, SkipStart, BeginStart, BeginStop, MakeVolume, StartFails,
         StopDone, WantChanges, FileMDTakes

\* A start begins with an order, and is that session's alone.
LEMMA StartNeedsOrder ==
  ASSUME TypeInv, Next, NEW s \in Sessions, pc' \in StartStages, cur' = s
  PROVE  (pc \in StartStages /\ cur = s) \/ inbox[s] = "session_start"
BY DEF Next, DaemonStep, BeginPoll, Inspect, SendReport, Reply, Timeout,
       SyncDone, SkipStart, BeginStart, BeginStop, StageOf, MakeVolume,
       CreateTracer, CreateTarget, Create, StartTracer, StartTarget, StartFails,
       StageFails, StopContainer, RemoveContainer, StopDone, WantChanges, Exit,
       FileMDTakes, Crash, StartStages, env

LEMMA StepClean ==
  ASSUME TypeInv, OrdersInv, CleanInv, Next
  PROVE  CleanInv'
<1>1. SUFFICES ASSUME NEW s \in cleaned'
               PROVE  /\ ~MayStart(s)'
                      /\ \A k \in Kinds : box'[s][k] = "absent"
                      /\ ~(pc' \in StartStages /\ cur' = s)
  BY DEF CleanInv
<1>2. CASE s \in cleaned
  <2>1. s \in Sessions /\ ~MayStart(s)
    BY <1>2 DEF CleanInv, TypeInv, TypeOK
  <2>2. ~MayStart(s)'
    BY <2>1, StepNoNewStart
  <2>3. \A k \in Kinds : box'[s][k] = "absent"
    BY <1>2, <2>1, AbsentStays DEF CleanInv
  <2>4. ~(pc' \in StartStages /\ cur' = s)
    BY <1>2, <2>1, StartNeedsOrder DEF CleanInv, MayStart
  <2>5. QED
    BY <2>2, <2>3, <2>4
<1>3. CASE s \notin cleaned
  <2>1. StopDone /\ pc = "cleaning" /\ Existing(cur) = {} /\ s = cur
    BY <1>1, <1>3
       DEF Next, DaemonStep, BeginPoll, Inspect, SendReport, Reply, Timeout,
           SyncDone, SkipStart, BeginStart, BeginStop, MakeVolume, CreateTracer,
           CreateTarget, Create, StartTracer, StartTarget, StartFails,
           StopContainer, RemoveContainer, StopDone, WantChanges, Exit,
           FileMDTakes, Crash, history
  <2>2. s \in Sessions /\ ~MayStart(s)
    BY <2>1
       DEF TypeInv, CurIsSession, BusyStages, StopStages, OrdersInv, MayStart
  <2>3. ~MayStart(s)'
    BY <2>2, StepNoNewStart
  <2>4. QED
    BY <2>1, <2>3 DEF StopDone, Existing, StartStages
<1>4. QED
  BY <1>2, <1>3

\* After a cleanup that removed every container of a session, no step of the
\* daemon, whatever it was told before, makes a new one for it.
THEOREM CleanupIsFinal == Spec => []CleanedStaysClean
<1> DEFINE I == TypeInv /\ OrdersInv /\ CleanInv
<1>1. Init => I
  BY InitType DEF Init, OrdersInv, CleanInv, NoEvents
<1>2. I /\ [Next]_vars => I'
  <2>1. CASE Next
    BY <2>1, StepType, StepOrders, StepClean
  <2>2. CASE UNCHANGED vars
    BY <2>2, StepType
       DEF vars, env, history, OrdersInv, CleanInv, MayStart
  <2>3. QED
    BY <2>1, <2>2
<1>3. I => CleanedStaysClean
  BY DEF CleanInv, CleanedStaysClean, Existing
<1>4. QED
  BY <1>1, <1>2, <1>3, PTL DEF Spec
-----------------------------------------------------------------------------
\* The stages of a start follow each other, and it is the session's first.
StagesInOrder ==
  /\ pc = "createTarget" => box[cur]["tracer"] # "absent"
  /\ pc \in {"startTracer", "startTarget"} =>
       \A k \in Kinds : box[cur][k] # "absent"

FirstStart == pc \in StartStages \cup {"undoing"} => runs[cur] = 0

\* A session that has run and may still be ordered to start has both of its
\* containers, which is what the order is skipped for.
RunHasContainers ==
  \A s \in Sessions :
    /\ runs[s] <= 1
    /\ runs[s] > 0 /\ MayStart(s) => \A k \in Kinds : box[s][k] # "absent"

RunsInv == StagesInOrder /\ FirstStart /\ RunHasContainers

\* What exists is only removed by a stop or an undoing of its session; under
\* Docker a crash leaves it.
LEMMA ExistingStays ==
  ASSUME Runtime = "docker", TypeInv, Next,
         NEW s \in Sessions, NEW k \in Kinds, box[s][k] # "absent",
         ~(pc \in StopStages /\ cur = s)
  PROVE  box'[s][k] # "absent"
<1> USE DEF TypeInv, TypeOK
<1>1. CASE CreateTracer \/ CreateTarget \/ StartTracer \/ StartTarget
  BY <1>1 DEF CreateTracer, CreateTarget, Create, StartTracer, StartTarget,
              CurIsSession, BusyStages, StartStages, Kinds
<1>2. ASSUME NEW l \in Kinds, StopContainer(l) \/ RemoveContainer(l)
      PROVE  box'[s][k] # "absent"
  BY <1>2, StopCall
<1>3. ASSUME NEW t \in Sessions, NEW l \in Kinds, Exit(t, l)
      PROVE  box'[s][k] # "absent"
  BY <1>3 DEF Exit
<1>4. CASE Crash
  BY <1>4 DEF Crash
<1>5. CASE UNCHANGED box
  BY <1>5
<1>6. QED
  BY <1>1, <1>2, <1>3, <1>4, <1>5
     DEF Next, DaemonStep, BeginPoll, Inspect, SendReport, Reply, Timeout,
         SyncDone, SkipStart, BeginStart, BeginStop, MakeVolume, StartFails,
         StopDone, WantChanges, FileMDTakes

LEMMA StepStages ==
  ASSUME Runtime = "docker", TypeInv, StagesInOrder, Next
  PROVE  StagesInOrder'
<1> USE DEF StagesInOrder
<1>1. pc \in StartStages => cur \in Sessions
  BY DEF TypeInv, CurIsSession, BusyStages
<1>2. CASE CreateTracer
  BY <1>1, <1>2 DEF CreateTracer, Create, StartStages, TypeInv, TypeOK, Kinds
<1>3. CASE CreateTarget
  BY <1>1, <1>3 DEF CreateTarget, Create, StartStages, TypeInv, TypeOK, Kinds
<1>4. ASSUME pc' \in {"createTarget", "startTracer", "startTarget"},
             ~CreateTracer, ~CreateTarget
      PROVE  /\ cur' = cur /\ pc \in StartStages
             /\ pc' = pc \/ (pc = "startTracer" /\ pc' = "startTarget")
  BY <1>4
     DEF Next, DaemonStep, BeginPoll, Inspect, SendReport, Reply, Timeout,
         SyncDone, SkipStart, BeginStart, BeginStop, StageOf, MakeVolume,
         StartTracer, StartTarget, StartFails, StopContainer, RemoveContainer,
         StopDone, WantChanges, Exit, FileMDTakes, Crash, StartStages, env
<1>5. ASSUME ~CreateTracer, ~CreateTarget PROVE StagesInOrder'
  BY <1>1, <1>4, <1>5, ExistingStays DEF StartStages, StopStages, Kinds
<1>6. QED
  BY <1>2, <1>3, <1>5

LEMMA StepFirstStart ==
  ASSUME TypeInv, FirstStart, RunHasContainers, Next
  PROVE  FirstStart'
<1> USE DEF FirstStart
<1>1. ASSUME NEW s \in Sessions, BeginStart(s) PROVE FirstStart'
  <2>1. runs[s] \in 0..2 /\ ~(runs[s] > 0)
    BY <1>1
       DEF BeginStart, AlreadyStarted, Existing, RunHasContainers, MayStart,
           TypeInv, TypeOK
  <2>2. QED
    BY <1>1, <2>1 DEF BeginStart, history
<1>2. CASE StartTarget
  BY <1>2 DEF StartTarget, StartStages
<1>3. CASE \E s \in Sessions : BeginStop(s)
  BY <1>3 DEF BeginStop, StageOf, StartStages, history
<1>4. CASE StartFails
  BY <1>4 DEF StartFails, StageFails, StartStages
<1>5. ASSUME runs' = runs,
             pc' \in StartStages \cup {"undoing"}
               => cur' = cur /\ pc \in StartStages \cup {"undoing"}
      PROVE  FirstStart'
  BY <1>5
<1>6. QED
  BY <1>1, <1>2, <1>3, <1>4, <1>5
     DEF Next, DaemonStep, BeginPoll, Inspect, SendReport, Reply, Timeout,
         SyncDone, SkipStart, MakeVolume, CreateTracer, CreateTarget, Create,
         StartTracer, StopContainer, RemoveContainer, StopDone, WantChanges,
         Exit, FileMDTakes, Crash, StartStages, env, history

LEMMA StepRuns ==
  ASSUME Runtime = "docker", TypeInv, OrdersInv, RunsInv, Next
  PROVE  RunHasContainers'
<1> USE DEF RunsInv, RunHasContainers
<1>1. CASE StartTarget
  <2>1. cur \in Sessions /\ runs[cur] = 0
    BY <1>1 DEF StartTarget, FirstStart, StartStages, TypeInv, CurIsSession,
                BusyStages
  <2>2. runs' = [runs EXCEPT ![cur] = 1]
    BY <1>1, <2>1 DEF StartTarget
  <2>3. \A k \in Kinds : box[cur][k] # "absent"
    BY <1>1 DEF StartTarget, StagesInOrder
  <2>4. \A s \in Sessions, k \in Kinds :
          box[s][k] # "absent" => box'[s][k] # "absent"
    BY <1>1, ExistingStays DEF StartTarget
  <2>5. \A s \in Sessions : MayStart(s)' => MayStart(s)
    BY StepNoNewStart
  <2>6. QED
    BY <2>1, <2>2, <2>3, <2>4, <2>5 DEF TypeInv, TypeOK
<1>2. CASE ~StartTarget
  <2>1. runs' = runs
    BY <1>2
       DEF Next, DaemonStep, BeginPoll, Inspect, SendReport, Reply, Timeout,
           SyncDone, SkipStart, BeginStart, BeginStop, MakeVolume, CreateTracer,
           CreateTarget, Create, StartTracer, StartFails, StopContainer,
           RemoveContainer, StopDone, WantChanges, Exit, FileMDTakes, Crash,
           history
  <2>2. SUFFICES ASSUME NEW s \in Sessions, NEW k \in Kinds,
                        runs[s] > 0, MayStart(s)'
                 PROVE  box'[s][k] # "absent"
    BY <2>1
  <2>3. MayStart(s) /\ box[s][k] # "absent"
    BY <2>2, StepNoNewStart
  <2>4. ~(pc = "undoing" /\ cur = s)
    BY <2>2 DEF FirstStart
  <2>5. ~(pc \in {"stopping", "cleaning"} /\ cur = s)
    BY <2>3
       DEF MayStart, OrdersInv, TypeInv, CurIsSession, BusyStages, StopStages
  <2>6. QED
    BY <2>3, <2>4, <2>5, ExistingStays DEF StopStages
<1>3. QED
  BY <1>1, <1>2

\* Under Docker the command of a session is run once, however often the order
\* is repeated, whichever calls fail and wherever the daemon crashes.
THEOREM TargetRunsOnce ==
  ASSUME Runtime = "docker"
  PROVE  Spec => []RunsAtMostOnce
<1> DEFINE I == TypeInv /\ OrdersInv /\ RunsInv
<1>1. Init => I
  BY InitType
     DEF Init, OrdersInv, RunsInv, StagesInOrder, FirstStart, RunHasContainers,
         NoEvents, StartStages
<1>2. I /\ [Next]_vars => I'
  <2>1. CASE Next
    BY <2>1, StepType, StepOrders, StepStages, StepFirstStart, StepRuns
       DEF RunsInv
  <2>2. CASE UNCHANGED vars
    BY <2>2, StepType
       DEF vars, env, history, OrdersInv, RunsInv, StagesInOrder, FirstStart,
           RunHasContainers, MayStart
  <2>3. QED
    BY <2>1, <2>2
<1>3. I => RunsAtMostOnce
  BY DEF RunsInv, RunHasContainers, RunsAtMostOnce
<1>4. QED
  BY <1>1, <1>2, <1>3, PTL DEF Spec
-----------------------------------------------------------------------------
\* Only the last stages of a start make a container run.
LEMMA OnlyStartRuns ==
  ASSUME TypeInv, Next, NEW s \in Sessions, NEW k \in Kinds,
         box'[s][k] = "running"
  PROVE  \/ box[s][k] = "running"
         \/ cur = s /\ k = "tracer" /\ pc = "startTracer"
         \/ cur = s /\ k = "target" /\ pc = "startTarget"
<1> USE DEF TypeInv, TypeOK, StartStages
<1>1. CASE CreateTracer \/ CreateTarget \/ StartTracer \/ StartTarget
  BY <1>1 DEF CreateTracer, CreateTarget, Create, StartTracer, StartTarget,
              CurIsSession, BusyStages, StopStages, Kinds
<1>2. ASSUME NEW l \in Kinds, StopContainer(l) \/ RemoveContainer(l)
      PROVE  box[s][k] = "running"
  <2>1. PICK b : /\ box' = [box EXCEPT ![cur][l] = b]
                 /\ b = "running" => box[cur][l] = "running"
    BY <1>2, StopCall
  <2>2. cur \in Sessions
    BY <1>2, StopCall
  <2>3. QED
    BY <2>1, <2>2
<1>3. ASSUME NEW t \in Sessions, NEW l \in Kinds, Exit(t, l)
      PROVE  box[s][k] = "running"
  BY <1>3 DEF Exit, Kinds
<1>4. CASE Crash
  BY <1>4 DEF Crash, Kinds
<1>5. CASE UNCHANGED box
  BY <1>5
<1>6. QED
  BY <1>1, <1>2, <1>3, <1>4, <1>5
     DEF Next, DaemonStep, BeginPoll, Inspect, SendReport, Reply, Timeout,
         SyncDone, SkipStart, BeginStart, BeginStop, MakeVolume, StartFails,
         StopDone, WantChanges, FileMDTakes

\* A directory loses its lock only when the daemon inspects a target that does
\* not run, and the daemon makes only the directory of cur, or locks it.
LEMMA WhatUnlocks ==
  ASSUME TypeInv, Next, NEW s \in Sessions, volume'[s] # volume[s]
  PROVE  \/ pc = "report" /\ pc' = pc /\ box' = box /\ box[s]["target"] # "running"
         \/ pc = "volume" /\ cur = s /\ volume'[s] = "locked"
         \/ volume[s] # "locked" /\ (pc' = pc \/ pc' \in {"sync", "undoing"})
<1> USE DEF TypeInv, TypeOK
<1>1. ASSUME NEW t \in Sessions, Inspect(t)
      PROVE  /\ pc = "report" /\ pc' = pc /\ box' = box
             /\ box[s]["target"] # "running"
  BY <1>1 DEF Inspect
<1>2. CASE MakeVolume
  BY <1>2 DEF MakeVolume, CurIsSession, BusyStages, StartStages
<1>3. CASE StartFails
  <2>1. cur \in Sessions
    BY <1>3 DEF StartFails, StageFails, CurIsSession, BusyStages, StartStages
  <2>2. volume[s] # "locked"
    BY <1>3, <2>1 DEF StartFails
  <2>3. QED
    BY <1>3, <2>2 DEF StartFails
<1>4. ASSUME NEW t \in Sessions, FileMDTakes(t)
      PROVE  volume[s] # "locked" /\ pc' = pc
  BY <1>4 DEF FileMDTakes
<1>5. QED
  BY <1>1, <1>2, <1>3, <1>4
     DEF Next, DaemonStep, BeginPoll, SendReport, Reply, Timeout, SyncDone,
         SkipStart, BeginStart, BeginStop, CreateTracer, CreateTarget, Create,
         StartTracer, StartTarget, StopContainer, RemoveContainer, StopDone,
         WantChanges, Exit, Crash

\* While a start is past its first stage its directory is locked: FileMD takes
\* no locked directory and the daemon inspects nothing in the meantime.
StartIsLocked == pc \in StartStages \ {"volume"} => volume[cur] = "locked"

LockInv == LockedWhileTargetRuns /\ StartIsLocked

LEMMA StepLock ==
  ASSUME TypeInv, LockInv, Next
  PROVE  LockInv'
<1> USE DEF LockInv
<1>1. LockedWhileTargetRuns'
  <2>1. SUFFICES ASSUME NEW s \in Sessions, box'[s]["target"] = "running"
                 PROVE  volume'[s] = "locked"
    BY DEF LockedWhileTargetRuns
  <2>2. \/ box[s]["target"] = "running"
        \/ cur = s /\ pc = "startTarget"
    BY <2>1, OnlyStartRuns DEF Kinds
  <2>3. volume[s] = "locked"
    BY <2>2 DEF LockedWhileTargetRuns, StartIsLocked, StartStages
  <2>4. QED
    BY <2>1, <2>2, <2>3, WhatUnlocks
<1>2. StartIsLocked'
  <2>1. SUFFICES ASSUME pc' \in StartStages \ {"volume"}
                 PROVE  volume'[cur'] = "locked"
    BY DEF StartIsLocked
  <2>2. CASE MakeVolume
    BY <2>2
       DEF MakeVolume, TypeInv, TypeOK, CurIsSession, BusyStages, StartStages
  <2>3. CASE ~MakeVolume
    <3>1. pc \in StartStages \ {"volume"} /\ cur' = cur
      BY <2>1, <2>3
         DEF Next, DaemonStep, BeginPoll, Inspect, SendReport, Reply, Timeout,
             SyncDone, SkipStart, BeginStart, BeginStop, StageOf, CreateTracer,
             CreateTarget, Create, StartTracer, StartTarget, StartFails,
             StopContainer, RemoveContainer, StopDone, WantChanges, Exit,
             FileMDTakes, Crash, StartStages, env
    <3>2. cur \in Sessions /\ volume[cur] = "locked"
      BY <3>1 DEF StartIsLocked, TypeInv, CurIsSession, BusyStages
    <3>3. QED
      BY <2>1, <3>1, <3>2, WhatUnlocks DEF StartStages
  <2>4. QED
    BY <2>2, <2>3
<1>3. QED
  BY <1>1, <1>2

\* A directory is locked as long as the target of its session runs, so FileMD
\* never uploads the logs of a session at work nor deletes them under it.
THEOREM LockHolds == Spec => []LockedWhileTargetRuns
<1> DEFINE I == TypeInv /\ LockInv
<1>1. Init => I
  BY InitType
     DEF Init, LockInv, LockedWhileTargetRuns, StartIsLocked, StartStages, Kinds
<1>2. I /\ [Next]_vars => I'
  <2>1. CASE Next
    BY <2>1, StepType, StepLock
  <2>2. CASE UNCHANGED vars
    BY <2>2, StepType DEF vars, LockInv, LockedWhileTargetRuns, StartIsLocked
  <2>3. QED
    BY <2>1, <2>2
<1>3. I => LockedWhileTargetRuns
  BY DEF LockInv
<1>4. QED
  BY <1>1, <1>2, <1>3, PTL DEF Spec
=============================================================================
