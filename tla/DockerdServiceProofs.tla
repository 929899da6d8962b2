------------------------- MODULE DockerdServiceProofs -------------------------
(***************************************************************************)
(* What the API can count on of DockerD: what a report can be taken for,   *)
(* that the simulator, which keeps its containers by name and does not     *)
(* look whether a name is taken, is never asked for one twice, that orders *)
(* are carried out, and that the daemon gets through them in the end.      *)
(***************************************************************************)
EXTENDS DockerdProofs

\* Every target is reported or still to be inspected.
ReportInv ==
  pc \in {"report", "sent"} =>
    /\ pc = "sent" => todo = {}
    /\ \A s \in Sessions :
         box[s]["target"] # "absent" => s \in todo \/ report[s] # "none"

\* What is reported as over has been unlocked, or has no directory.
UnlockedInv ==
  pc \in {"report", "sent"} =>
    \A s \in Sessions :
      report[s] \in {"session_end", "session_failed"} => volume[s] # "locked"

LEMMA StepReport ==
  ASSUME InspectTellsLabels, "inspect" \notin Failures, TypeInv, ReportInv, Next
  PROVE  ReportInv'
<1> USE DEF ReportInv, TypeInv, TypeOK
<1>1. CASE BeginPoll
  BY <1>1 DEF BeginPoll
<1>2. ASSUME NEW s \in Sessions, Inspect(s) PROVE ReportInv'
  <2>1. EventOf(box[s]["target"]) # "none"
    BY <1>2 DEF Inspect, ListedExist, EventOf, ContainerState, Kinds
  <2>2. QED
    BY <1>2, <2>1 DEF Inspect
<1>3. CASE SendReport
  BY <1>3 DEF SendReport
<1>4. ASSUME NEW s \in Sessions, NEW k \in Kinds, Exit(s, k) PROVE ReportInv'
  BY <1>4 DEF Exit, Kinds
<1>5. ASSUME UNCHANGED <<pc, box, todo, report>> PROVE ReportInv'
  BY <1>5
<1>6. CASE pc' \notin {"report", "sent"}
  BY <1>6
<1>7. QED
  BY <1>1, <1>2, <1>3, <1>4, <1>5, <1>6
     DEF Next, DaemonStep, Reply, Timeout, SyncDone, SkipStart, BeginStart,
         BeginStop, StageOf, MakeVolume, CreateTracer, CreateTarget, Create,
         StartTracer, StartTarget, StartFails, StopContainer, RemoveContainer,
         StopDone, WantChanges, FileMDTakes, Crash, StopStages, env

\* A manager that tells the labels and whose inspections succeed, as the
\* simulator's do, hides no target: the API never takes a session whose target
\* is there for one that is still to be started.
THEOREM NoTargetIsHidden ==
  ASSUME InspectTellsLabels, "inspect" \notin Failures
  PROVE  Spec => []ReportCoversTargets
<1> DEFINE I == TypeInv /\ ReportInv
<1>1. Init => I
  BY InitType DEF Init, ReportInv
<1>2. I /\ [Next]_vars => I'
  <2>1. CASE Next
    BY <2>1, StepType, StepReport
  <2>2. CASE UNCHANGED vars
    BY <2>2, StepType DEF vars, ReportInv
  <2>3. QED
    BY <2>1, <2>2
<1>3. I => ReportCoversTargets
  BY DEF ReportInv, ReportCoversTargets
<1>4. QED
  BY <1>1, <1>2, <1>3, PTL DEF Spec
-----------------------------------------------------------------------------
LEMMA StepUnlocked ==
  ASSUME "files" \notin Failures, TypeInv, UnlockedInv, Next
  PROVE  UnlockedInv'
<1> USE DEF UnlockedInv, TypeInv, TypeOK
<1>1. CASE BeginPoll
  BY <1>1 DEF BeginPoll, NoEvents
<1>2. ASSUME NEW s \in Sessions, Inspect(s) PROVE UnlockedInv'
  <2>1. \A v \in Collected(volume[s]) : v # "locked"
    BY <1>2 DEF Inspect, Collected
  <2>2. EventOf("running") = "session_running"
    BY DEF EventOf
  <2>3. QED
    BY <1>2, <2>1, <2>2 DEF Inspect
<1>3. CASE SendReport
  BY <1>3 DEF SendReport
<1>4. ASSUME NEW s \in Sessions, FileMDTakes(s) PROVE UnlockedInv'
  BY <1>4 DEF FileMDTakes
<1>5. ASSUME UNCHANGED <<pc, volume, report>> PROVE UnlockedInv'
  BY <1>5
<1>6. CASE pc' \notin {"report", "sent"}
  BY <1>6
<1>7. QED
  BY <1>1, <1>2, <1>3, <1>4, <1>5, <1>6
     DEF Next, DaemonStep, Reply, Timeout, SyncDone, SkipStart, BeginStart,
         BeginStop, StageOf, MakeVolume, CreateTracer, CreateTarget, Create,
         StartTracer, StartTarget, StartFails, StopContainer, RemoveContainer,
         StopDone, WantChanges, Exit, Crash, env

\* When files can be written, the directory of a session is open to FileMD
\* before the API is told that the session is over.
THEOREM EndIsToldAfterUnlock ==
  ASSUME "files" \notin Failures
  PROVE  Spec => []EndedIsUnlocked
<1> DEFINE I == TypeInv /\ UnlockedInv
<1>1. Init => I
  BY InitType DEF Init, UnlockedInv
<1>2. I /\ [Next]_vars => I'
  <2>1. CASE Next
    BY <2>1, StepType, StepUnlocked
  <2>2. CASE UNCHANGED vars
    BY <2>2, StepType DEF vars, UnlockedInv
  <2>3. QED
    BY <2>1, <2>2
<1>3. I => EndedIsUnlocked
  BY DEF UnlockedInv, EndedIsUnlocked
<1>4. QED
  BY <1>1, <1>2, <1>3, PTL DEF Spec
-----------------------------------------------------------------------------
\* The simulator makes and removes the two containers of a session together:
\* only the session at hand has one without the other.
PairInv ==
  /\ \A s \in Sessions :
       \/ pc \in BusyStages /\ cur = s
       \/ Existing(s) \in {{}, Kinds}
  /\ pc \in {"volume", "createTracer"} => Existing(cur) = {}
  /\ pc = "createTarget" => Existing(cur) = {"tracer"}
  /\ pc \in {"startTracer", "startTarget"} => Existing(cur) = Kinds
  /\ pc = "stopping" => remove = {} /\ Existing(cur) \in {{}, Kinds}
  /\ pc \in {"cleaning", "undoing"} => Existing(cur) = remove

FreshNames ==
  /\ pc = "createTracer" => box[cur]["tracer"] = "absent"
  /\ pc = "createTarget" => box[cur]["target"] = "absent"

\* The steps at which the daemon takes up a session or leaves it.
LEMMA TakeAndLeavePair ==
  ASSUME Runtime = "simulator", TypeInv, PairInv,
         \/ \E s \in Sessions : BeginStart(s) \/ BeginStop(s)
         \/ StartTarget \/ StartFails \/ StopDone \/ Crash
  PROVE  PairInv'
<1> USE DEF TypeInv, CurIsSession, BusyStages, StartStages, StopStages
<1>1. ASSUME NEW s \in Sessions, BeginStart(s) PROVE PairInv'
  <2>1. Existing(s) = {} /\ \A t \in Sessions : Existing(t) \in {{}, Kinds}
    BY <1>1 DEF BeginStart, AlreadyStarted, PairInv
  <2>2. box' = box /\ pc' = "volume" /\ cur' = s
    BY <1>1 DEF BeginStart
  <2>3. \A t \in Sessions : Existing(t)' = Existing(t)
    BY <2>2 DEF Existing
  <2>4. QED
    BY <2>1, <2>2, <2>3 DEF PairInv
<1>2. ASSUME NEW s \in Sessions, BeginStop(s) PROVE PairInv'
  <2>1. \A t \in Sessions : Existing(t) \in {{}, Kinds} /\ Existing(t)' = Existing(t)
    BY <1>2 DEF BeginStop, PairInv, Existing
  <2>2. pc' # "sync" => cur' = s /\ remove' = IF pc' = "cleaning" THEN Existing(s) ELSE {}
    BY <1>2 DEF BeginStop, StageOf, ToStop
  <2>3. pc' \in {"stopping", "cleaning", "sync"}
    BY <1>2 DEF BeginStop, StageOf
  <2>4. QED
    BY <2>1, <2>2, <2>3 DEF PairInv
<1>3. CASE StartTarget
  <2>1. \A t \in Sessions : Existing(t) \in {{}, Kinds}
    BY <1>3 DEF StartTarget, PairInv
  <2>2. box' = [box EXCEPT ![cur]["target"] = "running"] /\ pc' = "sync"
    BY <1>3 DEF StartTarget
  <2>3. cur \in Sessions /\ Existing(cur) = Kinds
    BY <1>3 DEF StartTarget, PairInv
  <2>4. \A t \in Sessions : Existing(t)' = Existing(t)
    BY <2>2, <2>3 DEF TypeOK, Existing, Kinds
  <2>5. QED
    BY <2>1, <2>2, <2>4 DEF PairInv
<1>4. CASE StartFails
  <2>1. pc = "volume" /\ "list" \notin Failures
    BY <1>4, FailuresAssumption DEF StartFails, StageFails, NameTaken
  <2>2. /\ pc' = "undoing" /\ remove' = Existing(cur)
        /\ cur' = cur /\ box' = box
    BY <1>4, <2>1 DEF StartFails, ToStop
  <2>3. \A t \in Sessions : Existing(t)' = Existing(t)
    BY <2>2 DEF Existing
  <2>4. QED
    BY <2>1, <2>2, <2>3 DEF PairInv
<1>5. CASE StopDone
  <2>1. \A t \in Sessions : Existing(t) \in {{}, Kinds} /\ Existing(t)' = Existing(t)
    BY <1>5 DEF StopDone, PairInv, Existing
  <2>2. pc' = "sync"
    BY <1>5 DEF StopDone
  <2>3. QED
    BY <2>1, <2>2 DEF PairInv
<1>6. CASE Crash
  BY <1>6 DEF Crash, PairInv, Existing
<1>7. QED
  BY <1>1, <1>2, <1>3, <1>4, <1>5, <1>6

\* A step on the containers of the session at hand.
LEMMA AtHandPair ==
  ASSUME Runtime = "simulator", TypeInv, PairInv,
         \/ MakeVolume \/ CreateTracer \/ CreateTarget \/ StartTracer
         \/ \E k \in Kinds : StopContainer(k) \/ RemoveContainer(k)
  PROVE  PairInv'
<1> USE DEF TypeInv, CurIsSession, BusyStages, StartStages, StopStages
<1>1. CASE MakeVolume
  BY <1>1 DEF MakeVolume, PairInv, Existing
<1>2. ASSUME NEW k \in Kinds, NEW b, cur \in Sessions, cur' = cur,
             box' = [box EXCEPT ![cur][k] = b]
      PROVE  /\ \A t \in Sessions : t # cur => Existing(t)' = Existing(t)
             /\ Existing(cur)' = IF b = "absent" THEN Existing(cur) \ {k}
                                                 ELSE Existing(cur) \cup {k}
  BY <1>2 DEF TypeOK, Existing
<1>3. CASE CreateTracer \/ CreateTarget \/ StartTracer
  <2>1. PICK k \in Kinds :
          /\ k = IF pc = "createTarget" THEN "target" ELSE "tracer"
          /\ \E b \in {"created", "running"} : box' = [box EXCEPT ![cur][k] = b]
    BY <1>3 DEF CreateTracer, CreateTarget, Create, StartTracer, Kinds
  <2>2. cur \in Sessions /\ cur' = cur /\ pc' \in BusyStages
    BY <1>3 DEF CreateTracer, CreateTarget, Create, StartTracer
  <2>3. /\ \A t \in Sessions : t # cur => Existing(t)' = Existing(t)
        /\ Existing(cur)' = Existing(cur) \cup {k}
    BY <1>2, <2>1, <2>2
  <2>4. QED
    BY <1>3, <2>1, <2>2, <2>3
       DEF PairInv, CreateTracer, CreateTarget, StartTracer, Kinds
<1>4. ASSUME NEW k \in Kinds, StopContainer(k) PROVE PairInv'
  <2>1. /\ cur \in Sessions /\ box[cur][k] \in ContainerState
        /\ pc \in StopStages /\ UNCHANGED <<pc, cur, remove>>
    BY <1>4, StopCall DEF StopContainer
  <2>2. PICK b : /\ box' = [box EXCEPT ![cur][k] = b]
                 /\ b = "absent" <=> box[cur][k] = "absent"
    BY <1>4, <2>1, StoppedStates DEF StopContainer
  <2>3. \A t \in Sessions : Existing(t)' = Existing(t)
    BY <2>1, <2>2 DEF TypeOK, Existing
  <2>4. QED
    BY <2>1, <2>3 DEF PairInv
<1>5. ASSUME NEW k \in Kinds, RemoveContainer(k) PROVE PairInv'
  <2>1. /\ cur \in Sessions /\ pc \in StopStages /\ UNCHANGED <<pc, cur>>
        /\ k \in remove /\ remove' = remove \ {k}
    BY <1>5, StopCall DEF RemoveContainer
  <2>2. box' = [box EXCEPT ![cur][k] = "absent"]
    BY <1>5 DEF RemoveContainer, Removed, RemovedBySimulator
  <2>3. /\ \A t \in Sessions : t # cur => Existing(t)' = Existing(t)
        /\ Existing(cur)' = Existing(cur) \ {k}
    BY <1>2, <2>1, <2>2
  <2>4. QED
    BY <2>1, <2>3 DEF PairInv
<1>6. QED
  BY <1>1, <1>3, <1>4, <1>5

LEMMA StepPair ==
  ASSUME Runtime = "simulator", TypeInv, PairInv, Next
  PROVE  PairInv'
<1>1. ASSUME UNCHANGED <<box, cur, left, remove>>,
             pc' = pc \/ {pc, pc'} \cap BusyStages = {}
      PROVE  PairInv'
  BY <1>1 DEF PairInv, Existing, BusyStages, StartStages, StopStages
<1>2. QED
  BY <1>1, TakeAndLeavePair, AtHandPair
     DEF Next, DaemonStep, BeginPoll, Inspect, SendReport, Reply, Timeout,
         SyncDone, SkipStart, WantChanges, Exit, FileMDTakes, env, BusyStages,
         StartStages, StopStages

\* The simulator makes no container under a name that is taken, so that it does
\* not check names, where Docker refuses the second, makes no difference.
THEOREM SimulatorNamesAreFresh ==
  ASSUME Runtime = "simulator"
  PROVE  Spec => []FreshNames
<1> DEFINE I == TypeInv /\ PairInv
<1>1. Init => I
  BY InitType DEF Init, PairInv, Existing, BusyStages, StartStages, StopStages
<1>2. I /\ [Next]_vars => I'
  <2>1. CASE Next
    BY <2>1, StepType, StepPair
  <2>2. CASE UNCHANGED vars
    BY <2>2, StepType DEF vars, PairInv, Existing
  <2>3. QED
    BY <2>1, <2>2
<1>3. I => FreshNames
  BY DEF PairInv, FreshNames, Existing, Kinds
<1>4. QED
  BY <1>1, <1>2, <1>3, PTL DEF Spec
-----------------------------------------------------------------------------
\* The session has no target that runs, and nothing may make it run: neither a
\* start under way nor an order that is still to come.
Silent(s) == /\ ~MayStart(s)
             /\ box[s]["target"] # "running"
             /\ ~(pc \in StartStages /\ cur = s)

LEMMA StepSilent ==
  ASSUME TypeInv, [Next]_vars, NEW s \in Sessions, Silent(s)
  PROVE  Silent(s)'
<1>1. CASE Next
  <2>1. ~MayStart(s)'
    BY <1>1, StepNoNewStart DEF Silent
  <2>2. box'[s]["target"] # "running"
    BY <1>1, OnlyStartRuns DEF Silent, StartTarget, StartStages, Kinds
  <2>3. ~(pc' \in StartStages /\ cur' = s)
    BY <1>1, StartNeedsOrder DEF Silent, MayStart
  <2>4. QED
    BY <2>1, <2>2, <2>3 DEF Silent
<1>2. CASE UNCHANGED vars
  BY <1>2 DEF vars, env, Silent, MayStart
<1>3. QED
  BY <1>1, <1>2
-----------------------------------------------------------------------------
\* A target of the simulator that was made and does not run is about to be
\* started, or was stopped for good; there is nothing to undo.
StillInv ==
  /\ pc = "undoing" => left = {} /\ remove = {}
  /\ \A s \in Sessions :
       /\ box[s]["target"] = "created"
            => cur = s /\ pc \in {"startTracer", "startTarget"}
       /\ box[s]["target"] \in {"done", "broken"} => Silent(s)

\* What is reported as ended does not run and is not going to.
EndedIsSilent ==
  \A s \in Sessions : report[s] = "session_end" => Silent(s)

LEMMA StepStill ==
  ASSUME Runtime = "simulator", TypeInv, OrdersInv, PairInv, StillInv, Next
  PROVE  StillInv'
<1>1. pc' = "undoing" => left' = {} /\ remove' = {}
  <2>1. CASE StartFails
    <3>1. pc = "volume" /\ "list" \notin Failures
      BY <2>1, FailuresAssumption DEF StartFails, StageFails, NameTaken
    <3>2. QED
      BY <2>1, <3>1 DEF StartFails, PairInv, ToStop
  <2>2. CASE pc = "undoing" /\ pc' = pc
    BY <2>2
       DEF Next, DaemonStep, BeginPoll, Inspect, SendReport, Reply, Timeout,
           SyncDone, SkipStart, BeginStart, BeginStop, StageOf, MakeVolume,
           CreateTracer, CreateTarget, Create, StartTracer, StartTarget,
           StartFails, StopContainer, RemoveContainer, StopDone, WantChanges,
           Exit, FileMDTakes, Crash, StillInv, StageFails
  <2>3. QED
    BY <2>1, <2>2
       DEF Next, DaemonStep, BeginPoll, Inspect, SendReport, Reply, Timeout,
           SyncDone, SkipStart, BeginStart, BeginStop, StageOf, MakeVolume,
           CreateTracer, CreateTarget, Create, StartTracer, StartTarget,
           StopContainer, RemoveContainer, StopDone, WantChanges, Exit,
           FileMDTakes, Crash
<1>2. ASSUME NEW s \in Sessions
      PROVE  /\ box'[s]["target"] = "created"
                  => cur' = s /\ pc' \in {"startTracer", "startTarget"}
             /\ box'[s]["target"] \in {"done", "broken"} => Silent(s)'
  <2> DEFINE Goal == /\ box'[s]["target"] = "created"
                          => cur' = s /\ pc' \in {"startTracer", "startTarget"}
                     /\ box'[s]["target"] \in {"done", "broken"} => Silent(s)'
  <2>1. Silent(s) => Silent(s)'
    BY StepSilent
  <2>2. ASSUME NEW k \in Kinds, StopContainer(k) \/ RemoveContainer(k) PROVE Goal
    <3>1. /\ cur \in Sessions /\ inbox[cur] = "none" /\ box[cur][k] \in ContainerState
          /\ pc \in StopStages /\ UNCHANGED <<pc, cur>>
      BY <2>2, StopCall
    <3>2. pc \in {"stopping", "cleaning"}
      BY <2>2, <3>1 DEF StopContainer, RemoveContainer, StillInv, StopStages
    <3>3. PICK b : /\ box' = [box EXCEPT ![cur][k] = b]
                   /\ b \in {"created", "done", "broken", "absent"}
                   /\ b = "created" => box[cur][k] = "created"
      <4>1. CASE StopContainer(k)
        BY <3>1, <4>1
           DEF StopContainer, Stopped, StoppedBySimulator, ContainerState
      <4>2. CASE RemoveContainer(k)
        BY <4>2 DEF RemoveContainer, Removed, RemovedBySimulator
      <4>3. QED
        BY <2>2, <4>1, <4>2
    <3>4. CASE s = cur /\ k = "target"
      <4>1. box'[s]["target"] = b
        BY <3>1, <3>3, <3>4 DEF TypeInv, TypeOK
      <4>2. b # "created"
        BY <3>2, <3>3, <3>4 DEF StillInv
      <4>3. ~MayStart(s)
        BY <3>1, <3>2, <3>4 DEF OrdersInv, MayStart
      <4>4. ~MayStart(s)'
        BY <4>3, StepNoNewStart
      <4>5. QED
        BY <3>1, <3>2, <3>3, <4>1, <4>2, <4>4 DEF Silent, StartStages
    <3>5. CASE ~(s = cur /\ k = "target")
      <4>1. box'[s]["target"] = box[s]["target"]
        BY <3>1, <3>3, <3>5 DEF TypeInv, TypeOK, Kinds
      <4>2. QED
        BY <2>1, <3>1, <3>2, <4>1 DEF StillInv
    <3>6. QED
      BY <3>4, <3>5
  <2>3. CASE CreateTracer \/ CreateTarget \/ StartTracer \/ StartTarget
    <3>1. cur \in Sessions
      BY <2>3 DEF TypeInv, CurIsSession, BusyStages, StartStages, CreateTracer,
                  CreateTarget, StartTracer, StartTarget
    <3>2. CASE CreateTracer \/ StartTracer
      <4>1. /\ box'[s]["target"] = box[s]["target"]
            /\ cur' = cur /\ (pc = "startTracer" => pc' = "startTarget")
        BY <3>1, <3>2 DEF TypeInv, TypeOK, CreateTracer, Create, StartTracer,
                          Kinds
      <4>2. pc # "startTarget"
        BY <3>2 DEF CreateTracer, StartTracer
      <4>3. QED
        BY <2>1, <4>1, <4>2 DEF StillInv
    <3>3. CASE CreateTarget \/ StartTarget
      <4>1. PICK b \in {"created", "running"} :
              /\ box' = [box EXCEPT ![cur]["target"] = b]
              /\ b = "created" => cur' = cur /\ pc' = "startTracer"
              /\ b = "created" => pc = "createTarget"
              /\ b = "running" => pc = "startTarget"
        BY <3>3 DEF CreateTarget, Create, StartTarget
      <4>2. CASE s = cur
        BY <3>1, <4>1, <4>2 DEF TypeInv, TypeOK, Kinds
      <4>3. CASE s # cur
        BY <2>1, <3>1, <4>1, <4>3 DEF TypeInv, TypeOK, StillInv, Kinds
      <4>4. QED
        BY <4>2, <4>3
    <3>4. QED
      BY <2>3, <3>2, <3>3
  <2>4. CASE Crash
    BY <2>4 DEF Crash, Kinds
  <2>5. CASE box' = box /\ pc \notin {"startTracer", "startTarget"}
    BY <2>1, <2>5 DEF StillInv
  <2>6. CASE UNCHANGED <<box, pc, cur>>
    BY <2>1, <2>6 DEF StillInv
  <2>7. QED
    BY <2>2, <2>3, <2>4, <2>5, <2>6, FailuresAssumption
       DEF Next, DaemonStep, BeginPoll, Inspect, SendReport, Reply, Timeout,
           SyncDone, SkipStart, BeginStart, BeginStop, StageOf, MakeVolume,
           StartFails, StageFails, NameTaken, StopDone, StopStages, WantChanges,
           Exit, FileMDTakes
<1>3. QED
  BY <1>1, <1>2 DEF StillInv

LEMMA StepEnded ==
  ASSUME TypeInv, Runtime = "simulator" => StillInv, EndedIsSilent, Next
  PROVE  EndedIsSilent'
<1>1. SUFFICES ASSUME NEW s \in Sessions, report'[s] = "session_end"
               PROVE  Silent(s)
  BY StepSilent DEF EndedIsSilent
<1>2. CASE report'[s] = report[s]
  BY <1>1, <1>2 DEF EndedIsSilent
<1>3. CASE report' = NoEvents
  BY <1>1, <1>3 DEF NoEvents
<1>4. ASSUME NEW t \in Sessions, Inspect(t), report' # report PROVE Silent(s)
  <2>1. /\ InspectTellsLabels /\ pc = "report" /\ t \in todo
        /\ report' = [report EXCEPT ![t] = EventOf(box[t]["target"])]
    BY <1>4 DEF Inspect
  <2>2. CASE s = t
    <3>1. Runtime = "simulator"
      BY <2>1, RuntimeAssumption DEF InspectTellsLabels, DockerTellsLabels
    <3>2. EventOf(box[s]["target"]) = "session_end"
      BY <1>1, <2>1, <2>2 DEF TypeInv, TypeOK
    <3>3. box[s]["target"] \in ContainerState \ {"absent"}
      BY <2>1, <2>2 DEF TypeInv, TypeOK, ListedExist, Kinds
    <3>4. box[s]["target"] \in {"created", "done"}
      BY <3>2, <3>3 DEF EventOf, ContainerState
    <3>5. QED
      BY <2>1, <3>1, <3>4 DEF StillInv
  <2>3. CASE s # t
    BY <1>1, <2>1, <2>3 DEF TypeInv, TypeOK, EndedIsSilent
  <2>4. QED
    BY <2>2, <2>3
<1>5. QED
  BY <1>2, <1>3, <1>4
     DEF Next, DaemonStep, BeginPoll, SendReport, Reply, Timeout, SyncDone,
         SkipStart, BeginStart, BeginStop, StageOf, MakeVolume, CreateTracer,
         CreateTarget, Create, StartTracer, StartTarget, StartFails,
         StopContainer, RemoveContainer, StopDone, WantChanges, Exit,
         FileMDTakes, Crash

\* A session that is reported as ended has a target that does not run, and no
\* start, begun or still ordered, will make it: neither runtime tells the end
\* of a session whose start is still to come.
THEOREM ReportedEndIsFinal == Spec => [](TypeInv /\ EndedIsSilent)
<1> DEFINE I == /\ TypeInv /\ OrdersInv /\ EndedIsSilent
                /\ Runtime = "simulator" => PairInv /\ StillInv
<1>1. Init => I
  <2>1. Init => OrdersInv /\ EndedIsSilent
    BY DEF Init, OrdersInv, EndedIsSilent, NoEvents
  <2>2. Init => PairInv /\ StillInv
    BY DEF Init, PairInv, Existing, BusyStages, StartStages, StopStages,
           StillInv, Kinds
  <2>3. QED
    BY <2>1, <2>2, InitType
<1>2. I /\ [Next]_vars => I'
  <2>1. CASE Next
    BY <2>1, StepType, StepOrders, StepPair, StepStill, StepEnded
  <2>2. CASE UNCHANGED vars
    BY <2>2, StepType
       DEF vars, env, PairInv, Existing, OrdersInv, StillInv, EndedIsSilent,
           Silent, MayStart
  <2>3. QED
    BY <2>1, <2>2
<1>3. I => TypeInv /\ EndedIsSilent
  OBVIOUS
<1>4. QED
  BY <1>1, <1>2, <1>3, PTL DEF Spec
-----------------------------------------------------------------------------
\* What DockerD owes the API in the end: that what is to be stopped is
\* stopped, what is to be cleaned up is removed, and what is to be started is
\* started.  The premise is KeepsSyncing, that the daemon goes on to get
\* through its replies; that the fairness of FairSpec brings this about is
\* left to TLC.  The rest holds for any number of sessions and crashes.

\* No start of the session is under way or still to come.
NoStart(s) == ~MayStart(s) /\ ~(pc \in StartStages /\ cur = s)

\* The daemon is on its way to a reply, and has carried out all it was told.
BeforeReply == pc \in {"sleep", "report", "sent"}

StopOrders == {"session_stopped", "session_cleanup"}

LEMMA StepNoStart ==
  ASSUME TypeInv, [Next]_vars, NEW s \in Sessions, NoStart(s)
  PROVE  NoStart(s)'
<1>1. CASE Next
  BY <1>1, StepNoNewStart, StartNeedsOrder DEF NoStart, MayStart
<1>2. CASE UNCHANGED vars
  BY <1>2 DEF vars, env, NoStart, MayStart
<1>3. QED
  BY <1>1, <1>2

\* When a reply has been dealt with, only the API could have a start to come.
LEMMA SyncDoneNoStart ==
  ASSUME SyncDone, NEW s \in Sessions, want'[s] \in StopOrders
  PROVE  NoStart(s)' /\ BeforeReply'
BY DEF SyncDone, NoStart, MayStart, NoEvents, StartStages, BeforeReply,
       StopOrders

\* Runs and exists no more, once and for all.
LEMMA StepSilenced ==
  ASSUME TypeInv, [Next]_vars, NEW s \in Sessions, NoStart(s), Silenced(s)
  PROVE  Silenced(s)'
<1>1. CASE Next
  BY <1>1, OnlyStartRuns DEF Silenced, NoStart, StartStages
<1>2. CASE UNCHANGED vars
  BY <1>2 DEF vars, Silenced
<1>3. QED
  BY <1>1, <1>2

LEMMA StepGone ==
  ASSUME TypeInv, [Next]_vars, NEW s \in Sessions, NoStart(s), Existing(s) = {}
  PROVE  Existing(s)' = {}
<1>1. CASE Next
  BY <1>1, AbsentStays DEF Existing, NoStart
<1>2. CASE UNCHANGED vars
  BY <1>2 DEF vars, Existing
<1>3. QED
  BY <1>1, <1>2
-----------------------------------------------------------------------------
\* The order to stop is still to be carried out, is being carried out and has
\* silenced what it is past, or has been.
Stopping(s) ==
  \/ inbox[s] \in StopOrders
  \/ /\ pc \in {"stopping", "cleaning"} /\ cur = s
     /\ \A k \in Kinds : k \in left \/ box[s][k] # "running"
  \/ Silenced(s)

StopUnderWay(s) == NoStart(s) /\ (BeforeReply \/ Stopping(s))

\* The simulator stops what it is told to stop.
LEMMA SimulatorStops ==
  ASSUME Runtime = "simulator", TypeInv, NEW s \in Sessions
  PROVE  ~StopFails(s)
<1> SUFFICES ASSUME cur = s, NEW k \in Kinds, StopContainer(k)
             PROVE  box'[s][k] # "running"
  BY DEF StopFails
<1>1. PICK state \in Stopped(box[s][k]) : box' = [box EXCEPT ![s][k] = state]
  BY DEF StopContainer
<1>2. state # "running"
  BY <1>1 DEF Stopped, StoppedBySimulator
<1>3. QED
  BY <1>1, <1>2 DEF TypeInv, TypeOK

LEMMA StepStops ==
  ASSUME "list" \notin Failures, TypeInv, [Next]_vars,
         NEW s \in Sessions, NoStart(s), ~BeforeReply, Stopping(s), ~StopFails(s)
  PROVE  Stopping(s)' \/ Crash
<1> USE DEF TypeInv, TypeOK
<1>1. Silenced(s) => Stopping(s)'
  BY StepSilenced DEF Stopping
<1>2. ASSUME NEW t \in Sessions, BeginStop(t) PROVE Stopping(s)'
  <2>1. /\ pc' \in {"stopping", "cleaning"} /\ cur' = t /\ left' = Existing(t)
        /\ box' = box /\ inbox' = [inbox EXCEPT ![t] = "none"] /\ pc = "sync"
    BY <1>2 DEF BeginStop, StageOf, ToStop
  <2>2. \A k \in Kinds : k \in Existing(t) \/ box[t][k] # "running"
    BY DEF Existing
  <2>3. QED
    BY <2>1, <2>2 DEF Stopping, Silenced
<1>3. ASSUME NEW k \in Kinds, StopContainer(k) \/ RemoveContainer(k), ~Silenced(s)
      PROVE  Stopping(s)'
  <2>1. UNCHANGED <<inbox, pc, cur>> /\ pc \in StopStages /\ cur \in Sessions
    BY <1>3, StopCall
  <2>2. PICK b : /\ box' = [box EXCEPT ![cur][k] = b]
                 /\ b = "running" => box[cur][k] = "running"
    BY <1>3, StopCall
  <2>3. CASE inbox[s] \in StopOrders
    BY <2>1, <2>3 DEF Stopping
  <2>4. CASE inbox[s] \notin StopOrders
    <3>1. /\ pc \in {"stopping", "cleaning"} /\ cur = s
          /\ \A l \in Kinds : l \in left \/ box[s][l] # "running"
      BY <1>3, <2>4 DEF Stopping
    <3>2. CASE StopContainer(k)
      <4>1. box'[s][k] # "running" /\ left' = left \ {k}
        BY <3>1, <3>2 DEF StopFails, StopContainer
      <4>2. \A l \in Kinds : l \in left' \/ box'[s][l] # "running"
        BY <2>1, <2>2, <3>1, <4>1
      <4>3. QED
        BY <2>1, <3>1, <4>2 DEF Stopping
    <3>3. CASE RemoveContainer(k)
      <4>1. left' = left
        BY <3>3 DEF RemoveContainer
      <4>2. \A l \in Kinds : l \in left' \/ box'[s][l] # "running"
        BY <2>1, <2>2, <3>1, <4>1
      <4>3. QED
        BY <2>1, <3>1, <4>2 DEF Stopping
    <3>4. QED
      BY <1>3, <3>2, <3>3
  <2>5. QED
    BY <2>3, <2>4
<1>4. CASE StopDone
  BY <1>4 DEF StopDone, Stopping, Silenced
<1>5. CASE SyncDone
  BY <1>1, <1>5 DEF SyncDone, Stopping, NoEvents, StopOrders
<1>6. CASE \/ BeginPoll \/ SendReport \/ Reply \/ Timeout
           \/ \E t \in Sessions : Inspect(t)
  BY <1>6 DEF BeginPoll, SendReport, Inspect, Reply, Timeout, BeforeReply
<1>7. ASSUME NEW t \in Sessions, SkipStart(t) \/ BeginStart(t)
      PROVE  Stopping(s)'
  BY <1>1, <1>7 DEF SkipStart, BeginStart, Stopping, StopOrders
<1>8. CASE \/ MakeVolume \/ CreateTracer \/ CreateTarget \/ StartTracer
           \/ StartTarget \/ StartFails
  BY <1>1, <1>8 DEF MakeVolume, CreateTracer, CreateTarget, Create,
     StartTracer, StartTarget, StartFails, StageFails, Stopping
<1>9. ASSUME NEW t \in Sessions, NEW k \in Kinds, Exit(t, k)
      PROVE  Stopping(s)'
  BY <1>1, <1>9 DEF Exit, Stopping
<1>10. CASE WantChanges \/ \E t \in Sessions : FileMDTakes(t)
  BY <1>1, <1>10 DEF WantChanges, FileMDTakes, Stopping
<1>11. CASE UNCHANGED vars
  BY <1>1, <1>11 DEF vars, Stopping
<1>12. QED
  BY <1>1, <1>2, <1>3, <1>4, <1>5, <1>6, <1>7, <1>8, <1>9, <1>10, <1>11
     DEF Next, DaemonStep

LEMMA StepStopping ==
  ASSUME "list" \notin Failures, TypeInv, [Next]_vars,
         NEW s \in Sessions, want[s] \in StopOrders, StopUnderWay(s),
         ~StopFails(s)
  PROVE  StopUnderWay(s)'
<1> USE DEF StopUnderWay
<1>1. NoStart(s)'
  BY StepNoStart
<1>2. CASE ~BeforeReply
  BY <1>1, <1>2, StepStops DEF Crash, BeforeReply
<1>3. CASE Reply
  <2>1. inbox'[s] = want[s]
    BY <1>3 DEF Reply, StopOrders, Orders
  <2>2. Stopping(s)'
    BY <2>1 DEF Stopping, StopOrders
  <2>3. QED
    BY <1>1, <2>2
<1>4. CASE BeforeReply /\ ~Reply
  <2>1. BeforeReply'
    BY <1>4
       DEF BeforeReply, Next, DaemonStep, BeginPoll, Inspect, SendReport,
           Timeout, SyncDone, SkipStart, BeginStart, BeginStop, StageOf,
           MakeVolume, CreateTracer, CreateTarget, StartTracer, StartTarget,
           StartFails, StageFails, StopContainer, RemoveContainer, StopDone,
           WantChanges, Exit, FileMDTakes, Crash, StartStages, StopStages, vars
  <2>2. QED
    BY <1>1, <2>1
<1>5. QED
  BY <1>2, <1>3, <1>4

\* A session that is to be stopped for ever is stopped for ever, whatever
\* crashes and whatever else fails, unless the runtime refuses again and again
\* to stop its containers; that they can be listed is assumed.
THEOREM StopsAreCarriedOut ==
  ASSUME "list" \notin Failures
  PROVE  Spec /\ KeepsSyncing => StopStops
<1>1. ASSUME NEW s \in Sessions
      PROVE  Spec /\ KeepsSyncing
               => (<>[](want[s] \in StopOrders)
                     => <>[]Silenced(s) \/ []<><<StopFails(s)>>_vars)
  <2> DEFINE H == want[s] \in StopOrders
             P == StopUnderWay(s)
             G == Silenced(s)
             Q == NoStart(s) /\ G
             A == StopFails(s)
  <2>1. TypeInv /\ [Next]_vars /\ H' /\ <<SyncDone>>_vars => P'
    BY SyncDoneNoStart DEF StopUnderWay
  <2>2. TypeInv /\ [Next]_vars /\ H /\ P /\ ~<<A>>_vars => P'
    <3> SUFFICES ASSUME TypeInv, [Next]_vars, H, P, ~<<A>>_vars PROVE P'
      OBVIOUS
    <3>1. CASE UNCHANGED vars
      BY <3>1 DEF vars, env, StopUnderWay, NoStart, MayStart, BeforeReply,
                  Stopping, Silenced
    <3>2. CASE ~(UNCHANGED vars)
      <4>1. ~A
        BY <3>2
      <4>2. QED
        BY <4>1, StepStopping
    <3>3. QED
      BY <3>1, <3>2
  <2>3. TypeInv /\ [Next]_vars /\ P /\ <<SyncDone>>_vars => Q'
    <3> SUFFICES ASSUME TypeInv, [Next]_vars, P, SyncDone PROVE Q'
      OBVIOUS
    <3>1. Silenced(s)
      BY DEF SyncDone, StopUnderWay, BeforeReply, Stopping, NoEvents, StopOrders
    <3>2. QED
      BY <3>1, StepNoStart, StepSilenced DEF StopUnderWay
  <2>4. TypeInv /\ [Next]_vars /\ Q => Q'
    BY StepNoStart, StepSilenced
  <2>5. Q => G
    OBVIOUS
  <2> HIDE DEF H, P, Q, G, A
  <2>6. Spec /\ KeepsSyncing => (<>[]H => <>[]G \/ []<><<A>>_vars)
    BY InitType, StepType, <2>1, <2>2, <2>3, <2>4, <2>5, PTL
       DEF Spec, KeepsSyncing
  <2>7. QED
    BY <2>6 DEF H, G, A
<1>2. QED
  BY <1>1 DEF StopStops, StopOrders
-----------------------------------------------------------------------------
\* The same for a cleanup, which removes what it has stopped.
Removing(s) ==
  \/ inbox[s] = "session_cleanup"
  \/ pc = "cleaning" /\ cur = s /\ Existing(s) \subseteq remove
  \/ Existing(s) = {}

RemovalUnderWay(s) == NoStart(s) /\ (BeforeReply \/ Removing(s))

LEMMA StepRemoving ==
  ASSUME "list" \notin Failures, TypeInv, [Next]_vars,
         NEW s \in Sessions, want[s] = "session_cleanup", RemovalUnderWay(s),
         ~RemoveFails(s)
  PROVE  RemovalUnderWay(s)'
<1> USE DEF RemovalUnderWay, TypeInv, TypeOK
<1>1. NoStart(s)'
  BY StepNoStart
<1>2. CASE Existing(s) = {}
  BY <1>1, <1>2, StepGone DEF Removing
<1>3. CASE Reply
  BY <1>1, <1>3 DEF Reply, Removing, Orders
<1>4. ASSUME NEW t \in Sessions, BeginStop(t), Existing(s) # {}
      PROVE  RemovalUnderWay(s)'
  <2>1. /\ pc' \in {"stopping", "cleaning"} /\ cur' = t /\ box' = box
        /\ inbox' = [inbox EXCEPT ![t] = "none"] /\ pc = "sync"
    BY <1>4 DEF BeginStop, StageOf
  <2>2. inbox[t] = "session_cleanup" => pc' = "cleaning" /\ remove' = Existing(t)
    BY <1>4 DEF BeginStop, StageOf, ToStop
  <2>3. inbox[s] = "session_cleanup"
    BY <1>4, <2>1 DEF Removing, BeforeReply
  <2>4. Existing(t)' = Existing(t)
    BY <2>1 DEF Existing
  <2>5. Removing(s)'
    <3>1. CASE s = t
      BY <2>1, <2>2, <2>3, <2>4, <3>1 DEF Removing
    <3>2. CASE s # t
      BY <2>1, <2>3, <3>2 DEF Removing
    <3>3. QED
      BY <3>1, <3>2
  <2>6. QED
    BY <1>1, <2>5
<1>5. ASSUME NEW k \in Kinds, StopContainer(k) \/ RemoveContainer(k),
             Existing(s) # {}
      PROVE  RemovalUnderWay(s)'
  <2>1. /\ UNCHANGED <<inbox, pc, cur>> /\ pc \in StopStages /\ cur \in Sessions
        /\ remove' \subseteq remove
    BY <1>5, StopCall
  <2>2. PICK b : /\ box' = [box EXCEPT ![cur][k] = b]
                 /\ box[cur][k] = "absent" => b = "absent"
    BY <1>5, StopCall
  <2>3. CASE inbox[s] = "session_cleanup"
    BY <1>1, <2>1, <2>3 DEF Removing
  <2>4. CASE inbox[s] # "session_cleanup"
    <3>1. pc = "cleaning" /\ cur = s /\ Existing(s) \subseteq remove
      BY <1>5, <2>1, <2>4 DEF Removing, BeforeReply, StopStages
    <3>2. Existing(s)' \subseteq Existing(s)
      BY <2>1, <2>2, <3>1 DEF Existing
    <3>3. CASE StopContainer(k)
      BY <1>1, <2>1, <3>1, <3>2, <3>3 DEF StopContainer, Removing
    <3>4. CASE RemoveContainer(k)
      <4>1. box'[s][k] = "absent" /\ remove' = remove \ {k}
        BY <3>1, <3>4 DEF RemoveFails, RemoveContainer
      <4>2. k \notin Existing(s)'
        BY <4>1 DEF Existing
      <4>3. QED
        BY <1>1, <2>1, <3>1, <3>2, <4>1, <4>2 DEF Removing
    <3>5. QED
      BY <1>5, <3>3, <3>4
  <2>5. QED
    BY <2>3, <2>4
<1>6. CASE StopDone
  BY <1>1, <1>2, <1>6 DEF StopDone, Removing, BeforeReply, Existing, StopStages
<1>7. CASE SyncDone \/ Timeout \/ Crash
  BY <1>1, <1>7 DEF SyncDone, Timeout, Crash, BeforeReply
<1>8. CASE BeginPoll \/ SendReport \/ \E t \in Sessions : Inspect(t)
  BY <1>1, <1>8 DEF BeginPoll, SendReport, Inspect, BeforeReply
<1>9. ASSUME NEW t \in Sessions, SkipStart(t) \/ BeginStart(t)
      PROVE  RemovalUnderWay(s)'
  BY <1>1, <1>2, <1>9 DEF SkipStart, BeginStart, Removing, BeforeReply
<1>10. CASE \/ MakeVolume \/ CreateTracer \/ CreateTarget \/ StartTracer
            \/ StartTarget \/ StartFails
  BY <1>1, <1>2, <1>10 DEF MakeVolume, CreateTracer, CreateTarget, Create,
     StartTracer, StartTarget, StartFails, StageFails, Removing, BeforeReply
<1>11. ASSUME NEW t \in Sessions, NEW k \in Kinds, Exit(t, k)
       PROVE  RemovalUnderWay(s)'
  <2>1. Existing(s)' = Existing(s)
    BY <1>11 DEF Exit, Existing
  <2>2. UNCHANGED <<inbox, pc, cur, left, remove>>
    BY <1>11 DEF Exit
  <2>3. QED
    BY <1>1, <2>1, <2>2 DEF Removing, BeforeReply
<1>12. CASE UNCHANGED <<inbox, pc, cur, left, remove, box>>
  BY <1>1, <1>12 DEF Removing, BeforeReply, Existing
<1>13. QED
  BY <1>2, <1>3, <1>4, <1>5, <1>6, <1>7, <1>8, <1>9, <1>10, <1>11, <1>12
     DEF Next, DaemonStep, WantChanges, FileMDTakes, vars

\* A session that is to be cleaned up for ever has no container left for ever,
\* unless the runtime refuses again and again to remove them; that they can be
\* listed is assumed.
THEOREM CleanupsAreCarriedOut ==
  ASSUME "list" \notin Failures
  PROVE  Spec /\ KeepsSyncing => CleanupRemoves
<1>1. ASSUME NEW s \in Sessions
      PROVE  Spec /\ KeepsSyncing
               => (<>[](want[s] = "session_cleanup")
                     => <>[](Existing(s) = {}) \/ []<><<RemoveFails(s)>>_vars)
  <2> DEFINE H == want[s] = "session_cleanup"
             P == RemovalUnderWay(s)
             G == Existing(s) = {}
             Q == NoStart(s) /\ G
             A == RemoveFails(s)
  <2>1. TypeInv /\ [Next]_vars /\ H' /\ <<SyncDone>>_vars => P'
    BY SyncDoneNoStart DEF RemovalUnderWay, StopOrders
  <2>2. TypeInv /\ [Next]_vars /\ H /\ P /\ ~<<A>>_vars => P'
    <3> SUFFICES ASSUME TypeInv, [Next]_vars, H, P, ~<<A>>_vars PROVE P'
      OBVIOUS
    <3>1. CASE UNCHANGED vars
      BY <3>1 DEF vars, env, RemovalUnderWay, NoStart, MayStart, BeforeReply,
                  Removing, Existing
    <3>2. CASE ~(UNCHANGED vars)
      <4>1. ~A
        BY <3>2
      <4>2. QED
        BY <4>1, StepRemoving
    <3>3. QED
      BY <3>1, <3>2
  <2>3. TypeInv /\ [Next]_vars /\ P /\ <<SyncDone>>_vars => Q'
    <3> SUFFICES ASSUME TypeInv, [Next]_vars, P, SyncDone PROVE Q'
      OBVIOUS
    <3>1. G
      BY DEF SyncDone, RemovalUnderWay, BeforeReply, Removing, NoEvents
    <3>2. QED
      BY <3>1, StepNoStart, StepGone DEF RemovalUnderWay
  <2>4. TypeInv /\ [Next]_vars /\ Q => Q'
    BY StepNoStart, StepGone
  <2>5. Q => G
    OBVIOUS
  <2> HIDE DEF H, P, Q, G, A
  <2>6. Spec /\ KeepsSyncing => (<>[]H => <>[]G \/ []<><<A>>_vars)
    BY InitType, StepType, <2>1, <2>2, <2>3, <2>4, <2>5, PTL
       DEF Spec, KeepsSyncing
  <2>7. QED
    BY <2>6 DEF H, G, A
<1>2. QED
  BY <1>1 DEF CleanupRemoves
-----------------------------------------------------------------------------
\* The session has run, or something broke off what made its containers; the
\* simulator leaves none behind, neither in a crash nor when a start fails.
Explained(s) ==
  \/ runs[s] > 0
  \/ Runtime = "docker" /\ (crashes > 0 \/ lastStart[s] = "failed")

\* What is there without a start under way has an explanation.
ExistingExplained ==
  \A s \in Sessions :
    Existing(s) # {} => Explained(s) \/ (pc \in StartStages /\ cur = s)

LEMMA StepExplained ==
  ASSUME TypeInv, Runtime = "simulator" => PairInv, ExistingExplained, [Next]_vars
  PROVE  ExistingExplained'
<1> USE DEF TypeInv, TypeOK
<1>1. SUFFICES ASSUME NEW s \in Sessions, Existing(s)' # {},
                      ~(pc' \in StartStages /\ cur' = s)
               PROVE  Explained(s)'
  BY DEF ExistingExplained
<1>2. CASE StartTarget
  <2>1. cur \in Sessions /\ crashes' = crashes
    BY <1>2 DEF StartTarget, CurIsSession, BusyStages, StartStages, env
  <2>2. runs'[cur] > 0 /\ \A t \in Sessions : runs[t] > 0 => runs'[t] > 0
    BY <1>2, <2>1 DEF StartTarget
  <2>3. s # cur => lastStart'[s] = lastStart[s] /\ Existing(s)' = Existing(s)
    BY <1>2, <2>1 DEF StartTarget, Existing
  <2>4. QED
    BY <1>1, <2>1, <2>2, <2>3 DEF Explained, ExistingExplained
<1>3. CASE StartFails
  <2>1. cur \in Sessions
    BY <1>3 DEF StartFails, StageFails, CurIsSession, BusyStages, StartStages
  <2>2. /\ lastStart' = [lastStart EXCEPT ![cur] = "failed"]
        /\ UNCHANGED <<box, runs, crashes>>
    BY <1>3 DEF StartFails, env
  <2>3. CASE Runtime = "simulator"
    <3>1. pc = "volume" /\ Existing(cur) = {}
      BY <1>3, <2>3, FailuresAssumption
         DEF StartFails, StageFails, NameTaken, PairInv
    <3>2. s # cur
      BY <1>1, <2>2, <3>1 DEF Existing
    <3>3. QED
      BY <1>1, <2>1, <2>2, <2>3, <3>2 DEF Explained, ExistingExplained, Existing
  <2>4. QED
    BY <1>1, <2>1, <2>2, <2>3, RuntimeAssumption
       DEF Explained, ExistingExplained, Existing
<1>4. CASE Crash
  BY <1>1, <1>4, RuntimeAssumption DEF Crash, Explained, Existing
<1>5. CASE /\ UNCHANGED <<runs, crashes, lastStart>>
           /\ pc \in StartStages /\ cur = s => pc' \in StartStages /\ cur' = s
  <2>1. CASE Next
    <3>1. Existing(s) # {}
      BY <1>1, <1>5, <2>1, AbsentStays DEF Existing
    <3>2. QED
      BY <1>1, <1>5, <3>1 DEF ExistingExplained, Explained
  <2>2. CASE UNCHANGED vars
    BY <1>1, <2>2 DEF vars, env, history, ExistingExplained, Explained, Existing
  <2>3. QED
    BY <2>1, <2>2
<1>6. QED
  BY <1>2, <1>3, <1>4, <1>5
     DEF Next, DaemonStep, BeginPoll, Inspect, SendReport, Reply, Timeout,
         SyncDone, SkipStart, BeginStart, BeginStop, StageOf, MakeVolume,
         CreateTracer, CreateTarget, Create, StartTracer, StopContainer,
         RemoveContainer, StopDone, WantChanges, Exit, FileMDTakes, StartStages,
         StopStages, env, history, vars

\* The order to start is still to come, is there, or is being carried out.
StartUnderWay(s) ==
  BeforeReply \/ inbox[s] = "session_start" \/ (pc \in StartStages /\ cur = s)

\* Both containers are there, nothing is done to them, and only an order to
\* start may come, which is skipped.
LyingIdle(s) == /\ Existing(s) = Kinds
                /\ ~(pc \in BusyStages /\ cur = s)
                /\ inbox[s] \in {"none", "session_start"}

LEMMA StepStarting ==
  ASSUME "list" \notin Failures, TypeInv, [Next]_vars,
         NEW s \in Sessions, want[s] = "session_start", StartUnderWay(s),
         ~(runs'[s] > 0), ~(StartFails /\ cur = s)
  PROVE  StartUnderWay(s)' \/ LyingIdle(s)'
<1> USE DEF StartUnderWay, TypeInv, TypeOK, BeforeReply
<1>1. CASE Reply
  BY <1>1 DEF Reply, Orders
<1>2. ASSUME SkipStart(s) PROVE LyingIdle(s)'
  <2>1. /\ Existing(s) = Kinds /\ pc = "sync" /\ pc' = pc /\ box' = box
        /\ inbox' = [inbox EXCEPT ![s] = "none"]
    BY <1>2 DEF SkipStart, AlreadyStarted
  <2>2. QED
    BY <2>1 DEF LyingIdle, Existing, BusyStages, StartStages, StopStages
<1>3. ASSUME NEW t \in Sessions, \/ SkipStart(t) /\ t # s
                                 \/ BeginStart(t) \/ BeginStop(t)
      PROVE  StartUnderWay(s)'
  BY <1>3 DEF SkipStart, BeginStart, BeginStop, StartStages
<1>4. CASE MakeVolume \/ CreateTracer \/ CreateTarget \/ StartTracer
  BY <1>4 DEF MakeVolume, CreateTracer, CreateTarget, Create, StartTracer,
              StartStages
<1>5. CASE StartTarget
  <2>1. runs'[cur] > 0 /\ inbox' = inbox /\ cur \in Sessions
    BY <1>5 DEF StartTarget, CurIsSession, BusyStages, StartStages
  <2>2. QED
    BY <1>5, <2>1 DEF StartTarget
<1>6. CASE StartFails
  BY <1>6 DEF StartFails, StageFails, StartStages
<1>7. CASE StopDone \/ \E k \in Kinds : StopContainer(k) \/ RemoveContainer(k)
  BY <1>7 DEF StopDone, StopContainer, RemoveContainer, StartStages, StopStages
<1>8. CASE SyncDone \/ Timeout \/ Crash \/ BeginPoll \/ SendReport
  BY <1>8 DEF SyncDone, Timeout, Crash, BeginPoll, SendReport
<1>9. CASE UNCHANGED <<pc, inbox, cur>>
  BY <1>9
<1>10. QED
  BY <1>1, <1>2, <1>3, <1>4, <1>5, <1>6, <1>7, <1>8, <1>9
     DEF Next, DaemonStep, Inspect, WantChanges, Exit, FileMDTakes, vars

\* What lies idle stays so, with Docker; the simulator's has run.
LEMMA StepIdle ==
  ASSUME Runtime = "docker", "list" \notin Failures, TypeInv, [Next]_vars,
         NEW s \in Sessions, want[s] = "session_start", LyingIdle(s)
  PROVE  LyingIdle(s)'
<1> USE DEF LyingIdle, TypeInv, TypeOK
<1>1. Existing(s)' = Kinds
  <2>1. CASE Next
    BY <2>1, ExistingStays DEF Existing, BusyStages
  <2>2. CASE UNCHANGED vars
    BY <2>2 DEF vars, Existing
  <2>3. QED
    BY <2>1, <2>2
<1>2. CASE Reply
  BY <1>1, <1>2 DEF Reply, BusyStages, StartStages, StopStages
<1>3. ASSUME NEW t \in Sessions, SkipStart(t) \/ BeginStart(t) \/ BeginStop(t)
      PROVE  LyingIdle(s)'
  <2>1. pc = "sync" /\ inbox' = [inbox EXCEPT ![t] = "none"]
        /\ (pc' # "sync" => cur' = t)
    BY <1>3 DEF SkipStart, BeginStart, BeginStop
  <2>2. pc' # "sync" => t # s
    BY <1>3 DEF SkipStart, BeginStart, BeginStop, AlreadyStarted
  <2>3. QED
    BY <1>1, <2>1, <2>2 DEF BusyStages, StartStages, StopStages
<1>4. CASE Crash
  BY <1>1, <1>4 DEF Crash, NoEvents, BusyStages, StartStages, StopStages
<1>5. ASSUME inbox' = inbox,
             pc' \in BusyStages => pc \in BusyStages /\ cur' = cur
      PROVE  LyingIdle(s)'
  BY <1>1, <1>5
<1>6. QED
  BY <1>2, <1>3, <1>4, <1>5
     DEF Next, DaemonStep, BeginPoll, Inspect, SendReport, Timeout, SyncDone,
         MakeVolume, CreateTracer, CreateTarget, Create, StartTracer,
         StartTarget, StartFails, StageFails, StopContainer, RemoveContainer,
         StopDone, WantChanges, Exit, FileMDTakes, vars, BusyStages,
         StartStages, StopStages

\* A session whose start is wanted for ever is started, unless its start fails
\* again and again or a crash or a failure left both its containers there, for
\* ever.
THEOREM StartsAreCarriedOut ==
  ASSUME "list" \notin Failures
  PROVE  Spec /\ KeepsSyncing => WantedIsStarted
<1> DEFINE Inv == /\ TypeInv /\ ExistingExplained
                  /\ Runtime = "simulator" => PairInv
<1>1. Init => Inv
  BY InitType
     DEF Init, ExistingExplained, PairInv, Existing, BusyStages, StartStages,
         StopStages
<1>2. Inv /\ [Next]_vars => Inv'
  <2>1. Inv /\ Next => Inv'
    BY StepType, StepExplained, StepPair
  <2>2. Inv /\ UNCHANGED vars => Inv'
    BY StepType, StepExplained DEF vars, PairInv, Existing
  <2>3. QED
    BY <2>1, <2>2
<1>3. ASSUME NEW s \in Sessions
      PROVE  Spec /\ KeepsSyncing
               => (<>[](want[s] = "session_start")
                     => \/ <>(runs[s] > 0)
                        \/ <>[]LeftOver(s)
                        \/ []<><<StartFails /\ cur = s>>_vars)
  <2> DEFINE H == want[s] = "session_start"
             R == runs[s] > 0
             L == LeftOver(s)
             P == StartUnderWay(s)
             Q == LyingIdle(s)
             A == StartFails /\ cur = s
  <2>1. <<SyncDone>>_vars => P'
    BY DEF SyncDone, StartUnderWay, BeforeReply
  <2>2. Inv /\ [Next]_vars /\ H /\ P /\ ~R' /\ ~<<A>>_vars => P' \/ Q'
    <3> SUFFICES ASSUME Inv, [Next]_vars, H, P, ~R', ~<<A>>_vars PROVE P' \/ Q'
      OBVIOUS
    <3>1. CASE UNCHANGED vars
      BY <3>1 DEF vars, StartUnderWay, BeforeReply
    <3>2. CASE ~(UNCHANGED vars)
      <4>1. ~A
        BY <3>2
      <4>2. QED
        BY <4>1, StepStarting
    <3>3. QED
      BY <3>1, <3>2
  <2>3. P => ~<<SyncDone>>_vars
    BY DEF SyncDone, StartUnderWay, BeforeReply, NoEvents, StartStages
  <2>4. Inv /\ Q /\ ~R => L /\ Runtime = "docker"
    BY DEF LyingIdle, ExistingExplained, Explained, LeftOver, BusyStages, Kinds
  <2>5. Inv /\ [Next]_vars /\ H /\ Q /\ ~R => Q'
    BY <2>4, StepIdle
  <2>6. Inv /\ Q /\ ~R => L
    BY <2>4
  <2> HIDE DEF H, R, L, P, Q, A, Inv
  <2>7. Spec /\ KeepsSyncing => (<>[]H => <>R \/ <>[]L \/ []<><<A>>_vars)
    BY <1>1, <1>2, <2>1, <2>2, <2>3, <2>5, <2>6, PTL DEF Spec, KeepsSyncing
  <2>8. QED
    BY <2>7 DEF H, R, L, A
<1>4. QED
  BY <1>3 DEF WantedIsStarted
-----------------------------------------------------------------------------
\* With the simulator: what the daemon comes to report of a session whose order
\* it has carried out.

\* Whoever is on the way to a reply has dealt with the last one.
InboxInv == BeforeReply => inbox = NoEvents

\* Containers of the simulator exit with code 0.
UnbrokenInv == \A s \in Sessions, k \in Kinds : box[s][k] # "broken"

SimulatorInv == /\ TypeInv /\ OrdersInv /\ PairInv /\ StillInv /\ ReportInv
                /\ InboxInv /\ UnbrokenInv

LEMMA StepInbox ==
  ASSUME TypeInv, InboxInv, [Next]_vars
  PROVE  InboxInv'
BY DEF TypeInv, TypeOK, InboxInv, BeforeReply, Next, DaemonStep, BeginPoll,
       Inspect, SendReport, Reply, Timeout, SyncDone, SkipStart, BeginStart,
       BeginStop, StageOf, StopStages, MakeVolume, CreateTracer, CreateTarget,
       Create, StartTracer, StartTarget, StartFails, StopContainer,
       RemoveContainer, StopDone, WantChanges, Exit, FileMDTakes, Crash,
       NoEvents, vars

LEMMA StepUnbroken ==
  ASSUME Runtime = "simulator", TypeInv, UnbrokenInv, [Next]_vars
  PROVE  UnbrokenInv'
<1> USE DEF UnbrokenInv, TypeInv, TypeOK
<1>1. ASSUME NEW k \in Kinds, StopContainer(k) \/ RemoveContainer(k)
      PROVE  UnbrokenInv'
  <2>1. cur \in Sessions /\ box[cur][k] # "broken"
    BY <1>1, StopCall
  <2>2. PICK b : b # "broken" /\ box' = [box EXCEPT ![cur][k] = b]
    BY <1>1, <2>1
       DEF StopContainer, Stopped, StoppedBySimulator, RemoveContainer, Removed,
           RemovedBySimulator
  <2>3. QED
    BY <2>1, <2>2
<1>2. CASE CreateTracer \/ CreateTarget \/ StartTracer \/ StartTarget
  <2>1. PICK k \in Kinds, b \in {"created", "running"} :
          box' = [box EXCEPT ![cur][k] = b]
    BY <1>2
       DEF CreateTracer, CreateTarget, Create, StartTracer, StartTarget, Kinds
  <2>2. cur \in Sessions
    BY <1>2 DEF CreateTracer, CreateTarget, StartTracer, StartTarget,
                CurIsSession, BusyStages, StartStages
  <2>3. QED
    BY <2>1, <2>2
<1>3. CASE Crash
  BY <1>3 DEF Crash
<1>4. CASE UNCHANGED box
  BY <1>4
<1>5. QED
  BY <1>1, <1>2, <1>3, <1>4
     DEF Next, DaemonStep, BeginPoll, Inspect, SendReport, Reply, Timeout,
         SyncDone, SkipStart, BeginStart, BeginStop, StageOf, MakeVolume,
         StartFails, StopDone, WantChanges, Exit, FileMDTakes, vars

LEMMA SimulatorHolds ==
  ASSUME Runtime = "simulator"
  PROVE  Spec => []SimulatorInv
<1>1. InspectTellsLabels /\ "inspect" \notin Failures
  BY FailuresAssumption
     DEF InspectTellsLabels, SimulatorTellsLabels, DockerTellsLabels
<1>2. Init => SimulatorInv
  <2>1. Init => OrdersInv /\ InboxInv /\ UnbrokenInv
    BY DEF Init, OrdersInv, InboxInv, UnbrokenInv, NoEvents
  <2>2. Init => PairInv /\ StillInv /\ ReportInv
    BY DEF Init, PairInv, Existing, BusyStages, StartStages, StopStages,
           StillInv, Kinds, ReportInv
  <2>3. QED
    BY <2>1, <2>2, InitType DEF SimulatorInv
<1>3. SimulatorInv /\ [Next]_vars => SimulatorInv'
  <2>1. TypeInv /\ InboxInv /\ UnbrokenInv /\ [Next]_vars
          => TypeInv' /\ InboxInv' /\ UnbrokenInv'
    BY StepType, StepInbox, StepUnbroken
  <2>2. SimulatorInv /\ Next => OrdersInv' /\ PairInv' /\ StillInv' /\ ReportInv'
    BY <1>1, StepOrders, StepPair, StepStill, StepReport DEF SimulatorInv
  <2>3. SimulatorInv /\ UNCHANGED vars
          => OrdersInv' /\ PairInv' /\ StillInv' /\ ReportInv'
    BY DEF SimulatorInv, vars, env, PairInv, Existing, OrdersInv, StillInv,
           ReportInv, Silent, MayStart
  <2>4. QED
    BY <2>1, <2>2, <2>3 DEF SimulatorInv
<1>4. QED
  BY <1>2, <1>3, PTL DEF Spec

\* Over, and what is reported of it is nothing else.
Quiet(s) ==
  /\ Silent(s)
  /\ pc \in {"report", "sent"} => report[s] \in {"none", "session_end"}

LEMMA StepQuiet ==
  ASSUME SimulatorInv, [Next]_vars, NEW s \in Sessions, Quiet(s)
  PROVE  Quiet(s)'
<1> USE DEF SimulatorInv, Quiet
<1>1. Silent(s)'
  BY StepSilent
<1>2. CASE BeginPoll
  BY <1>1, <1>2 DEF BeginPoll, NoEvents
<1>3. ASSUME NEW t \in Sessions, Inspect(t) PROVE Quiet(s)'
  <2>1. s = t => EventOf(box[t]["target"]) = "session_end"
    <3>1. s = t => box[t]["target"] \in {"created", "done"}
      BY <1>3 DEF Inspect, Silent, UnbrokenInv, TypeInv, TypeOK, ListedExist,
                  ContainerState, Kinds
    <3>2. QED
      BY <3>1 DEF EventOf
  <2>2. QED
    BY <1>1, <1>3, <2>1 DEF Inspect, TypeInv, TypeOK
<1>4. CASE SendReport
  BY <1>1, <1>4 DEF SendReport
<1>5. CASE pc' \notin {"report", "sent"}
  BY <1>1, <1>5
<1>6. CASE UNCHANGED <<pc, report>>
  BY <1>1, <1>6
<1>7. QED
  BY <1>2, <1>3, <1>4, <1>5, <1>6
     DEF Next, DaemonStep, Reply, Timeout, SyncDone, SkipStart, BeginStart,
         BeginStop, StageOf, MakeVolume, CreateTracer, CreateTarget, Create,
         StartTracer, StartTarget, StartFails, StopContainer, RemoveContainer,
         StopDone, WantChanges, Exit, FileMDTakes, Crash, vars

\* The order to start is there, is being carried out, or has been.
Starting(s) == \/ inbox[s] = "session_start"
               \/ pc \in StartStages /\ cur = s
               \/ box[s]["target"] = "running"

LEMMA StepStarted ==
  ASSUME Runtime = "simulator", SimulatorInv, [Next]_vars, NEW s \in Sessions,
         want[s] = "session_start", box[s]["target"] = "running"
  PROVE  box'[s]["target"] = "running" \/ Crash
<1> USE DEF SimulatorInv, TypeInv, TypeOK
<1>1. ASSUME NEW k \in Kinds, StopContainer(k) \/ RemoveContainer(k)
      PROVE  box'[s]["target"] = "running"
  <2>1. pc \in {"stopping", "cleaning"} /\ cur \in Sessions
    BY <1>1, StopCall DEF StopContainer, RemoveContainer, StillInv, StopStages
  <2>2. cur # s
    BY <2>1 DEF OrdersInv
  <2>3. PICK b \in ContainerState : box' = [box EXCEPT ![cur][k] = b]
    BY <1>1, StopCall
  <2>4. QED
    BY <2>1, <2>2, <2>3 DEF Kinds
<1>2. CASE CreateTracer \/ CreateTarget \/ StartTracer \/ StartTarget
  BY <1>2
     DEF CreateTracer, CreateTarget, Create, StartTracer, StartTarget, Kinds
<1>3. CASE UNCHANGED box
  BY <1>3
<1>4. QED
  BY <1>1, <1>2, <1>3
     DEF Next, DaemonStep, BeginPoll, Inspect, SendReport, Reply, Timeout,
         SyncDone, SkipStart, BeginStart, BeginStop, StageOf, MakeVolume,
         StartFails, StopDone, WantChanges, Exit, FileMDTakes, vars

LEMMA StepStart ==
  ASSUME Runtime = "simulator", SimulatorInv, [Next]_vars, NEW s \in Sessions,
         want[s] = "session_start", Starting(s), ~(StartFails /\ cur = s)
  PROVE  Starting(s)' \/ Crash
<1> USE DEF SimulatorInv, TypeInv, TypeOK
<1>1. CASE box[s]["target"] = "running"
  BY <1>1, StepStarted DEF Starting
<1>2. CASE Reply \/ SyncDone \/ Timeout \/ BeginPoll \/ SendReport
           \/ \E t \in Sessions : Inspect(t)
  BY <1>1, <1>2 DEF Reply, SyncDone, Timeout, BeginPoll, SendReport, Inspect,
     InboxInv, BeforeReply, Starting, NoEvents, StartStages
<1>3. ASSUME SkipStart(s) PROVE box[s]["target"] = "running"
  <2>1. pc = "sync" /\ box[s]["target"] # "absent" /\ MayStart(s)
    BY <1>3, FailuresAssumption
       DEF SkipStart, AlreadyStarted, Existing, Kinds, MayStart
  <2>2. box[s]["target"] \notin {"created", "done", "broken"}
    BY <2>1 DEF StillInv, Silent
  <2>3. QED
    BY <2>1, <2>2 DEF ContainerState, Kinds
<1>4. ASSUME NEW t \in Sessions, \/ SkipStart(t) /\ t # s
                                 \/ BeginStart(t) \/ BeginStop(t)
      PROVE  Starting(s)'
  BY <1>1, <1>4
     DEF SkipStart, BeginStart, BeginStop, StageOf, StartStages, Starting
<1>5. CASE MakeVolume \/ CreateTracer \/ CreateTarget \/ StartTracer
  BY <1>1, <1>5 DEF MakeVolume, CreateTracer, CreateTarget, Create, StartTracer,
                    StartStages, Starting
<1>6. CASE StartTarget
  <2>1. /\ cur \in Sessions /\ inbox' = inbox
        /\ box' = [box EXCEPT ![cur]["target"] = "running"]
    BY <1>6 DEF StartTarget, CurIsSession, BusyStages, StartStages
  <2>2. cur = s => box'[s]["target"] = "running"
    BY <2>1 DEF Kinds
  <2>3. QED
    BY <1>1, <2>1, <2>2 DEF Starting
<1>7. CASE StopDone \/ \E k \in Kinds : StopContainer(k) \/ RemoveContainer(k)
  BY <1>1, <1>7 DEF StopDone, StopContainer, RemoveContainer, StartStages,
                    StopStages, Starting
<1>8. CASE StartFails
  BY <1>1, <1>8 DEF StartFails, Starting
<1>9. CASE UNCHANGED <<pc, inbox, cur, box>>
  BY <1>9 DEF Starting
<1>10. QED
  BY <1>1, <1>2, <1>3, <1>4, <1>5, <1>6, <1>7, <1>8, <1>9
     DEF Next, DaemonStep, WantChanges, Exit, FileMDTakes, vars

\* The target runs, and that is what is reported of it.
Running(s) ==
  /\ box[s]["target"] = "running"
  /\ pc \in {"report", "sent"} => s \in todo \/ report[s] = "session_running"

LEMMA StepRunning ==
  ASSUME Runtime = "simulator", SimulatorInv, [Next]_vars, NEW s \in Sessions,
         want[s] = "session_start", Running(s)
  PROVE  Running(s)' \/ Crash
<1> USE DEF SimulatorInv, Running
<1>1. box'[s]["target"] = "running" \/ Crash
  BY StepStarted
<1>2. CASE BeginPoll
  BY <1>1, <1>2 DEF BeginPoll
<1>3. ASSUME NEW t \in Sessions, Inspect(t) PROVE Running(s)'
  <2>1. /\ todo' = todo \ {t} /\ pc' = pc /\ box' = box
        /\ report' = [report EXCEPT ![t] = EventOf(box[t]["target"])]
    BY <1>3, FailuresAssumption
       DEF Inspect, InspectTellsLabels, SimulatorTellsLabels, DockerTellsLabels
  <2>2. EventOf("running") = "session_running"
    BY DEF EventOf
  <2>3. QED
    BY <2>1, <2>2 DEF TypeInv, TypeOK
<1>4. CASE SendReport
  BY <1>1, <1>4 DEF SendReport
<1>5. CASE pc' \notin {"report", "sent"}
  BY <1>1, <1>5
<1>6. CASE UNCHANGED <<pc, todo, report>>
  BY <1>1, <1>6
<1>7. QED
  BY <1>2, <1>3, <1>4, <1>5, <1>6
     DEF Next, DaemonStep, Reply, Timeout, SyncDone, SkipStart, BeginStart,
         BeginStop, StageOf, MakeVolume, CreateTracer, CreateTarget, Create,
         StartTracer, StartTarget, StartFails, StopContainer, RemoveContainer,
         StopDone, WantChanges, Exit, FileMDTakes, Crash, vars
-----------------------------------------------------------------------------
\* That orders are carried out presupposes that the daemon gets through them.

\* It carries out the orders of a reply.
Syncing == pc \in {"sync"} \cup BusyStages

\* How far it has come with the order at hand.
HowMany(kinds) == IF kinds = {} THEN 0 ELSE IF kinds = Kinds THEN 2 ELSE 1

Stage == CASE pc = "volume"       -> 0
           [] pc = "createTracer" -> 1
           [] pc = "createTarget" -> 2
           [] pc = "startTracer"  -> 3
           [] pc = "startTarget"  -> 4
           [] pc \in StopStages   -> 9 - HowMany(left) - HowMany(remove)
           [] OTHER               -> 10

LEMMA StageIsBounded == Stage \in 0..10
BY DEF Stage, HowMany, StopStages

LEMMA OneFewer ==
  ASSUME NEW S \in SUBSET Kinds, NEW k \in S
  PROVE  HowMany(S \ {k}) = HowMany(S) - 1
<1>1. CASE S = Kinds
  <2>1. S \ {k} # {} /\ S \ {k} # Kinds
    BY <1>1 DEF Kinds
  <2>2. QED
    BY <1>1, <2>1 DEF HowMany, Kinds
<1>2. CASE S # Kinds
  <2>1. S \ {k} = {}
    BY <1>2 DEF Kinds
  <2>2. QED
    BY <1>2, <2>1 DEF HowMany
<1>3. QED
  BY <1>1, <1>2

\* What is left of a set, or of the orders, after a step that adds nothing.
OrdersShrink == \/ inbox' = inbox
                \/ \E s \in Sessions : /\ inbox[s] # "none"
                                       /\ inbox' = [inbox EXCEPT ![s] = "none"]
TargetsShrink == todo' \subseteq todo

\* While orders are carried out they only get fewer, and each of the daemon's
\* steps takes the order at hand on, or takes the next one.
LEMMA SyncingStep ==
  ASSUME TypeInv, Syncing, [Next]_vars, ~Crash, ~SyncDone
  PROVE  /\ Syncing'
         /\ OrdersShrink
         /\ inbox' = inbox => /\ Stage' >= Stage
                              /\ DaemonStep => Stage' > Stage
<1> USE DEF Syncing, BusyStages, StartStages, StopStages, OrdersShrink
<1>1. Stage \in 0..10 /\ Stage' \in 0..10
  BY DEF Stage, HowMany
<1>2. ASSUME NEW s \in Sessions, SkipStart(s) \/ BeginStart(s) \/ BeginStop(s)
      PROVE  /\ Syncing'
             /\ inbox[s] # "none"
             /\ inbox' = [inbox EXCEPT ![s] = "none"]
             /\ inbox' # inbox
  BY <1>2 DEF SkipStart, BeginStart, BeginStop, StageOf, TypeInv, TypeOK
<1>3. CASE MakeVolume \/ CreateTracer \/ CreateTarget \/ StartTracer \/ StartTarget
  <2>1. inbox' = inbox /\ Syncing' /\ Stage' > Stage
    BY <1>3 DEF MakeVolume, CreateTracer, CreateTarget, Create, StartTracer,
                StartTarget, Stage
  <2>2. QED
    BY <1>1, <2>1
<1>4. CASE StartFails
  <2>1. inbox' = inbox /\ Syncing' /\ Stage <= 4 /\ Stage' >= 5
    BY <1>4 DEF StartFails, StageFails, Stage, HowMany
  <2>2. QED
    BY <1>1, <2>1
<1>5. ASSUME NEW k \in Kinds, StopContainer(k) \/ RemoveContainer(k)
      PROVE  inbox' = inbox /\ Syncing' /\ Stage' > Stage
  <2>1. pc' = pc /\ inbox' = inbox /\ pc \in StopStages
    BY <1>5 DEF StopContainer, RemoveContainer
  <2>2. left \in SUBSET Kinds /\ remove \in SUBSET Kinds
    BY DEF TypeInv, TypeOK
  <2>3. \/ HowMany(left') = HowMany(left) - 1 /\ HowMany(remove') = HowMany(remove)
        \/ HowMany(left') = HowMany(left) /\ HowMany(remove') = HowMany(remove) - 1
    BY <1>5, <2>2, OneFewer DEF StopContainer, RemoveContainer
  <2>4. Stage' = 9 - HowMany(left') - HowMany(remove')
    BY <2>1 DEF Stage
  <2>5. Stage = 9 - HowMany(left) - HowMany(remove)
    BY <2>1 DEF Stage
  <2>6. HowMany(left) \in 0..2 /\ HowMany(remove) \in 0..2
    BY DEF HowMany
  <2>7. QED
    BY <2>1, <2>3, <2>4, <2>5, <2>6
<1>6. CASE StopDone
  BY <1>6 DEF StopDone, Stage, HowMany
<1>7. CASE UNCHANGED <<pc, inbox, left, remove>>
  <2>1. Stage' = Stage
    BY <1>7 DEF Stage, HowMany
  <2>2. ~DaemonStep
    <3>1. ~\E s \in Sessions : SkipStart(s) \/ BeginStart(s) \/ BeginStop(s)
      BY <1>2, <1>7
    <3>2. ~\E k \in Kinds : StopContainer(k) \/ RemoveContainer(k)
      BY <1>7 DEF StopContainer, RemoveContainer
    <3>3. QED
      BY <1>7, <3>1, <3>2
         DEF DaemonStep, BeginPoll, Inspect, SendReport, Reply, Timeout,
             SyncDone, MakeVolume, CreateTracer, CreateTarget, StartTracer,
             StartTarget, StartFails, StageFails, StopDone
  <2>3. QED
    BY <1>1, <1>7, <2>1, <2>2
<1>8. ~(BeginPoll \/ SendReport \/ Reply \/ Timeout \/ \E s \in Sessions : Inspect(s))
  BY DEF BeginPoll, SendReport, Reply, Timeout, Inspect
<1>9. CASE DaemonStep
  BY <1>1, <1>2, <1>3, <1>4, <1>5, <1>6, <1>8, <1>9 DEF DaemonStep
<1>10. QED
  BY <1>7, <1>9 DEF Next, WantChanges, Exit, FileMDTakes, vars

\* Between two replies the daemon lists, inspects, sends and waits.
LEMMA PollingStep ==
  ASSUME TypeInv, ~Syncing, [Next]_vars, ~Crash
  PROVE  /\ Reply => Syncing'
         /\ pc = "sleep" => /\ pc' \in {"sleep", "report"}
                            /\ DaemonStep => pc' = "report"
         /\ pc = "report" => /\ pc' \in {"report", "sent"}
                             /\ pc' = "report" => TargetsShrink
                             /\ DaemonStep => pc' = "sent" \/ todo' # todo
         /\ pc = "sent" /\ ~Reply => /\ pc' \in {"sent", "sleep"}
                                     /\ DaemonStep => pc' = "sleep"
<1> USE DEF Syncing, BusyStages, StartStages, StopStages, TargetsShrink
<1>1. pc \in {"sleep", "report", "sent"}
  BY DEF TypeInv, TypeOK
<1>2. CASE UNCHANGED <<pc, todo>>
  BY <1>1, <1>2
     DEF DaemonStep, BeginPoll, Inspect, SendReport, Reply, Timeout, SyncDone,
         SkipStart, BeginStart, BeginStop, StageOf, MakeVolume, CreateTracer,
         CreateTarget, StartTracer, StartTarget, StartFails, StageFails,
         StopContainer, RemoveContainer, StopDone
<1>3. CASE DaemonStep
  BY <1>1, <1>3
     DEF DaemonStep, BeginPoll, Inspect, SendReport, Reply, Timeout, SyncDone,
         SkipStart, BeginStart, BeginStop, StageOf, MakeVolume, CreateTracer,
         CreateTarget, StartTracer, StartTarget, StartFails, StageFails,
         StopContainer, RemoveContainer, StopDone
<1>4. QED
  BY <1>2, <1>3 DEF Next, WantChanges, Exit, FileMDTakes, vars

\* The daemon always has a step to take, and a poll can be answered.
DaemonGoesOn == /\ ENABLED <<DaemonStep>>_vars
                /\ pc = "sent" => ENABLED <<Reply>>_vars

\* There is a last crash: they are counted.
CrashesEnd == <>[][~Crash]_vars

\* Orders that only get fewer, and targets that do, come to stay as they are.
\* Of finitely many sessions this is true in every behaviour, by an induction.
OrdersRunOut  == <>[][OrdersShrink]_vars  => <>[][inbox' = inbox]_vars
TargetsRunOut == <>[][TargetsShrink]_vars => <>[][todo' = todo]_vars

LEMMA SyncingEnds ==
  /\ []TypeInv /\ [][Next]_vars /\ [][~Crash]_vars /\ [][~SyncDone]_vars
  /\ []DaemonGoesOn /\ WF_vars(DaemonStep) /\ OrdersRunOut
  => []~Syncing
<1> DEFINE At(n) == Syncing /\ Stage >= n
           Move == TypeInv /\ [Next]_vars /\ ~<<Crash>>_vars /\ ~<<SyncDone>>_vars
           Same == [inbox' = inbox]_vars
           On(n, m) == At(n)' /\ (<<DaemonStep>>_vars => At(m)')
<1>1. Move /\ Syncing => Syncing' /\ [OrdersShrink]_vars
  <2>1. UNCHANGED vars /\ Syncing => Syncing'
    BY DEF vars, Syncing
  <2>2. QED
    BY <2>1, SyncingStep
<1>2. ASSUME NEW n \in 0..10, NEW m \in 1..11, m = n + 1, Move, Same, At(n)
      PROVE  On(n, m)
  <2>1. Stage \in 0..10 /\ Stage' \in 0..10
    BY DEF Stage, HowMany, StopStages
  <2>2. CASE UNCHANGED vars
    BY <1>2, <2>2 DEF vars, Syncing, Stage, HowMany
  <2>3. CASE vars' # vars
    BY <1>2, <2>1, <2>3, SyncingStep
  <2>4. QED
    BY <2>2, <2>3
<1> HIDE DEF On, Move, Same
<1>3. /\ Move /\ Same /\ At(0) => On(0, 1)
      /\ Move /\ Same /\ At(1) => On(1, 2)
      /\ Move /\ Same /\ At(2) => On(2, 3)
      /\ Move /\ Same /\ At(3) => On(3, 4)
      /\ Move /\ Same /\ At(4) => On(4, 5)
      /\ Move /\ Same /\ At(5) => On(5, 6)
      /\ Move /\ Same /\ At(6) => On(6, 7)
      /\ Move /\ Same /\ At(7) => On(7, 8)
      /\ Move /\ Same /\ At(8) => On(8, 9)
      /\ Move /\ Same /\ At(9) => On(9, 10)
      /\ Move /\ Same /\ At(10) => On(10, 11)
  BY <1>2
<1>4. (Syncing => At(0)) /\ ~At(11)
  BY StageIsBounded
<1> HIDE DEF At
<1>5. /\ []TypeInv /\ [][Next]_vars /\ [][~Crash]_vars /\ [][~SyncDone]_vars
      => [](Syncing => []Syncing /\ [][OrdersShrink]_vars)
  BY <1>1, PTL DEF Move
<1>6. /\ []TypeInv /\ [][Next]_vars /\ [][~Crash]_vars /\ [][~SyncDone]_vars
      /\ []DaemonGoesOn /\ WF_vars(DaemonStep) /\ [][inbox' = inbox]_vars
      => []~Syncing
  BY <1>3, <1>4, PTL DEF On, Move, Same, DaemonGoesOn
<1>7. QED
  BY <1>5, <1>6, PTL DEF OrdersRunOut

LEMMA PollingEnds ==
  /\ []TypeInv /\ [][Next]_vars /\ [][~Crash]_vars
  /\ []DaemonGoesOn /\ WF_vars(DaemonStep) /\ SF_vars(Reply) /\ TargetsRunOut
  => <>Syncing
<1> DEFINE Sleep  == pc = "sleep"
           Report == pc = "report"
           Sent   == pc = "sent"
           Move   == TypeInv /\ [Next]_vars /\ ~<<Crash>>_vars
           Still  == [todo' = todo]_vars
<1>1. TypeInv => Syncing \/ Sleep \/ Report \/ Sent
  BY DEF TypeInv, TypeOK, Syncing, BusyStages, StartStages, StopStages
<1>2. UNCHANGED vars => (Sleep' <=> Sleep) /\ (Report' <=> Report) /\ (Sent' <=> Sent)
  BY DEF vars
<1>3. Move /\ ~Syncing /\ Sleep => (Sleep' \/ Report') /\ (<<DaemonStep>>_vars => Report')
  BY <1>2, PollingStep
<1>4. Move /\ ~Syncing /\ Report => /\ Report' \/ Sent'
                                    /\ Report' => [TargetsShrink]_vars
                                    /\ Still /\ <<DaemonStep>>_vars => Sent'
  BY <1>2, PollingStep
<1>5. Move /\ ~Syncing /\ Sent /\ ~<<Reply>>_vars
        => (Sent' \/ Sleep') /\ (<<DaemonStep>>_vars => Sleep')
  BY <1>2, PollingStep
<1>6. Move /\ ~Syncing /\ <<Reply>>_vars => Syncing'
  BY PollingStep
<1>7. DaemonGoesOn => ENABLED <<DaemonStep>>_vars /\ (Sent => ENABLED <<Reply>>_vars)
  BY DEF DaemonGoesOn
<1> HIDE DEF Sleep, Report, Sent
<1>8. QED
  BY <1>1, <1>3, <1>4, <1>5, <1>6, <1>7, PTL DEF Move, Still, TargetsRunOut

\* The daemon gets through the orders of a reply again and again, whatever
\* fails: each order takes at most ten steps, each poll looks at every target
\* once, and not every poll times out.
THEOREM SyncsRecur ==
  FairSpec /\ []DaemonGoesOn /\ CrashesEnd /\ OrdersRunOut /\ TargetsRunOut
    => KeepsSyncing
<1>1. [](/\ []TypeInv /\ [][Next]_vars /\ [][~Crash]_vars /\ [][~SyncDone]_vars
         /\ []DaemonGoesOn /\ WF_vars(DaemonStep) /\ OrdersRunOut
         => []~Syncing)
  BY SyncingEnds, PTL
<1>2. [](/\ []TypeInv /\ [][Next]_vars /\ [][~Crash]_vars
         /\ []DaemonGoesOn /\ WF_vars(DaemonStep) /\ SF_vars(Reply) /\ TargetsRunOut
         => <>Syncing)
  BY PollingEnds, PTL
<1>3. SyncDone => vars' # vars
  BY DEF SyncDone, vars
<1>4. QED
  BY <1>1, <1>2, <1>3, InitType, StepType, PTL
     DEF FairSpec, Spec, CrashesEnd, OrdersRunOut, TargetsRunOut, KeepsSyncing
=============================================================================
