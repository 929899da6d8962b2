------------------------------- MODULE Dockerd -------------------------------
(***************************************************************************)
(* One Docker daemon (DockerD): its poll loop, the containers and volumes  *)
(* it keeps for its sessions, and the runtime that runs them.  The daemon  *)
(* is one goroutine.  It inspects its target containers and reports them,  *)
(* waits for the reply or gives up, and carries out the orders of the      *)
(* reply one by one, each call to the runtime a step of its own.  Between  *)
(* any two steps a container may exit, the API may change its mind, FileMD *)
(* may take a volume away, and the daemon may crash and start again.       *)
(*                                                                         *)
(* What the API wants of a session is an environment here.  It may change  *)
(* at any time, but a session that has left "session_start" never returns  *)
(* to it: that is the theorem PendingIsLeftForGood of ApiSessionsProofs.   *)
(***************************************************************************)
EXTENDS Naturals, FiniteSets

CONSTANTS
  Sessions,    \* the sessions assigned to this daemon
  Runtime,     \* ContainerRuntimeInterface: "simulator" or "docker"
  Failures,    \* the operations that may fail
  MaxCrashes,  \* bound: crashes of the daemon
  NoSession    \* no session

Operations == {"command", "files", "list", "inspect", "create", "start",
               "stop", "remove"}

ASSUME RuntimeAssumption == Runtime \in {"simulator", "docker"}
\* The simulator keeps its containers in memory and has no call that fails.
ASSUME FailuresAssumption ==
  /\ Failures \subseteq Operations
  /\ Runtime = "simulator" => Failures \subseteq {"command", "files"}
ASSUME MaxCrashesAssumption == MaxCrashes \in Nat
ASSUME NoSessionAssumption == NoSession \notin Sessions

Kinds == {"target", "tracer"}

\* A container that is not running is exited for the daemon, whether it has
\* run or not; "done" has exit code 0, "broken" another one.
ContainerState == {"absent", "created", "running", "done", "broken"}

\* The directory of a session: "empty" has no lock and no logs, "ready" has
\* logs and no lock, which is what FileMD waits for.
VolumeState == {"none", "empty", "locked", "ready"}

Orders == {"session_start", "session_stopped", "session_cleanup"}
Reports == {"session_running", "session_end", "session_failed"}
StartStages == {"volume", "createTracer", "createTarget", "startTracer",
                "startTarget"}
\* An order to stop, an order to clean up, and the undoing of a failed start.
StopStages  == {"stopping", "cleaning", "undoing"}

VARIABLES
  box,        \* session -> kind -> state of that container
  volume,     \* session -> state of its directory
  pc,         \* where the daemon's loop is
  todo,       \* listed targets still to be inspected in this poll
  report,     \* session -> its event in this poll, or "none"
  inbox,      \* session -> its order in the reply at hand, or "none"
  cur,        \* the session whose containers are being started or stopped
  left,       \* the containers of cur still to be stopped
  remove,     \* the containers of cur still to be removed
  want,       \* session -> what the API would answer: an order or "none";
              \* "new" before the session exists
  crashes,    \* number of crashes so far
  runs,       \* session -> how often its target was started (history, up to 2)
  cleaned,    \* sessions whose cleanup removed all their containers (history)
  lastStart   \* session -> how the last start ended (history)

env     == <<want, crashes>>
history == <<runs, cleaned, lastStart>>
vars == <<box, volume, pc, todo, report, inbox, cur, left, remove, env, history>>

NoEvents == [s \in Sessions |-> "none"]

Init == /\ box = [s \in Sessions |-> [k \in Kinds |-> "absent"]]
        /\ volume = [s \in Sessions |-> "none"]
        /\ pc = "sleep"
        /\ todo = {}
        /\ report = NoEvents
        /\ inbox = NoEvents
        /\ cur = NoSession
        /\ left = {}
        /\ remove = {}
        /\ want = [s \in Sessions |-> "new"]
        /\ crashes = 0
        /\ runs = [s \in Sessions |-> 0]
        /\ cleaned = {}
        /\ lastStart = NoEvents

-----------------------------------------------------------------------------
\* prepareEvents.

\* The wait is over: list the targets (an error leads back to the wait).
BeginPoll ==
  /\ pc = "sleep"
  /\ pc' = "report"
  /\ todo' = {s \in Sessions : box[s]["target"] # "absent"}
  /\ report' = NoEvents
  /\ UNCHANGED <<box, volume, inbox, cur, left, remove, env, history>>

\* Faulty variant: the lock is left in place when the logs are collected.
CollectedButLocked(v) == {v}

\* collectSessionLogs: the logs are stored and the lock is removed, each if it
\* can be; a directory that FileMD has taken does not come back.
Collected(v) == IF v = "none" THEN {"none"}
                ELSE {"ready"} \cup IF "files" \in Failures THEN {v, "empty"} \ {"ready"}
                                                            ELSE {}

\* Faulty variant: whether the container runs is not looked at.
EventOfExitCode(state) == IF state = "broken" THEN "session_failed"
                                              ELSE "session_end"

\* The event a container's state is reported with.
EventOf(state) == CASE state = "running" -> "session_running"
                    [] state \in {"created", "done"} -> "session_end"
                    [] state = "broken" -> "session_failed"

\* Faulty variant: the simulator's leaves the labels out as well.
InspectForgetsLabels == FALSE

\* What inspecting a container tells of its labels: the Docker manager leaves
\* them out, the simulator's keeps them.
DockerTellsLabels    == FALSE
SimulatorTellsLabels == TRUE

InspectTellsLabels == IF Runtime = "docker" THEN DockerTellsLabels
                                            ELSE SimulatorTellsLabels

\* A listed target is inspected; a failed call or a missing label skips it.
Inspect(s) ==
  /\ pc = "report"
  /\ s \in todo
  /\ todo' = todo \ {s}
  /\ \/ /\ "inspect" \in Failures \/ ~InspectTellsLabels
        /\ UNCHANGED <<report, volume>>
     \/ /\ InspectTellsLabels
        /\ report' = [report EXCEPT ![s] = EventOf(box[s]["target"])]
        /\ IF box[s]["target"] = "running"
             THEN UNCHANGED volume
             ELSE \E v \in Collected(volume[s]) :
                    volume' = [volume EXCEPT ![s] = v]
  /\ UNCHANGED <<box, pc, inbox, cur, left, remove, env, history>>

\* The packet is sent.
SendReport ==
  /\ pc = "report"
  /\ todo = {}
  /\ pc' = "sent"
  /\ UNCHANGED <<box, volume, todo, report, inbox, cur, left, remove, env,
                 history>>
-----------------------------------------------------------------------------
\* Serve: the answer.

\* The API answers with the orders it has for these sessions now.
Reply ==
  /\ pc = "sent"
  /\ pc' = "sync"
  /\ inbox' = [s \in Sessions |-> IF want[s] \in Orders THEN want[s] ELSE "none"]
  /\ UNCHANGED <<box, volume, todo, report, cur, left, remove, env, history>>

\* No answer in time: the socket is destroyed, and with it a late answer.
Timeout ==
  /\ pc = "sent"
  /\ pc' = "sleep"
  /\ UNCHANGED <<box, volume, todo, report, inbox, cur, left, remove, env,
                 history>>

\* All orders are carried out.
SyncDone ==
  /\ pc = "sync"
  /\ inbox = NoEvents
  /\ pc' = "sleep"
  /\ UNCHANGED <<box, volume, todo, report, inbox, cur, left, remove, env,
                 history>>
-----------------------------------------------------------------------------
\* syncEvents, an order to start.

Existing(s) == {k \in Kinds : box[s][k] # "absent"}

\* Faulty variant: it is enough that no container is stopped.
AlreadyStartedIfNoneStopped(s) == \A k \in Existing(s) : box[s][k] = "running"

\* Faulty variant: only containers that run count.
AlreadyStartedIfRunning(s) == \A k \in Kinds : box[s][k] = "running"

\* checkContainersForSession: both containers exist, in whatever state.
AlreadyStarted(s) == Existing(s) = Kinds

\* Faulty variant: the order is looked at and stays in the reply.
SkipStartKeepsOrder(s) ==
  /\ pc = "sync"
  /\ inbox[s] = "session_start"
  /\ AlreadyStarted(s) \/ "list" \in Failures
  /\ UNCHANGED vars

\* The order is skipped if both containers exist or cannot be listed.
SkipStart(s) ==
  /\ pc = "sync"
  /\ inbox[s] = "session_start"
  /\ AlreadyStarted(s) \/ "list" \in Failures
  /\ inbox' = [inbox EXCEPT ![s] = "none"]
  /\ UNCHANGED <<box, volume, pc, todo, report, cur, left, remove, env, history>>

BeginStart(s) ==
  /\ pc = "sync"
  /\ inbox[s] = "session_start"
  /\ ~AlreadyStarted(s)
  /\ inbox' = [inbox EXCEPT ![s] = "none"]
  /\ pc' = "volume"
  /\ cur' = s
  /\ UNCHANGED <<box, volume, todo, report, left, remove, env, history>>

\* Faulty variant: the directory is made and not locked.
MakeVolumeUnlocked ==
  /\ pc = "volume"
  /\ volume' = [volume EXCEPT ![cur] = IF @ = "none" THEN "empty" ELSE @]
  /\ pc' = "createTracer"
  /\ UNCHANGED <<box, todo, report, inbox, cur, left, remove, env, history>>

\* startContainersForSession: make the directory, lock it.
MakeVolume ==
  /\ pc = "volume"
  /\ volume' = [volume EXCEPT ![cur] = "locked"]
  /\ pc' = "createTracer"
  /\ UNCHANGED <<box, todo, report, inbox, cur, left, remove, env, history>>

\* Docker refuses a name that is taken.  The simulator does not look at names;
\* that it never gets one twice is FreshNames in DockerdServiceProofs.
NameTaken(k) == Runtime = "docker" /\ box[cur][k] # "absent"

Create(k) ==
  /\ box[cur][k] = "absent"
  /\ box' = [box EXCEPT ![cur][k] = "created"]
  /\ UNCHANGED <<volume, todo, report, inbox, cur, left, remove, env, history>>

CreateTracer == pc = "createTracer" /\ Create("tracer") /\ pc' = "createTarget"
CreateTarget == pc = "createTarget" /\ Create("target") /\ pc' = "startTracer"

StartTracer ==
  /\ pc = "startTracer"
  /\ box' = [box EXCEPT ![cur]["tracer"] = "running"]
  /\ pc' = "startTarget"
  /\ UNCHANGED <<volume, todo, report, inbox, cur, left, remove, env, history>>

StartTarget ==
  /\ pc = "startTarget"
  /\ box' = [box EXCEPT ![cur]["target"] = "running"]
  /\ runs' = [runs EXCEPT ![cur] = IF @ < 2 THEN @ + 1 ELSE @]
  /\ lastStart' = [lastStart EXCEPT ![cur] = "ok"]
  /\ pc' = "sync"
  /\ cur' = NoSession
  /\ UNCHANGED <<volume, todo, report, inbox, left, remove, env, cleaned>>

\* What may go wrong at a stage of the start.
StageFails ==
  \/ pc = "volume" /\ Failures \cap {"command", "files"} # {}
  \/ pc = "createTracer" /\ ("create" \in Failures \/ NameTaken("tracer"))
  \/ pc = "createTarget" /\ ("create" \in Failures \/ NameTaken("target"))
  \/ pc \in {"startTracer", "startTarget"} /\ "start" \in Failures

\* Faulty variant: only the targets are listed, as the comment there has it.
ToStopTargets(s) == Existing(s) \cap {"target"}

\* The containers that stopContainersForSession lists.
ToStop(s) == Existing(s)

\* A start that failed is undone: whatever containers exist are stopped and
\* removed.  The volume and its lock stay; nothing is reported.
StartFails ==
  /\ StageFails
  /\ volume' \in {volume} \cup
       IF pc = "volume" /\ "files" \in Failures /\ volume[cur] = "none"
         THEN {[volume EXCEPT ![cur] = "empty"]} ELSE {}
  /\ lastStart' = [lastStart EXCEPT ![cur] = "failed"]
  /\ \/ /\ pc' = "undoing"
        /\ left' = ToStop(cur)
        /\ remove' = ToStop(cur)
        /\ UNCHANGED cur
     \/ /\ "list" \in Failures
        /\ pc' = "sync"
        /\ cur' = NoSession
        /\ UNCHANGED <<left, remove>>
  /\ UNCHANGED <<box, todo, report, inbox, env, runs, cleaned>>
-----------------------------------------------------------------------------
\* syncEvents, an order to stop or to clean up.

\* Faulty variant: a cleanup stops the containers and removes none.
StageOfStop(order) == "stopping"

\* A cleanup removes what it stops.
StageOf(order) == IF order = "session_cleanup" THEN "cleaning" ELSE "stopping"

BeginStop(s) ==
  /\ pc = "sync"
  /\ inbox[s] \in {"session_stopped", "session_cleanup"}
  /\ inbox' = [inbox EXCEPT ![s] = "none"]
  /\ \/ /\ pc' = StageOf(inbox[s])
        /\ cur' = s
        /\ left' = ToStop(s)
        /\ remove' = IF StageOf(inbox[s]) = "cleaning" THEN ToStop(s) ELSE {}
     \/ /\ "list" \in Failures
        /\ UNCHANGED <<pc, cur, left, remove>>
  /\ UNCHANGED <<box, volume, todo, report, env, history>>

\* The states a container may be in after Stop: one that Docker stops may exit
\* with any code, the simulator's keeps the code it had.
StoppedByDocker(state) ==
  IF state # "running" THEN {state}
  ELSE {"done", "broken"} \cup IF "stop" \in Failures THEN {"running"} ELSE {}

StoppedBySimulator(state) == IF state = "running" THEN {"done"} ELSE {state}

\* Faulty variant: the containers are not stopped.
NotStopped(state) == {state}

\* Faulty variant: the state is given as the runtime words it.
StoppedAsExited(state) == {"exited"}

Stopped(state) == IF Runtime = "docker" THEN StoppedByDocker(state)
                                        ELSE StoppedBySimulator(state)

\* ... and after Remove, which Docker refuses for a running container.
RemovedByDocker(state) ==
  IF state = "running" THEN {state}
  ELSE {"absent"} \cup IF "remove" \in Failures THEN {state} ELSE {}

RemovedBySimulator(state) == {"absent"}

Removed(state) == IF Runtime = "docker" THEN RemovedByDocker(state)
                                        ELSE RemovedBySimulator(state)

\* stopContainersForSession: the next container is stopped, and removed before
\* another one is looked at; errors of either call are only logged.
StopContainer(k) ==
  /\ pc \in StopStages
  /\ k \in left
  /\ remove \subseteq left
  /\ left' = left \ {k}
  /\ \E state \in Stopped(box[cur][k]) :
       box' = [box EXCEPT ![cur][k] = state]
  /\ UNCHANGED <<volume, pc, todo, report, inbox, cur, remove, env, history>>

RemoveContainer(k) ==
  /\ pc \in StopStages
  /\ k \in remove \ left
  /\ remove' = remove \ {k}
  /\ \E state \in Removed(box[cur][k]) :
       box' = [box EXCEPT ![cur][k] = state]
  /\ UNCHANGED <<volume, pc, todo, report, inbox, cur, left, env, history>>

StopDone ==
  /\ pc \in StopStages
  /\ left = {}
  /\ remove = {}
  /\ pc' = "sync"
  /\ cur' = NoSession
  /\ cleaned' = IF pc = "cleaning" /\ Existing(cur) = {}
                  THEN cleaned \cup {cur} ELSE cleaned
  /\ UNCHANGED <<box, volume, todo, report, inbox, left, remove, env, runs,
                 lastStart>>
-----------------------------------------------------------------------------
\* Around the daemon.

\* Faulty variant: the API falls back to ordering a start.
MayFollowAlsoStart(old, new) == new \in Orders \cup {"none"}

\* A session is created pending, and once it has left that status it never
\* returns; after that the API may want anything, also again.
MayFollow(old, new) == /\ new \in Orders \cup {"none"}
                       /\ new = "session_start" <=> old = "new"

\* The API changes its mind, of one session or, by a restart, of many.
WantChanges ==
  /\ want' \in [Sessions -> Orders \cup {"none", "new"}]
  /\ \A s \in Sessions : want'[s] = want[s] \/ MayFollow(want[s], want'[s])
  /\ UNCHANGED <<box, volume, pc, todo, report, inbox, cur, left, remove,
                 crashes, history>>

\* A container exits.  Those of the simulator run until they are stopped.
Exit(s, k) ==
  /\ Runtime = "docker"
  /\ box[s][k] = "running"
  /\ \E state \in {"done", "broken"} :
       box' = [box EXCEPT ![s][k] = state]
  /\ UNCHANGED <<volume, pc, todo, report, inbox, cur, left, remove, env,
                 history>>

\* FileMD has uploaded the logs of an unlocked directory and removes it.
FileMDTakes(s) ==
  /\ volume[s] = "ready"
  /\ volume' = [volume EXCEPT ![s] = "none"]
  /\ UNCHANGED <<box, pc, todo, report, inbox, cur, left, remove, env, history>>

\* The daemon crashes and starts again.  Docker's containers and all files
\* survive, the containers of the simulator are in the daemon's memory.
Crash ==
  /\ crashes < MaxCrashes
  /\ crashes' = crashes + 1
  /\ box' = IF Runtime = "docker" THEN box
            ELSE [s \in Sessions |-> [k \in Kinds |-> "absent"]]
  /\ pc' = "sleep"
  /\ todo' = {}
  /\ report' = NoEvents
  /\ inbox' = NoEvents
  /\ cur' = NoSession
  /\ left' = {}
  /\ remove' = {}
  /\ UNCHANGED <<volume, want, history>>
-----------------------------------------------------------------------------
DaemonStep ==
  \/ BeginPoll
  \/ \E s \in Sessions : Inspect(s)
  \/ SendReport
  \/ Reply
  \/ Timeout
  \/ SyncDone
  \/ \E s \in Sessions : SkipStart(s) \/ BeginStart(s) \/ BeginStop(s)
  \/ MakeVolume
  \/ CreateTracer
  \/ CreateTarget
  \/ StartTracer
  \/ StartTarget
  \/ StartFails
  \/ \E k \in Kinds : StopContainer(k) \/ RemoveContainer(k)
  \/ StopDone

Next == \/ DaemonStep
        \/ WantChanges
        \/ \E s \in Sessions : FileMDTakes(s)
        \/ \E s \in Sessions, k \in Kinds : Exit(s, k)
        \/ Crash

Spec == Init /\ [][Next]_vars

\* The loop goes on, and a daemon that keeps asking gets an answer at times.
\* Neither the containers nor FileMD nor the API's users owe it anything.
FairSpec == Spec /\ WF_vars(DaemonStep) /\ SF_vars(Reply)

-----------------------------------------------------------------------------
\* Type invariant.
TypeOK ==
  /\ box \in [Sessions -> [Kinds -> ContainerState]]
  /\ volume \in [Sessions -> VolumeState]
  /\ pc \in {"sleep", "report", "sent", "sync"} \cup StartStages \cup StopStages
  /\ todo \subseteq Sessions
  /\ report \in [Sessions -> Reports \cup {"none"}]
  /\ inbox \in [Sessions -> Orders \cup {"none"}]
  /\ cur \in Sessions \cup {NoSession}
  /\ left \subseteq Kinds
  /\ remove \subseteq Kinds
  /\ want \in [Sessions -> Orders \cup {"none", "new"}]
  /\ crashes \in 0..MaxCrashes
  /\ runs \in [Sessions -> 0..2]
  /\ cleaned \subseteq Sessions
  /\ lastStart \in [Sessions -> {"none", "ok", "failed"}]

\* FileMD uploads and deletes a directory that is not locked: the directory of
\* a session whose target is running always is, also when it was used before,
\* and over crashes.
LockedWhileTargetRuns ==
  \A s \in Sessions : box[s]["target"] = "running" => volume[s] = "locked"

\* The order to start comes with every reply until the API has seen the
\* session running, and no user's command is run a second time for that,
\* whichever call fails and wherever the daemon crashes.  A call that fails does
\* nothing: a start that Docker carries out and reports as failed is left out.
RunsAtMostOnce == \A s \in Sessions : runs[s] <= 1

\* A session whose containers have been removed gets no new ones: no order
\* read before the cleanup is carried out after it.
CleanedStaysClean == \A s \in cleaned : Existing(s) = {}

\* By the time the daemon tells the API that a session is over, its directory
\* is open to FileMD, unless it cannot write.
EndedIsUnlocked ==
  \A s \in Sessions :
    pc = "sent" /\ report[s] \in {"session_end", "session_failed"}
      => volume[s] # "locked"

\* A report that is sent tells of every target there is, so a session the API
\* hears nothing of has none: the API takes silence for a start still to come.
ReportCoversTargets ==
  pc = "sent" =>
    \A s \in Sessions : box[s]["target"] # "absent" => report[s] # "none"

\* The daemon gets through the orders of a reply again and again: no order, no
\* failure and no crash keeps it from the next poll for good.
KeepsSyncing == []<><<SyncDone>>_vars

Silenced(s) == \A k \in Kinds : box[s][k] # "running"

\* A call to stop leaves a container of s running, one to remove leaves it.
StopFails(s) ==
  cur = s /\ \E k \in Kinds : StopContainer(k) /\ box'[cur][k] = "running"
RemoveFails(s) ==
  cur = s /\ \E k \in Kinds : RemoveContainer(k) /\ box'[cur][k] # "absent"

\* A session that is to be stopped, and stays so, is: in the end neither of
\* its containers runs, although the errors of single calls are swallowed,
\* unless the runtime refuses to stop them again and again.
StopStops ==
  \A s \in Sessions :
    <>[](want[s] \in {"session_stopped", "session_cleanup"})
      => <>[]Silenced(s) \/ []<><<StopFails(s)>>_vars

\* A session that is to be cleaned up, and stays so, leaves no container: one
\* that is half removed is gone over again, unless the runtime refuses to
\* remove its containers again and again.
CleanupRemoves ==
  \A s \in Sessions :
    <>[](want[s] = "session_cleanup")
      => <>[](Existing(s) = {}) \/ []<><<RemoveFails(s)>>_vars

\* Both containers are there and a start of the session was broken off.
LeftOver(s) == Existing(s) = Kinds /\ (crashes > 0 \/ lastStart[s] = "failed")

\* A session whose start is wanted for ever is started, unless its start fails
\* again and again or both containers stay left over for ever from a start
\* that a crash or a failed undoing broke off, which checkContainersForSession
\* takes for a session that runs.
WantedIsStarted ==
  \A s \in Sessions :
    <>[](want[s] = "session_start")
      => \/ <>(runs[s] > 0)
         \/ <>[]LeftOver(s)
         \/ []<><<StartFails /\ cur = s>>_vars
=============================================================================
