------------------------------- MODULE Bedrock -------------------------------
(***************************************************************************)
(* The API of ApiSessions and one DockerD of Dockerd, joined by polls that *)
(* may come late, out of order or not at all, and by replies that may come *)
(* too late or not at all.  What the API wants of a session, an            *)
(* environment in Dockerd, is here what its store says; what a packet      *)
(* reports, chosen freely in ApiSessions, is here what the daemon saw.     *)
(* The daemon may crash, and with the simulator it loses its containers;   *)
(* the API may restart, and it loses its sessions.                         *)
(*                                                                         *)
(* A reply is delivered in the step that computes it or never: a daemon    *)
(* that waits for a reply does nothing else, so a reply that is under way  *)
(* for a while is like one that arrives at once and is read after a while. *)
(***************************************************************************)
EXTENDS ApiSessions, FiniteSets

CONSTANTS
  Runtime,      \* as in Dockerd
  Failures,     \* as in Dockerd
  MaxCrashes,   \* bound: crashes of the daemon
  MaxRestarts,  \* bound: restarts of the API
  Requests      \* the statuses that users ask for

ASSUME MaxRestartsAssumption == MaxRestarts \in Nat
ASSUME RequestsAssumption == Requests \subseteq SessionStatus
ASSUME OneDockerd == \E d \in Dockerds : Dockerds = {d}

VARIABLES
  box, volume, pc, todo, report, inbox, cur, left, remove, crashes,
  runs, cleaned, lastStart,   \* the daemon, as in Dockerd
  wire,       \* the packet under way to the API, as a set of at most one
  held,       \* handler -> the packet it is at
  restarts,   \* number of restarts so far
  forgotten   \* sessions that were lost in a restart (history)

dockerdVars == <<box, volume, pc, todo, report, inbox, cur, left, remove,
                 crashes, runs, cleaned, lastStart>>
linkVars   == <<wire, held, restarts, forgotten>>
systemVars == <<vars, dockerdVars, linkVars>>

\* What the reply to a poll would order for s.
Wanted(s) ==
  IF s \in forgotten THEN "none"
  ELSE IF store[s] = NoSession THEN "new"
  ELSE IF store[s].deleted \/ OrdersFor(store[s].status) = {} THEN "none"
  ELSE CHOOSE o \in OrdersFor(store[s].status) : TRUE

Want == [s \in Sessions |-> Wanted(s)]

D == INSTANCE Dockerd WITH want <- Want

\* As in Dockerd.
ASSUME DockerdAssumption ==
  /\ Runtime \in {"simulator", "docker"}
  /\ Failures \subseteq D!Operations
  /\ Runtime = "simulator" => Failures \subseteq {"command", "files"}
  /\ MaxCrashes \in Nat
  /\ NoSession \notin Sessions

\* A packet carries the daemon's report.  It is awaited until its sender has
\* given up on the reply.
Packet(awaited) == [events |-> report, awaited |-> awaited]
NoPacket == [events |-> [s \in Sessions |-> "none"], awaited |-> FALSE]
EventsOf(p) == {s \in Sessions : p.events[s] # "none"}
GivenUp(p)  == [p EXCEPT !.awaited = FALSE]

SystemInit == /\ Init
              /\ wire = {}
              /\ held = [h \in Handlers |-> NoPacket]
              /\ restarts = 0
              /\ forgotten = {}
              /\ D!Init
-----------------------------------------------------------------------------
\* The API on its own.

\* HTTP requests; ids of sessions that were forgotten are not given again.
Request ==
  /\ \E c \in Clients :
       \/ \E s \in Sessions \ forgotten, d \in Dockerds : CreateBegin(c, s, d)
       \/ \E s \in Sessions, w \in Requests : UpdateRead(c, s, w)
       \/ ClientSave(c)
  /\ UNCHANGED <<dockerdVars, linkVars>>

Work ==
  /\ WorkerNext \/ \E s \in Sessions : TtlPasses(s)
  /\ UNCHANGED <<dockerdVars, linkVars>>

\* An event of the packet is read: it is dealt with or skipped.
ReadEvent(h) ==
  /\ \E s \in EventsOf(held[h]) :
       /\ \/ EventRead(h, s, held[h].events[s])
          \/ EventSkip(h, s, held[h].events[s])
       /\ held' = [held EXCEPT ![h].events[s] = "none"]
  /\ UNCHANGED <<dockerdVars, wire, restarts, forgotten>>

SaveEvent(h) == EventSave(h) /\ UNCHANGED <<dockerdVars, linkVars>>

\* The process is gone and comes back with an empty store.
ApiRestarts ==
  /\ restarts < MaxRestarts
  /\ restarts' = restarts + 1
  /\ forgotten' = forgotten \cup {s \in Sessions : store[s] # NoSession}
  /\ store' = [s \in Sessions |-> NoSession]
  /\ index' = [s \in Sessions |-> NoDockerd]
  /\ ttlPassed' = {}
  /\ http' = [c \in Clients |-> IdleClient]
  /\ zmq' = [h \in Handlers |-> IdleHandler]
  /\ expiring' = {}
  /\ removing' = {}
  /\ seen' = [s \in Sessions |-> 0]
  /\ lastOrder' = [s \in Sessions |-> "none"]
  /\ live' = {}
  /\ held' = [h \in Handlers |-> NoPacket]
  /\ UNCHANGED <<dockerdVars, wire>>
-----------------------------------------------------------------------------
\* The daemon on its own.

DaemonAlone ==
  /\ UNCHANGED <<vars, linkVars>>
  /\ \/ D!BeginPoll
     \/ \E s \in Sessions :
          D!Inspect(s) \/ D!SkipStart(s) \/ D!BeginStart(s) \/ D!BeginStop(s)
     \/ D!SyncDone
     \/ D!MakeVolume
     \/ D!CreateTracer
     \/ D!CreateTarget
     \/ D!StartTracer
     \/ D!StartTarget
     \/ D!StartFails
     \/ \E k \in D!Kinds : D!StopContainer(k) \/ D!RemoveContainer(k)
     \/ D!StopDone

\* What happens to the daemon's directories and containers without it: FileMD
\* takes a directory, a container exits by itself.
Surroundings ==
  /\ UNCHANGED <<vars, linkVars>>
  /\ \E s \in Sessions :
       \/ D!FileMDTakes(s)
       \/ \E k \in D!Kinds : D!Exit(s, k)

\* Nobody waits any longer for the replies to what was sent.
NobodyWaits == /\ wire' = {GivenUp(p) : p \in wire}
               /\ held' = [h \in Handlers |-> GivenUp(held[h])]

Timeout == /\ UNCHANGED <<vars, restarts, forgotten>>
           /\ NobodyWaits
           /\ D!Timeout

Crash == /\ UNCHANGED <<vars, restarts, forgotten>>
         /\ NobodyWaits
         /\ D!Crash
-----------------------------------------------------------------------------
\* Between the two.

\* Faulty variant: a poll that was given up on stays under way as well.
PollAlongside == /\ UNCHANGED <<vars, held, restarts, forgotten>>
                 /\ wire' = wire \cup {Packet(TRUE)}
                 /\ D!SendReport

\* A poll is sent; one that was still under way is lost.
Poll == /\ UNCHANGED <<vars, held, restarts, forgotten>>
        /\ wire' = {Packet(TRUE)}
        /\ D!SendReport

\* A handler gets the packet, of this daemon.
Arrive(h, d) ==
  \E p \in wire :
    /\ Receive(h, d)
    /\ zmq'[h].left = Cardinality(EventsOf(p))
    /\ wire' = {}
    /\ held' = [held EXCEPT ![h] = p]
    /\ UNCHANGED <<dockerdVars, restarts, forgotten>>

\* The reply reaches the daemon, which still waits for it ...
Answer(h) ==
  /\ held[h].awaited
  /\ Reply(h)
  /\ held' = [held EXCEPT ![h] = NoPacket]
  /\ UNCHANGED <<wire, restarts, forgotten>>
  /\ D!Reply

\* ... or is lost or too late.
AnswerLost(h) ==
  /\ Reply(h)
  /\ held' = [held EXCEPT ![h] = NoPacket]
  /\ UNCHANGED <<dockerdVars, wire, restarts, forgotten>>
-----------------------------------------------------------------------------
DaemonNext == DaemonAlone \/ Poll \/ Timeout

Handle(h) == ReadEvent(h) \/ SaveEvent(h) \/ Answer(h) \/ AnswerLost(h)

SystemNext ==
  \/ Request
  \/ Work
  \/ \E h \in Handlers :
       \/ Handle(h)
       \/ \E d \in Dockerds : Arrive(h, d)
  \/ ApiRestarts
  \/ DaemonNext
  \/ Surroundings
  \/ Crash

SystemSpec == SystemInit /\ [][SystemNext]_systemVars

\* The daemon's loop, the handlers and the workers go on with what they have
\* begun.  Users need not ask for anything.
SystemFairness ==
  /\ WF_systemVars(DaemonNext)
  /\ \A h \in Handlers : WF_systemVars(Handle(h))
  /\ WorkerFairness

FairSystemSpec == SystemSpec /\ SystemFairness
-----------------------------------------------------------------------------
\* The packet under way is one the daemon sent, and at most one; a handler has
\* the events of its packet before it and holds none when it is idle.  The
\* daemon and the API keep their own types.
SystemTypeOK ==
  /\ TypeOK
  /\ D!TypeOK
  /\ Cardinality(wire) <= 1
  /\ \A p \in wire : p \in [events : [Sessions -> D!Reports \cup {"none"}],
                            awaited : BOOLEAN]
  /\ \A h \in Handlers :
       /\ zmq[h].left = Cardinality(EventsOf(held[h]))
       /\ zmq[h].pc = "idle" => held[h] = NoPacket
  /\ restarts \in 0..MaxRestarts
  /\ forgotten \subseteq Sessions

\* The daemon's world is the one Dockerd was written for: what the API wants
\* changes as MayFollow says and the orders of a reply are what it wants, also
\* over lost updates and restarts of the API.
ImplementsDockerd == D!Spec

\* What the API shows as finished is over, unless users may say so themselves:
\* its target does not run and is not going to, though old packets are still
\* under way and old copies are still saved.
FinishedIsSilent ==
  "finished" \notin Requests =>
    \A s \in Sessions :
      HasStatus(s, "finished")
        => /\ box[s]["target"] # "running"
           /\ inbox[s] # "session_start"
           /\ ~(cur = s /\ pc \in D!StartStages)

\* The properties of the daemon, now with the API it works for.
LockedWhileTargetRuns == D!LockedWhileTargetRuns
EndedIsUnlocked       == D!EndedIsUnlocked
ReportCoversTargets   == D!ReportCoversTargets

\* Polls are answered again and again.
KeepsAnswering == []<><<\E h \in Handlers : Answer(h)>>_systemVars

\* A session that stays stopped for ever is one whose daemon has no target for
\* it (its crash lost it, or it never started it), so that there is nothing
\* left to report: every other one is finished in the end.
StoppedFinishes ==
  KeepsAnswering =>
    \A s \in Sessions :
      <>[]HasStatus(s, "stopped") => <>[](box[s]["target"] = "absent")

\* A pending session is started, unless its own start fails again and again.
PendingStarts ==
  KeepsAnswering =>
    \A s \in Sessions :
      <>[]HasStatus(s, "pending") => []<><<D!StartFails /\ cur = s>>_systemVars
=============================================================================
