---------------------------- MODULE ApiSessions ----------------------------
(***************************************************************************)
(* The API's session state and everything that reads and writes it at the  *)
(* same time: the HTTP handlers that create and update sessions, the ZMQ   *)
(* handlers that apply the daemons' reports and answer with orders, the    *)
(* worker that stops expired sessions and the worker that marks finished   *)
(* ones as deleted.  Each of them reads a record, computes a new one from  *)
(* its copy and saves the whole record back, with no lock and no version,  *)
(* so the read and the save are two steps here and any other step may come *)
(* between them.  A copy is kept as it was read; what is saved is computed *)
(* from it at the save, so that a copy is stale exactly when it differs    *)
(* from the stored record.                                                 *)
(***************************************************************************)
EXTENDS SessionStates, Membership, Naturals

CONSTANTS
  Sessions,     \* the session ids that uuid.New may return, each once
  Handlers,     \* the socketHandler goroutines of the ZMQ server
  Clients,      \* the HTTP requests that can be in progress at once
  NoSession,    \* no record
  NoDockerd,    \* no daemon
  MaxEvents     \* bound: reports in one packet

ASSUME MaxEventsAssumption == MaxEvents \in Nat

Session == [id : Sessions, dockerd : Dockerds,
            status : SessionStatus, deleted : BOOLEAN]

ASSUME NoSessionAssumption == NoSession \notin Session
ASSUME NoDockerdAssumption == NoDockerd \notin Dockerds

VARIABLES
  store,      \* session id -> its record under sessions/<dockerd>/<id>, or NoSession
  index,      \* session id -> the daemon under sessionIdDockerDIndex/<id>, or NoDockerd
  ttlPassed,  \* the stored sessions whose CreatedAt + TTL lies in the past
  http,       \* client -> its request: pc, the record read, the status wanted
  zmq,        \* handler -> pc, sender, events left, the record read and the event
  expiring,   \* expiry worker: records of this tick still to be saved as stopped
  removing,   \* removal worker: records of this tick still to be saved as deleted
  seen,       \* removal worker: how often a session was seen terminal, up to 2
  lastOrder   \* session id -> the last order sent to its daemon (history)

apiVars == <<store, index, ttlPassed, http, zmq, expiring, removing, seen,
             lastOrder>>
vars == <<apiVars, live>>

IdleClient  == [pc |-> "idle", copy |-> NoSession, want |-> "pending"]
Creating(r) == [pc |-> "create", copy |-> r, want |-> "pending"]
Updating(r, want) == [pc |-> "update", copy |-> r, want |-> want]

IdleHandler == [pc |-> "idle", dockerd |-> NoDockerd, left |-> 0,
                copy |-> NoSession, event |-> "session_running"]
Serving(d, n) == [pc |-> "events", dockerd |-> d, left |-> n,
                  copy |-> NoSession, event |-> "session_running"]
Applying(d, n, r, e) == [pc |-> "save", dockerd |-> d, left |-> n,
                         copy |-> r, event |-> e]

NewSession(s, d) ==
  [id |-> s, dockerd |-> d, status |-> "pending", deleted |-> FALSE]

WithStatus(r, status) == [r EXCEPT !.status = status]
MarkedDeleted(r)      == [r EXCEPT !.deleted = TRUE]

-----------------------------------------------------------------------------
\* The session store: two keys per session, the index entry first.

\* Faulty variant: the index entry is forgotten.
SetIndexForgotten(s, d) == UNCHANGED index

SetIndex(s, d) == index' = [index EXCEPT ![s] = d]
SetRecord(r)   == store' = [store EXCEPT ![r.id] = r]
SaveSession(r) == SetIndex(r.id, r.dockerd) /\ SetRecord(r)

\* GetSessionById succeeds: the index entry and the record it leads to exist.
Found(s) == /\ index[s] # NoDockerd
            /\ store[s] # NoSession
            /\ store[s].dockerd = index[s]

ListSessions == {store[s] : s \in {t \in Sessions : store[t] # NoSession}}
ListSessionsByDockerDId(d) ==
  {r \in ListSessions : r.dockerd = d /\ ~r.deleted}
-----------------------------------------------------------------------------
Init == /\ MembershipInit
        /\ store = [s \in Sessions |-> NoSession]
        /\ index = [s \in Sessions |-> NoDockerd]
        /\ ttlPassed = {}
        /\ http = [c \in Clients |-> IdleClient]
        /\ zmq = [h \in Handlers |-> IdleHandler]
        /\ expiring = {}
        /\ removing = {}
        /\ seen = [s \in Sessions |-> 0]
        /\ lastOrder = [s \in Sessions |-> "none"]

-----------------------------------------------------------------------------
\* HTTP handlers.

\* createSession: pick a daemon, take a fresh id, write the index entry.
CreateBegin(c, s, d) ==
  /\ http[c].pc = "idle"
  /\ index[s] = NoDockerd
  /\ Pick(d)
  /\ SetIndex(s, d)
  /\ http' = [http EXCEPT ![c] = Creating(NewSession(s, d))]
  /\ UNCHANGED <<store, ttlPassed, zmq, expiring, removing, seen, lastOrder>>

\* createSession: write the record.
CreateEnd(c) ==
  /\ http[c].pc = "create"
  /\ SetRecord(http[c].copy)
  /\ http' = [http EXCEPT ![c] = IdleClient]
  /\ UNCHANGED <<index, ttlPassed, zmq, expiring, removing, seen, lastOrder,
                 live>>

\* updateSession: read the record and refuse a request that changes nothing
\* (an unknown session and a refused transition leave no trace).
UpdateRead(c, s, want) ==
  /\ http[c].pc = "idle"
  /\ Found(s)
  /\ Transition(store[s].status, want) # store[s].status
  /\ http' = [http EXCEPT ![c] = Updating(store[s], want)]
  /\ UNCHANGED <<store, index, ttlPassed, zmq, expiring, removing, seen,
                 lastOrder, live>>

\* updateSession: save the copy with its new status.
UpdateSave(c) ==
  LET r == http[c].copy
  IN  /\ http[c].pc = "update"
      /\ SaveSession(WithStatus(r, Transition(r.status, http[c].want)))
      /\ http' = [http EXCEPT ![c] = IdleClient]
      /\ UNCHANGED <<ttlPassed, zmq, expiring, removing, seen, lastOrder, live>>

-----------------------------------------------------------------------------
\* ZMQ handlers.

\* processPacketData: a poll of d with n events arrives; the health worker is
\* told before the store is looked at.
Receive(h, d) ==
  /\ zmq[h].pc = "idle"
  /\ Heard(d)
  /\ \E n \in 0..MaxEvents :
       zmq' = [zmq EXCEPT ![h] = Serving(d, n)]
  /\ UNCHANGED <<store, index, ttlPassed, http, expiring, removing, seen,
                 lastOrder>>

\* The sender may report on this session.
Owned(h, s) == Found(s) /\ store[s].dockerd = zmq[h].dockerd

\* One event of the packet: read the session it is about.
EventRead(h, s, e) ==
  /\ zmq[h].pc = "events"
  /\ zmq[h].left > 0
  /\ Owned(h, s)
  /\ e \in Reports
  /\ zmq' = [zmq EXCEPT ![h] = Applying(@.dockerd, @.left - 1, store[s], e)]
  /\ UNCHANGED <<store, index, ttlPassed, http, expiring, removing, seen,
                 lastOrder, live>>

\* An event about a session that is unknown or another daemon's, or of a type
\* that is no report, is skipped.
EventSkip(h, s, e) ==
  /\ zmq[h].pc = "events"
  /\ zmq[h].left > 0
  /\ ~Owned(h, s) \/ e \notin Reports
  /\ zmq' = [zmq EXCEPT ![h] = Serving(@.dockerd, @.left - 1)]
  /\ UNCHANGED <<store, index, ttlPassed, http, expiring, removing, seen,
                 lastOrder, live>>

\* The rest of that event: the copy is saved even if its status did not change.
EventSave(h) ==
  LET r == zmq[h].copy
  IN  /\ zmq[h].pc = "save"
      /\ SaveSession(WithStatus(r,
           Transition(r.status, ReportedStatus(zmq[h].event))))
      /\ zmq' = [zmq EXCEPT ![h] = Serving(@.dockerd, @.left)]
      /\ UNCHANGED <<ttlPassed, http, expiring, removing, seen, lastOrder, live>>

\* All events done: list the sender's sessions and answer with their orders.
Reply(h) ==
  LET mine == ListSessionsByDockerDId(zmq[h].dockerd)
  IN  /\ zmq[h].pc = "events"
      /\ zmq[h].left = 0
      /\ lastOrder' = [s \in Sessions |->
             IF store[s] \in mine /\ OrdersFor(store[s].status) # {}
               THEN CHOOSE o \in OrdersFor(store[s].status) : TRUE
               ELSE lastOrder[s]]
      /\ zmq' = [zmq EXCEPT ![h] = IdleHandler]
      /\ UNCHANGED <<store, index, ttlPassed, http, expiring, removing, seen,
                     live>>
-----------------------------------------------------------------------------
\* Workers.  A worker's next tick is served only when it is done with the last.

\* Faulty variant: pending sessions are looked at instead of running ones.
ExpirableIfPending(r) == r.status = "pending" /\ r.id \in ttlPassed

Expirable(r) == r.status = "running" /\ r.id \in ttlPassed

\* WorkerCheckExpiredSessions, on a tick: list the sessions, find the expired.
ExpireTick ==
  /\ expiring = {}
  /\ expiring' = {r \in ListSessions : Expirable(r)}
  /\ UNCHANGED <<store, index, ttlPassed, http, zmq, removing, seen, lastOrder,
                 live>>

\* The next expired record of the tick is saved as stopped, as it was listed.
ExpireSave(r) ==
  /\ r \in expiring
  /\ SaveSession(WithStatus(r, "stopped"))
  /\ expiring' = expiring \ {r}
  /\ UNCHANGED <<ttlPassed, http, zmq, removing, seen, lastOrder, live>>

\* Faulty variant: every session counts, whatever its status.
RemovableInAnyStatus(r) == ~r.deleted

\* Faulty variant: failed sessions are not counted.
RemovableIfFinished(r) == ~r.deleted /\ r.status = "finished"

Removable(r) == ~r.deleted /\ r.status \in Terminal

\* Being seen once more; more than twice is like twice.
SeenOnceMore(n) == IF n < 2 THEN n + 1 ELSE 2

\* WorkerRemoveFinishedSessions, on a tick: count the terminal sessions of the
\* list and find those that have now been seen twice.
RemoveTick ==
  LET due == {r \in ListSessions : Removable(r)}
  IN  /\ removing = {}
      /\ seen' = [s \in Sessions |-> IF store[s] \in due
                                       THEN SeenOnceMore(seen[s])
                                       ELSE seen[s]]
      /\ removing' = {r \in due : SeenOnceMore(seen[r.id]) = 2}
      /\ UNCHANGED <<store, index, ttlPassed, http, zmq, expiring, lastOrder,
                     live>>

\* The next such record is saved with its deletion mark, as it was listed.
RemoveSave(r) ==
  /\ r \in removing
  /\ SaveSession(MarkedDeleted(r))
  /\ removing' = removing \ {r}
  /\ UNCHANGED <<ttlPassed, http, zmq, expiring, seen, lastOrder, live>>

\* Time passes the end of a session's TTL.
TtlPasses(s) ==
  /\ store[s] # NoSession
  /\ s \notin ttlPassed
  /\ ttlPassed' = ttlPassed \cup {s}
  /\ UNCHANGED <<store, index, http, zmq, expiring, removing, seen, lastOrder,
                 live>>

\* The health worker drops a daemon that has been silent.
DockerdSilent(d) == Drop(d) /\ UNCHANGED apiVars
-----------------------------------------------------------------------------
ClientSave(c)  == CreateEnd(c) \/ UpdateSave(c)
HandlerStep(h) == \/ \E s \in Sessions, e \in EventType :
                       EventRead(h, s, e) \/ EventSkip(h, s, e)
                  \/ EventSave(h)
                  \/ Reply(h)

ClientNext == \E c \in Clients :
                \/ \E s \in Sessions, d \in Dockerds : CreateBegin(c, s, d)
                \/ \E s \in Sessions, w \in SessionStatus : UpdateRead(c, s, w)
                \/ ClientSave(c)
HandlerNext == \E h \in Handlers :
                 \/ \E d \in Dockerds : Receive(h, d)
                 \/ HandlerStep(h)
WorkerNext == \/ ExpireTick
              \/ \E r \in expiring : ExpireSave(r)
              \/ RemoveTick
              \/ \E r \in removing : RemoveSave(r)
              \/ \E d \in Dockerds : DockerdSilent(d)

Next == \/ ClientNext
        \/ HandlerNext
        \/ WorkerNext
        \/ \E s \in Sessions : TtlPasses(s)

Spec == Init /\ [][Next]_vars

\* What the workers keep doing, whatever else happens: their tickers fire, and
\* a tick that has begun goes on to its end.
WorkerFairness ==
  /\ WF_vars(ExpireTick)
  /\ WF_vars(\E r \in expiring : ExpireSave(r))
  /\ WF_vars(RemoveTick)
  /\ WF_vars(\E r \in removing : RemoveSave(r))
-----------------------------------------------------------------------------
\* Records read some time ago and not yet saved back.
Copies == {http[c].copy : c \in {d \in Clients : http[d].pc = "update"}}
          \cup {zmq[h].copy : h \in {g \in Handlers : zmq[g].pc = "save"}}
          \cup expiring \cup removing

\* Another save came between the read of this copy and now.
Stale(r) == store[r.id] # r

\* The session exists and has this status.
HasStatus(s, status) == store[s] # NoSession /\ store[s].status = status
IsTerminal(s) == store[s] # NoSession /\ store[s].status \in Terminal
IsDeleted(s)  == store[s] # NoSession /\ store[s].deleted

\* Type invariant: every variable keeps its shape.
TypeOK ==
  /\ store \in [Sessions -> Session \cup {NoSession}]
  /\ index \in [Sessions -> Dockerds \cup {NoDockerd}]
  /\ ttlPassed \subseteq Sessions
  /\ http \in [Clients -> [pc : {"idle", "create", "update"},
                           copy : Session \cup {NoSession},
                           want : SessionStatus]]
  /\ zmq \in [Handlers -> [pc : {"idle", "events", "save"},
                           dockerd : Dockerds \cup {NoDockerd},
                           left : 0..MaxEvents,
                           copy : Session \cup {NoSession},
                           event : Reports]]
  /\ expiring \subseteq Session
  /\ removing \subseteq Session
  /\ seen \in [Sessions -> 0..2]
  /\ lastOrder \in [Sessions -> Orders \cup {"none"}]
  /\ live \subseteq Dockerds

\* The two keys of a session never disagree, although they are written one
\* after the other and copies of the record are saved back at any later time:
\* a stored record has an index entry, and the entry leads to that record.
IndexLeadsToRecord ==
  \A s \in Sessions : store[s] # NoSession => Found(s) /\ store[s].id = s

\* A session marked as deleted is failed or finished.  It holds in spite of
\* the lost updates, because status and mark are saved together and whoever
\* reads a terminal copy can only save it as terminal.
DeletedIsTerminal ==
  \A s \in Sessions :
    IsDeleted(s) => IsTerminal(s)

\* No save, however stale, brings a session back to pending: nothing that
\* read a pending record saves it as pending.
NeverBackToPending ==
  [][\A s \in Sessions :
       store[s] # NoSession /\ ~HasStatus(s, "pending")
         => ~HasStatus(s, "pending")']_vars

\* Once told to stop or to clean up a session, its daemon is never told to
\* start it again, whatever else is in progress.
NeverStartAfterStop ==
  [][\A s \in Sessions :
       lastOrder[s] \in {"session_stopped", "session_cleanup"}
         => lastOrder'[s] # "session_start"]_vars

\* This step is the save that a record read earlier was kept for.
Saved(r) ==
  \/ \E c \in Clients :
       http[c].pc = "update" /\ http[c].copy = r /\ http'[c].pc # "update"
  \/ \E h \in Handlers :
       zmq[h].pc = "save" /\ zmq[h].copy = r /\ zmq'[h].pc # "save"
  \/ r \in expiring \ expiring'
  \/ r \in removing \ removing'

\* A record changes by a step of the state machine and keeps its deletion
\* mark, unless the copy that this very step saves was overtaken: the missing
\* lock is the only way around the state machine, and a save of a copy that is
\* still the stored record is legal whatever other copies are about.
LegalUnlessStale ==
  [][\A s \in Sessions :
       store[s] # NoSession /\ store'[s] # store[s]
         => \/ \E r \in Copies : r.id = s /\ Saved(r) /\ Stale(r)
            \/ /\ store[s].deleted => store'[s].deleted
               /\ \/ store'[s].status = store[s].status
                  \/ store'[s].status \in Successors(store[s].status)]_vars

\* A running session whose TTL has passed does not stay running: the expiry
\* worker's next tick saves it as stopped if nothing else has moved it.
ExpiredLeavesRunning ==
  \A s \in Sessions :
    (HasStatus(s, "running") /\ s \in ttlPassed) ~> ~HasStatus(s, "running")

\* A session that stays terminal is marked as deleted again and again: a save
\* of an older copy may take the mark away, but the removal worker returns.
TerminalIsDeleted ==
  \A s \in Sessions :
    <>[]IsTerminal(s) => []<>IsDeleted(s)

-----------------------------------------------------------------------------
\* The inductive invariant behind the safety properties, in named parts.

\* A record being created is new, and no other request creates the same.
CreatingIsFresh ==
  \A c \in Clients :
    http[c].pc = "create" =>
      /\ http[c].copy \in Session
      /\ http[c].copy.status = "pending" /\ ~http[c].copy.deleted
      /\ store[http[c].copy.id] = NoSession
      /\ index[http[c].copy.id] = http[c].copy.dockerd
      /\ \A d \in Clients : http[d].pc = "create" /\ d # c
                              => http[d].copy.id # http[c].copy.id

\* A copy belongs to a stored session, with the daemon it was created with.
GoodCopy(r) ==
  /\ r \in Session
  /\ store[r.id] # NoSession
  /\ r.dockerd = index[r.id]
  /\ r.deleted => r.status \in Terminal

CopiesAreGood ==
  /\ \A c \in Clients : http[c].pc = "update" =>
       /\ GoodCopy(http[c].copy)
       /\ http[c].want \in Successors(http[c].copy.status)
  /\ \A h \in Handlers : zmq[h].pc = "save" => GoodCopy(zmq[h].copy)
  /\ \A r \in expiring : GoodCopy(r) /\ r.status = "running"
  /\ \A r \in removing : GoodCopy(r) /\ r.status \in Terminal

\* A session that was told to stop or to clean up has left pending.
StoppedHasLeftPending ==
  \A s \in Sessions :
    lastOrder[s] \in {"session_stopped", "session_cleanup"}
      => store[s] # NoSession /\ store[s].status # "pending"

\* The inductive invariant.
IInv == /\ TypeOK
        /\ IndexLeadsToRecord
        /\ CreatingIsFresh
        /\ CopiesAreGood
        /\ DeletedIsTerminal
        /\ StoppedHasLeftPending

-----------------------------------------------------------------------------
\* Claims of the documentation and the comments that the code does not keep.

\* README: "The server enforces a state-machine when applying status changes".
StatusFollowsStateMachine ==
  [][\A s \in Sessions :
       store[s] # NoSession /\ store'[s].status # store[s].status
         => store'[s].status \in Successors(store[s].status)]_vars
=============================================================================
