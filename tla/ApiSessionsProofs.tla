------------------------- MODULE ApiSessionsProofs -------------------------
(***************************************************************************)
(* The safety properties of ApiSessions hold for any number of sessions,   *)
(* handlers, requests and daemons.  The argument: no read copy is ever     *)
(* saved as pending, every copy belongs to a stored session and keeps its  *)
(* daemon, and a copy marked as deleted is terminal.  IInv says so.        *)
(***************************************************************************)
EXTENDS ApiSessions, TLAPS

\* The state machine: what it leads to is a status other than pending, and it
\* leads nowhere from a terminal one.
LEMMA SuccessorsFacts ==
  ASSUME NEW f
  PROVE  /\ Successors(f) \subseteq SessionStatus \ {"pending"}
         /\ f \in Terminal => Successors(f) = {}
BY DEF Successors, SessionStatus, Terminal

\* Transition stays or takes one step of the state machine, so it never
\* returns to pending and never leaves a terminal status.
LEMMA TransitionFacts ==
  ASSUME NEW f \in SessionStatus, NEW t
  PROVE  /\ Transition(f, t) \in SessionStatus
         /\ Transition(f, t) = f \/ Transition(f, t) \in Successors(f)
         /\ f # "pending" => Transition(f, t) # "pending"
         /\ f \in Terminal => Transition(f, t) = f
BY SuccessorsFacts DEF Transition

\* A report moves a pending session on: it asks for a successor of pending.
LEMMA ReportLeavesPending ==
  ASSUME NEW f \in SessionStatus, NEW e \in Reports
  PROVE  Transition(f, ReportedStatus(e)) # "pending"
<1>1. ReportedStatus(e) \in Successors("pending")
  BY DEF ReportedStatus, Reports, Successors
<1>2. QED
  BY <1>1, TransitionFacts, SuccessorsFacts DEF Transition

\* Saving a record that has the daemon of a stored session changes that one
\* record and nothing else, and keeps what is said of the store.
LEMMA SaveFacts ==
  ASSUME TypeOK, IndexLeadsToRecord, DeletedIsTerminal,
         NEW r, GoodCopy(r), SaveSession(r)
  PROVE  /\ index' = index
         /\ store' \in [Sessions -> Session \cup {NoSession}]
         /\ store'[r.id] = r
         /\ \A s \in Sessions : s # r.id => store'[s] = store[s]
         /\ \A s \in Sessions : store'[s] = NoSession <=> store[s] = NoSession
         /\ IndexLeadsToRecord'
         /\ DeletedIsTerminal'
<1>1. r \in Session /\ r.id \in Sessions /\ r.dockerd \in Dockerds
  BY DEF GoodCopy, Session
<1>2. index' = index
  BY <1>1 DEF SaveSession, SetIndex, GoodCopy, TypeOK
<1>3. store' = [store EXCEPT ![r.id] = r]
  BY DEF SaveSession, SetRecord
<1>4. /\ store' \in [Sessions -> Session \cup {NoSession}]
      /\ store'[r.id] = r
      /\ \A s \in Sessions : s # r.id => store'[s] = store[s]
  BY <1>1, <1>3 DEF TypeOK
<1>5. r # NoSession
  BY <1>1, NoSessionAssumption
<1>6. \A s \in Sessions : store'[s] = NoSession <=> store[s] = NoSession
  BY <1>4, <1>5 DEF GoodCopy
<1>7. IndexLeadsToRecord'
  BY <1>1, <1>2, <1>4, <1>5, <1>6, NoDockerdAssumption
     DEF IndexLeadsToRecord, Found, GoodCopy
<1>8. DeletedIsTerminal'
  BY <1>1, <1>4 DEF DeletedIsTerminal, GoodCopy, IsDeleted, IsTerminal
<1>9. QED
  BY <1>2, <1>4, <1>6, <1>7, <1>8

\* The record with another status is a good copy if the record is and its
\* terminal status is kept.
LEMMA ChangedCopyIsGood ==
  ASSUME NEW r, GoodCopy(r), NEW t \in SessionStatus,
         r.status \in Terminal => t = r.status
  PROVE  /\ GoodCopy(WithStatus(r, t))
         /\ WithStatus(r, t).id = r.id
         /\ WithStatus(r, t).status = t
         /\ WithStatus(r, t).deleted = r.deleted
BY DEF GoodCopy, Session, WithStatus

\* The same for the deletion mark, if the record is terminal.
LEMMA DeletedCopyIsGood ==
  ASSUME NEW r, GoodCopy(r), r.status \in Terminal
  PROVE  /\ GoodCopy(MarkedDeleted(r))
         /\ MarkedDeleted(r).id = r.id
         /\ MarkedDeleted(r).status = r.status
         /\ MarkedDeleted(r).deleted
BY DEF GoodCopy, Session, MarkedDeleted

\* Copies stay good while records are replaced but none disappears.
LEMMA CopyStaysGood ==
  ASSUME NEW r, GoodCopy(r), index' = index,
         \A s \in Sessions : store'[s] = NoSession => store[s] = NoSession
  PROVE  GoodCopy(r)'
BY DEF GoodCopy, Session

\* A record just read from the store is a good copy.
LEMMA StoredIsGood ==
  ASSUME TypeOK, IndexLeadsToRecord, DeletedIsTerminal,
         NEW s \in Sessions, store[s] # NoSession
  PROVE  GoodCopy(store[s]) /\ store[s].id = s
BY DEF TypeOK, IndexLeadsToRecord, Found, DeletedIsTerminal, IsDeleted,
       IsTerminal, GoodCopy

\* The empty store satisfies the invariant.
LEMMA InitIInv == Init => IInv
<1> SUFFICES ASSUME Init PROVE IInv
  OBVIOUS
<1> USE DEF Init
<1>1. TypeOK
  BY MaxEventsAssumption DEF TypeOK, IdleClient, IdleHandler, MembershipInit,
     SessionStatus, Reports
<1>2. IndexLeadsToRecord /\ DeletedIsTerminal
  BY DEF IndexLeadsToRecord, DeletedIsTerminal, IsDeleted
<1>3. CreatingIsFresh /\ CopiesAreGood
  BY DEF CreatingIsFresh, CopiesAreGood, IdleClient, IdleHandler
<1>4. StoppedHasLeftPending
  BY DEF StoppedHasLeftPending
<1>5. QED
  BY <1>1, <1>2, <1>3, <1>4 DEF IInv

-----------------------------------------------------------------------------
\* The steps of the HTTP handlers.

\* A request that has built its record: the session is new and nobody has a
\* copy of it yet.
LEMMA CreateBeginIInv ==
  ASSUME IInv, NEW c \in Clients, NEW s \in Sessions, NEW d \in Dockerds,
         CreateBegin(c, s, d)
  PROVE  IInv'
<1> USE DEF IInv, CreateBegin
<1> DEFINE n == NewSession(s, d)
<1>1. n \in Session /\ n.id = s /\ n.dockerd = d /\ n.status = "pending"
      /\ ~n.deleted
  BY DEF NewSession, Session, SessionStatus
<1>2. index' = [index EXCEPT ![s] = d] /\ store' = store /\ live' = live
  BY DEF SetIndex, Pick
<1>3. store[s] = NoSession
  BY NoDockerdAssumption DEF IndexLeadsToRecord, Found, TypeOK
<1>4. /\ http' \in [Clients -> [pc : {"idle", "create", "update"},
                                copy : Session \cup {NoSession},
                                want : SessionStatus]]
      /\ http'[c].pc = "create" /\ http'[c].copy = n
      /\ \A e \in Clients : e # c => http'[e] = http[e]
  BY <1>1 DEF TypeOK, SessionStatus, Creating
<1>5. TypeOK'
  BY <1>2, <1>4 DEF TypeOK
<1>6. IndexLeadsToRecord'
  BY <1>2, <1>3 DEF IndexLeadsToRecord, Found, TypeOK
<1>7. CreatingIsFresh'
  <2>1. \A e \in Clients : http[e].pc = "create" => http[e].copy.id # s
    BY <1>1, NoDockerdAssumption DEF CreatingIsFresh, TypeOK, Session
  <2>2. QED
    BY <1>1, <1>2, <1>3, <1>4, <2>1 DEF CreatingIsFresh, TypeOK, Session
<1>8. CopiesAreGood'
  <2>1. ASSUME NEW r, GoodCopy(r)
        PROVE  GoodCopy(r)'
    BY <1>2, <1>3, <2>1 DEF GoodCopy, Session, TypeOK
  <2>2. QED
    BY <1>2, <1>4, <2>1 DEF CopiesAreGood
<1>9. DeletedIsTerminal' /\ StoppedHasLeftPending'
  BY <1>2 DEF DeletedIsTerminal, IsDeleted, IsTerminal, StoppedHasLeftPending
<1>10. QED
  BY <1>5, <1>6, <1>7, <1>8, <1>9

\* The new record is saved under both keys.
LEMMA CreateEndIInv ==
  ASSUME IInv, NEW c \in Clients, CreateEnd(c)
  PROVE  IInv'
<1> USE DEF IInv, CreateEnd
<1> DEFINE n == http[c].copy
<1>1. /\ n \in Session /\ n # NoSession /\ n.id \in Sessions
      /\ n.status = "pending" /\ ~n.deleted
      /\ store[n.id] = NoSession /\ index[n.id] = n.dockerd
      /\ n.dockerd # NoDockerd
  BY NoSessionAssumption, NoDockerdAssumption DEF CreatingIsFresh, Session
<1>2. /\ store' = [store EXCEPT ![n.id] = n]
      /\ store' \in [Sessions -> Session \cup {NoSession}]
      /\ store'[n.id] = n
      /\ \A s \in Sessions : s # n.id => store'[s] = store[s]
  BY <1>1 DEF SetRecord, TypeOK
<1>3. /\ http' \in [Clients -> [pc : {"idle", "create", "update"},
                                copy : Session \cup {NoSession},
                                want : SessionStatus]]
      /\ http'[c].pc = "idle"
      /\ \A e \in Clients : e # c => http'[e] = http[e]
  BY DEF TypeOK, IdleClient, SessionStatus
<1>4. TypeOK'
  BY <1>2, <1>3 DEF TypeOK
<1>5. IndexLeadsToRecord'
  BY <1>1, <1>2 DEF IndexLeadsToRecord, Found
<1>6. CreatingIsFresh'
  <2> SUFFICES ASSUME NEW e \in Clients, http'[e].pc = "create"
               PROVE  /\ http'[e].copy \in Session
                      /\ http'[e].copy.status = "pending"
                      /\ ~http'[e].copy.deleted
                      /\ store'[http'[e].copy.id] = NoSession
                      /\ index'[http'[e].copy.id] = http'[e].copy.dockerd
                      /\ \A d \in Clients : http'[d].pc = "create" /\ d # e
                              => http'[d].copy.id # http'[e].copy.id
    BY DEF CreatingIsFresh
  <2>1. e # c /\ http'[e] = http[e]
    BY <1>3
  <2>2. http[e].copy \in Session /\ http[e].copy.id # n.id
    BY <2>1 DEF CreatingIsFresh
  <2>3. store'[http[e].copy.id] = NoSession
    BY <1>2, <2>1, <2>2 DEF CreatingIsFresh, Session
  <2>4. QED
    BY <1>3, <2>1, <2>2, <2>3 DEF CreatingIsFresh
<1>7. CopiesAreGood'
  <2>1. ASSUME NEW r, GoodCopy(r)
        PROVE  GoodCopy(r)'
    BY <1>1, <1>2, <2>1 DEF GoodCopy, Session
  <2>2. QED
    BY <1>3, <2>1 DEF CopiesAreGood
<1>8. DeletedIsTerminal'
  BY <1>1, <1>2 DEF DeletedIsTerminal, IsDeleted, IsTerminal
<1>9. StoppedHasLeftPending'
  BY <1>1, <1>2 DEF StoppedHasLeftPending
<1>10. QED
  BY <1>4, <1>5, <1>6, <1>7, <1>8, <1>9

\* The copy an update request reads, and changes, is good.
LEMMA UpdateReadIInv ==
  ASSUME IInv, NEW c \in Clients, NEW s \in Sessions,
         NEW w \in SessionStatus, UpdateRead(c, s, w)
  PROVE  IInv'
<1> USE DEF IInv, UpdateRead
<1>1. GoodCopy(store[s]) /\ store[s] \in Session
  BY StoredIsGood DEF Found, GoodCopy
<1>2. w \in Successors(store[s].status)
  BY DEF Transition
<1>3. /\ http' \in [Clients -> [pc : {"idle", "create", "update"},
                                copy : Session \cup {NoSession},
                                want : SessionStatus]]
      /\ http'[c].pc = "update" /\ http'[c].copy = store[s]
      /\ http'[c].want = w
      /\ \A e \in Clients : e # c => http'[e] = http[e]
  BY <1>1 DEF TypeOK, Updating
<1>4. TypeOK'
  BY <1>3 DEF TypeOK
<1>5. IndexLeadsToRecord' /\ DeletedIsTerminal' /\ StoppedHasLeftPending'
  BY DEF IndexLeadsToRecord, Found, DeletedIsTerminal, IsDeleted, IsTerminal,
         StoppedHasLeftPending
<1>6. CreatingIsFresh'
  BY <1>3 DEF CreatingIsFresh
<1>7. CopiesAreGood'
  BY <1>1, <1>2, <1>3 DEF CopiesAreGood, GoodCopy
<1>8. QED
  BY <1>4, <1>5, <1>6, <1>7

-----------------------------------------------------------------------------
\* What every save of a copy keeps, if it does not save the record as pending.
LEMMA SaveKeeps ==
  ASSUME IInv, NEW r, GoodCopy(r), r.status # "pending", SaveSession(r),
         lastOrder' = lastOrder
  PROVE  /\ store' \in [Sessions -> Session \cup {NoSession}]
         /\ index' = index
         /\ \A s \in Sessions : store'[s] = NoSession <=> store[s] = NoSession
         /\ \A x : GoodCopy(x) => GoodCopy(x)'
         /\ IndexLeadsToRecord' /\ DeletedIsTerminal' /\ StoppedHasLeftPending'
<1>1. /\ index' = index
      /\ store' \in [Sessions -> Session \cup {NoSession}]
      /\ store'[r.id] = r
      /\ \A s \in Sessions : s # r.id => store'[s] = store[s]
      /\ \A s \in Sessions : store'[s] = NoSession <=> store[s] = NoSession
      /\ IndexLeadsToRecord' /\ DeletedIsTerminal'
  BY SaveFacts DEF IInv
<1>2. \A x : GoodCopy(x) => GoodCopy(x)'
  BY <1>1, CopyStaysGood
<1>3. StoppedHasLeftPending'
  BY <1>1 DEF IInv, StoppedHasLeftPending
<1>4. QED
  BY <1>1, <1>2, <1>3

\* The copy of an update request is saved.
LEMMA UpdateSaveIInv ==
  ASSUME IInv, NEW c \in Clients, UpdateSave(c)
  PROVE  IInv'
<1> USE DEF IInv, UpdateSave
<1> DEFINE r == http[c].copy
           n == WithStatus(r, Transition(r.status, http[c].want))
<1>1. GoodCopy(r) /\ r.status \in SessionStatus
      /\ http[c].want \in Successors(r.status)
  BY DEF CopiesAreGood, GoodCopy, Session
<1>2. GoodCopy(n) /\ n.status # "pending"
  BY <1>1, TransitionFacts, SuccessorsFacts, ChangedCopyIsGood DEF Transition
<1>3. /\ store' \in [Sessions -> Session \cup {NoSession}]
      /\ index' = index
      /\ \A s \in Sessions : store'[s] = NoSession <=> store[s] = NoSession
      /\ \A x : GoodCopy(x) => GoodCopy(x)'
      /\ IndexLeadsToRecord' /\ DeletedIsTerminal' /\ StoppedHasLeftPending'
  BY <1>2, SaveKeeps
<1>4. /\ http' \in [Clients -> [pc : {"idle", "create", "update"},
                                copy : Session \cup {NoSession},
                                want : SessionStatus]]
      /\ http'[c].pc = "idle"
      /\ \A e \in Clients : e # c => http'[e] = http[e]
  BY DEF TypeOK, IdleClient, SessionStatus
<1>5. TypeOK'
  BY <1>3, <1>4 DEF TypeOK
<1>6. CreatingIsFresh'
  BY <1>3, <1>4 DEF CreatingIsFresh, Session
<1>7. CopiesAreGood'
  BY <1>3, <1>4 DEF CopiesAreGood
<1>8. QED
  BY <1>3, <1>5, <1>6, <1>7

-----------------------------------------------------------------------------
\* The steps of the ZMQ handlers.

\* A packet is taken; no record is read or written.
LEMMA ReceiveIInv ==
  ASSUME IInv, NEW h \in Handlers, NEW d \in Dockerds, Receive(h, d)
  PROVE  IInv'
<1> USE DEF IInv, Receive
<1>1. PICK n \in 0..MaxEvents : zmq' = [zmq EXCEPT ![h] = Serving(d, n)]
  OBVIOUS
<1>2. TypeOK'
  BY <1>1 DEF TypeOK, Serving, Reports, Heard
<1>3. CopiesAreGood'
  BY <1>1 DEF CopiesAreGood, Serving, GoodCopy, TypeOK
<1>4. /\ IndexLeadsToRecord' /\ CreatingIsFresh'
      /\ DeletedIsTerminal' /\ StoppedHasLeftPending'
  BY DEF IndexLeadsToRecord, Found, CreatingIsFresh, DeletedIsTerminal,
         IsDeleted, IsTerminal, StoppedHasLeftPending
<1>5. QED
  BY <1>2, <1>3, <1>4

\* The copy the event loop reads is good, and changed by a report it has left
\* the status pending.
LEMMA EventReadIInv ==
  ASSUME IInv, NEW h \in Handlers, NEW s \in Sessions, NEW e \in EventType,
         EventRead(h, s, e)
  PROVE  IInv'
<1> USE DEF IInv, EventRead
<1>1. GoodCopy(store[s]) /\ store[s] \in Session
  BY StoredIsGood DEF Owned, Found, GoodCopy
<1>2. zmq[h].left - 1 \in 0..MaxEvents
  BY MaxEventsAssumption DEF TypeOK
<1>3. TypeOK'
  BY <1>1, <1>2 DEF TypeOK, Applying
<1>4. CopiesAreGood'
  BY <1>1 DEF CopiesAreGood, Applying, GoodCopy, TypeOK
<1>5. /\ IndexLeadsToRecord' /\ CreatingIsFresh'
      /\ DeletedIsTerminal' /\ StoppedHasLeftPending'
  BY DEF IndexLeadsToRecord, Found, CreatingIsFresh, DeletedIsTerminal,
         IsDeleted, IsTerminal, StoppedHasLeftPending
<1>6. QED
  BY <1>3, <1>4, <1>5

\* A skipped event changes no record.
LEMMA EventSkipIInv ==
  ASSUME IInv, NEW h \in Handlers, NEW s \in Sessions, NEW e, EventSkip(h, s, e)
  PROVE  IInv'
<1> USE DEF IInv, EventSkip
<1>1. zmq[h].left - 1 \in 0..MaxEvents
  BY MaxEventsAssumption DEF TypeOK
<1>2. TypeOK'
  BY <1>1 DEF TypeOK, Serving, Reports
<1>3. CopiesAreGood'
  BY DEF CopiesAreGood, Serving, GoodCopy, TypeOK
<1>4. /\ IndexLeadsToRecord' /\ CreatingIsFresh'
      /\ DeletedIsTerminal' /\ StoppedHasLeftPending'
  BY DEF IndexLeadsToRecord, Found, CreatingIsFresh, DeletedIsTerminal,
         IsDeleted, IsTerminal, StoppedHasLeftPending
<1>5. QED
  BY <1>2, <1>3, <1>4

\* The copy of the event loop is saved.
LEMMA EventSaveIInv ==
  ASSUME IInv, NEW h \in Handlers, EventSave(h)
  PROVE  IInv'
<1> USE DEF IInv, EventSave
<1> DEFINE r == zmq[h].copy
           t == Transition(r.status, ReportedStatus(zmq[h].event))
<1>1. GoodCopy(r) /\ r.status \in SessionStatus /\ zmq[h].event \in Reports
  BY DEF CopiesAreGood, GoodCopy, Session, TypeOK
<1>2. /\ t \in SessionStatus /\ t # "pending"
      /\ r.status \in Terminal => t = r.status
  BY <1>1, TransitionFacts, ReportLeavesPending
<1>3. GoodCopy(WithStatus(r, t)) /\ WithStatus(r, t).status # "pending"
  BY <1>1, <1>2, ChangedCopyIsGood
<1>4. /\ store' \in [Sessions -> Session \cup {NoSession}]
      /\ index' = index
      /\ \A s \in Sessions : store'[s] = NoSession <=> store[s] = NoSession
      /\ \A x : GoodCopy(x) => GoodCopy(x)'
      /\ IndexLeadsToRecord' /\ DeletedIsTerminal' /\ StoppedHasLeftPending'
  BY <1>3, SaveKeeps
<1>5. TypeOK'
  BY <1>4 DEF TypeOK, Serving, Reports
<1>6. CreatingIsFresh'
  BY <1>4 DEF CreatingIsFresh, Session
<1>7. CopiesAreGood'
  BY <1>4 DEF CopiesAreGood, Serving, TypeOK
<1>8. QED
  BY <1>4, <1>5, <1>6, <1>7

\* An order to stop or to clean up is only sent for a session that has left
\* the status pending.
LEMMA ReplyIInv ==
  ASSUME IInv, NEW h \in Handlers, Reply(h)
  PROVE  IInv'
<1> USE DEF IInv, Reply
<1> DEFINE mine == ListSessionsByDockerDId(zmq[h].dockerd)
           o(s) == CHOOSE x \in OrdersFor(store[s].status) : TRUE
<1>1. ASSUME NEW s \in Sessions, store[s] \in mine,
             OrdersFor(store[s].status) # {}
      PROVE  /\ store[s] # NoSession
             /\ o(s) \in Orders
             /\ o(s) # "session_start" => store[s].status # "pending"
  BY <1>1 DEF OrdersFor, Orders, ListSessionsByDockerDId, ListSessions
<1>2. ASSUME NEW s \in Sessions
      PROVE  \/ lastOrder'[s] = lastOrder[s]
             \/ /\ store[s] # NoSession
                /\ lastOrder'[s] \in Orders
                /\ lastOrder'[s] # "session_start" => store[s].status # "pending"
  BY <1>1
<1>3. lastOrder' \in [Sessions -> Orders \cup {"none"}]
  BY <1>1 DEF TypeOK
<1>4. TypeOK'
  BY <1>3, MaxEventsAssumption DEF TypeOK, IdleHandler, Reports
<1>5. CopiesAreGood'
  BY DEF CopiesAreGood, IdleHandler, GoodCopy, TypeOK
<1>6. StoppedHasLeftPending'
  BY <1>2 DEF StoppedHasLeftPending
<1>7. IndexLeadsToRecord' /\ CreatingIsFresh' /\ DeletedIsTerminal'
  BY DEF IndexLeadsToRecord, Found, CreatingIsFresh, DeletedIsTerminal,
         IsDeleted, IsTerminal
<1>8. QED
  BY <1>4, <1>5, <1>6, <1>7

-----------------------------------------------------------------------------
\* The steps of the workers.

\* What a worker lists is in the store and a good copy.
LEMMA ListedIsGood ==
  ASSUME TypeOK, IndexLeadsToRecord, DeletedIsTerminal, NEW r \in ListSessions
  PROVE  GoodCopy(r) /\ r \in Session
BY StoredIsGood DEF ListSessions, GoodCopy

\* The batch of the expiry worker holds good copies, none of them pending.
LEMMA ExpireTickIInv ==
  ASSUME IInv, ExpireTick
  PROVE  IInv'
<1> USE DEF IInv, ExpireTick
<1>1. \A r \in expiring' : GoodCopy(r) /\ r \in Session /\ r.status = "running"
  BY ListedIsGood DEF Expirable
<1>2. TypeOK'
  BY <1>1 DEF TypeOK
<1>3. CopiesAreGood'
  BY <1>1 DEF CopiesAreGood, GoodCopy
<1>4. /\ IndexLeadsToRecord' /\ CreatingIsFresh'
      /\ DeletedIsTerminal' /\ StoppedHasLeftPending'
  BY DEF IndexLeadsToRecord, Found, CreatingIsFresh, DeletedIsTerminal,
         IsDeleted, IsTerminal, StoppedHasLeftPending
<1>5. QED
  BY <1>2, <1>3, <1>4

\* The expiry worker saves a copy of its batch as stopped.
LEMMA ExpireSaveIInv ==
  ASSUME IInv, NEW r \in expiring, ExpireSave(r)
  PROVE  IInv'
<1> USE DEF IInv, ExpireSave
<1>1. GoodCopy(r) /\ r.status = "running"
  BY DEF CopiesAreGood
<1>2. GoodCopy(WithStatus(r, "stopped"))
      /\ WithStatus(r, "stopped").status # "pending"
  BY <1>1, ChangedCopyIsGood DEF Terminal, SessionStatus
<1>3. /\ store' \in [Sessions -> Session \cup {NoSession}]
      /\ index' = index
      /\ \A s \in Sessions : store'[s] = NoSession <=> store[s] = NoSession
      /\ \A x : GoodCopy(x) => GoodCopy(x)'
      /\ IndexLeadsToRecord' /\ DeletedIsTerminal' /\ StoppedHasLeftPending'
  BY <1>2, SaveKeeps
<1>4. TypeOK'
  BY <1>3 DEF TypeOK
<1>5. CreatingIsFresh'
  BY <1>3 DEF CreatingIsFresh, Session
<1>6. CopiesAreGood'
  BY <1>3 DEF CopiesAreGood
<1>7. QED
  BY <1>3, <1>4, <1>5, <1>6

\* The batch of the removal worker holds good copies of terminal sessions.
LEMMA RemoveTickIInv ==
  ASSUME IInv, RemoveTick
  PROVE  IInv'
<1> USE DEF IInv, RemoveTick
<1>1. \A r \in removing' : /\ GoodCopy(r) /\ r \in Session
                           /\ r.status \in Terminal
  BY ListedIsGood DEF Removable
<1>2. \A n \in 0..2 : SeenOnceMore(n) \in 0..2
  BY DEF SeenOnceMore
<1>3. TypeOK'
  BY <1>1, <1>2 DEF TypeOK
<1>4. CopiesAreGood'
  BY <1>1 DEF CopiesAreGood, GoodCopy
<1>5. /\ IndexLeadsToRecord' /\ CreatingIsFresh'
      /\ DeletedIsTerminal' /\ StoppedHasLeftPending'
  BY DEF IndexLeadsToRecord, Found, CreatingIsFresh, DeletedIsTerminal,
         IsDeleted, IsTerminal, StoppedHasLeftPending
<1>6. QED
  BY <1>3, <1>4, <1>5

\* The removal worker saves a copy of its batch with the deletion mark.
LEMMA RemoveSaveIInv ==
  ASSUME IInv, NEW r \in removing, RemoveSave(r)
  PROVE  IInv'
<1> USE DEF IInv, RemoveSave
<1>1. GoodCopy(r) /\ r.status \in Terminal
  BY DEF CopiesAreGood
<1>2. GoodCopy(MarkedDeleted(r)) /\ MarkedDeleted(r).status # "pending"
  BY <1>1, DeletedCopyIsGood DEF Terminal
<1>3. /\ store' \in [Sessions -> Session \cup {NoSession}]
      /\ index' = index
      /\ \A s \in Sessions : store'[s] = NoSession <=> store[s] = NoSession
      /\ \A x : GoodCopy(x) => GoodCopy(x)'
      /\ IndexLeadsToRecord' /\ DeletedIsTerminal' /\ StoppedHasLeftPending'
  BY <1>2, SaveKeeps
<1>4. TypeOK'
  BY <1>3 DEF TypeOK
<1>5. CreatingIsFresh'
  BY <1>3 DEF CreatingIsFresh, Session
<1>6. CopiesAreGood'
  BY <1>3 DEF CopiesAreGood
<1>7. QED
  BY <1>3, <1>4, <1>5, <1>6

\* The passing of time, the health worker and a stuttering step read and write
\* no session.
LEMMA OtherIInv ==
  ASSUME IInv,
         \/ \E s \in Sessions : TtlPasses(s)
         \/ \E d \in Dockerds : DockerdSilent(d)
         \/ UNCHANGED vars
  PROVE  IInv'
<1> USE DEF IInv
<1>1. /\ UNCHANGED <<store, index, http, zmq, expiring, removing, seen,
                     lastOrder>>
      /\ ttlPassed' \subseteq Sessions /\ live' \subseteq Dockerds
  BY DEF TypeOK, TtlPasses, DockerdSilent, Drop, apiVars, vars
<1>2. TypeOK'
  BY <1>1 DEF TypeOK
<1>3. /\ IndexLeadsToRecord' /\ CreatingIsFresh' /\ CopiesAreGood'
      /\ DeletedIsTerminal' /\ StoppedHasLeftPending'
  BY <1>1 DEF IndexLeadsToRecord, Found, CreatingIsFresh, CopiesAreGood,
     GoodCopy, DeletedIsTerminal, IsDeleted, IsTerminal, StoppedHasLeftPending
<1>4. QED
  BY <1>2, <1>3

-----------------------------------------------------------------------------
\* IInv is inductive.
LEMMA NextIInv ==
  ASSUME IInv, [Next]_vars
  PROVE  IInv'
<1>1. ASSUME ClientNext PROVE IInv'
  BY <1>1, CreateBeginIInv, CreateEndIInv, UpdateReadIInv, UpdateSaveIInv
     DEF ClientNext, ClientSave
<1>2. ASSUME HandlerNext PROVE IInv'
  BY <1>2, ReceiveIInv, EventReadIInv, EventSkipIInv, EventSaveIInv, ReplyIInv
     DEF HandlerNext, HandlerStep
<1>3. ASSUME WorkerNext PROVE IInv'
  BY <1>3, ExpireTickIInv, ExpireSaveIInv, RemoveTickIInv, RemoveSaveIInv,
     OtherIInv DEF WorkerNext
<1>4. QED
  BY <1>1, <1>2, <1>3, OtherIInv DEF Next

\* The inductive invariant holds in every state the API can reach.
THEOREM Invariance == Spec => []IInv
<1>1. Init => IInv
  BY InitIInv
<1>2. IInv /\ [Next]_vars => IInv'
  BY NextIInv
<1>3. QED
  BY <1>1, <1>2, PTL DEF Spec

\* Every variable keeps its shape.
THEOREM TypeCorrect == Spec => []TypeOK
<1>1. IInv => TypeOK
  BY DEF IInv
<1>2. QED
  BY <1>1, Invariance, PTL

\* The two keys of a session agree: the index entry leads to the record.
THEOREM IndexCorrect == Spec => []IndexLeadsToRecord
<1>1. IInv => IndexLeadsToRecord
  BY DEF IInv
<1>2. QED
  BY <1>1, Invariance, PTL

\* Only failed and finished sessions are ever marked as deleted.
THEOREM DeletionIsSafe == Spec => []DeletedIsTerminal
<1>1. IInv => DeletedIsTerminal
  BY DEF IInv
<1>2. QED
  BY <1>1, Invariance, PTL

-----------------------------------------------------------------------------
\* What one step may do to a stored record.

\* n is what a handler or a worker makes of the record r it read.
MadeFrom(r, n) == /\ n.status # "pending"
                  /\ n.status = r.status \/ n.status \in Successors(r.status)
                  /\ r.deleted => n.deleted

\* A step that does not save a copy leaves every stored record alone.
LEMMA OnlySavesChangeRecords ==
  ASSUME IInv, [Next]_vars,
         \A c \in Clients : ~UpdateSave(c),
         \A h \in Handlers : ~EventSave(h),
         \A r \in expiring : ~ExpireSave(r),
         \A r \in removing : ~RemoveSave(r),
         NEW s \in Sessions, store[s] # NoSession
  PROVE  store'[s] = store[s]
<1>1. CASE \E c \in Clients : CreateEnd(c)
  BY <1>1 DEF CreateEnd, SetRecord, IInv, CreatingIsFresh, TypeOK
<1>2. CASE \E c \in Clients, x \in Sessions, d \in Dockerds : CreateBegin(c, x, d)
  BY <1>2 DEF CreateBegin
<1>3. CASE \E c \in Clients, x \in Sessions, w \in SessionStatus :
             UpdateRead(c, x, w)
  BY <1>3 DEF UpdateRead
<1>4. CASE \E h \in Handlers, d \in Dockerds : Receive(h, d)
  BY <1>4 DEF Receive
<1>5. CASE \E h \in Handlers, x \in Sessions, e \in EventType :
             EventRead(h, x, e) \/ EventSkip(h, x, e)
  BY <1>5 DEF EventRead, EventSkip
<1>6. CASE \E h \in Handlers : Reply(h)
  BY <1>6 DEF Reply
<1>7. CASE ExpireTick \/ RemoveTick
  BY <1>7 DEF ExpireTick, RemoveTick
<1>8. CASE \/ \E x \in Sessions : TtlPasses(x)
           \/ \E d \in Dockerds : DockerdSilent(d)
           \/ UNCHANGED vars
  BY <1>8 DEF TtlPasses, DockerdSilent, apiVars, vars
<1>9. QED
  BY <1>1, <1>2, <1>3, <1>4, <1>5, <1>6, <1>7, <1>8
     DEF Next, ClientNext, ClientSave, HandlerNext, HandlerStep, WorkerNext

\* A stored record is changed only by a step that saves what is made of a copy of it.
LEMMA RecordsAreMadeFromCopies ==
  ASSUME IInv, [Next]_vars,
         NEW s \in Sessions, store[s] # NoSession, store'[s] # store[s]
  PROVE  \E r \in Copies : r.id = s /\ Saved(r) /\ MadeFrom(r, store'[s])
<1>1. ASSUME NEW c \in Clients, UpdateSave(c)
      PROVE  \E r \in Copies : r.id = s /\ Saved(r) /\ MadeFrom(r, store'[s])
  <2> DEFINE r == http[c].copy
             n == WithStatus(r, Transition(r.status, http[c].want))
  <2>1. GoodCopy(r) /\ r.status \in SessionStatus /\ r \in Copies
        /\ http[c].want \in Successors(r.status)
    BY <1>1 DEF UpdateSave, IInv, CopiesAreGood, GoodCopy, Session, Copies
  <2>2. n.id = r.id /\ GoodCopy(n) /\ MadeFrom(r, n)
    BY <2>1, TransitionFacts, SuccessorsFacts, ChangedCopyIsGood
       DEF Transition, MadeFrom
  <2>3. r.id = s /\ store'[s] = n
    BY <1>1, <2>2, SaveFacts DEF UpdateSave, IInv
  <2>4. Saved(r)
    BY <1>1 DEF UpdateSave, Saved, IdleClient, IInv, TypeOK
  <2>5. QED
    BY <2>1, <2>2, <2>3, <2>4
<1>2. ASSUME NEW h \in Handlers, EventSave(h)
      PROVE  \E r \in Copies : r.id = s /\ Saved(r) /\ MadeFrom(r, store'[s])
  <2> DEFINE r == zmq[h].copy
             t == Transition(r.status, ReportedStatus(zmq[h].event))
             n == WithStatus(r, t)
  <2>1. GoodCopy(r) /\ r.status \in SessionStatus /\ r \in Copies
        /\ zmq[h].event \in Reports
    BY <1>2 DEF EventSave, IInv, CopiesAreGood, GoodCopy, Session, Copies, TypeOK
  <2>2. /\ t \in SessionStatus /\ t # "pending"
        /\ t = r.status \/ t \in Successors(r.status)
        /\ r.status \in Terminal => t = r.status
    BY <2>1, TransitionFacts, ReportLeavesPending
  <2>3. n.id = r.id /\ GoodCopy(n) /\ MadeFrom(r, n)
    BY <2>1, <2>2, ChangedCopyIsGood DEF MadeFrom
  <2>4. r.id = s /\ store'[s] = n
    BY <1>2, <2>3, SaveFacts DEF EventSave, IInv
  <2>5. Saved(r)
    BY <1>2 DEF EventSave, Saved, Serving, IInv, TypeOK
  <2>6. QED
    BY <2>1, <2>3, <2>4, <2>5
<1>3. ASSUME NEW r \in expiring, ExpireSave(r)
      PROVE  \E x \in Copies : x.id = s /\ Saved(x) /\ MadeFrom(x, store'[s])
  <2> DEFINE n == WithStatus(r, "stopped")
  <2>1. GoodCopy(r) /\ r.status = "running" /\ r \in Copies
    BY DEF IInv, CopiesAreGood, Copies
  <2>2. n.id = r.id /\ GoodCopy(n) /\ MadeFrom(r, n)
    BY <2>1, ChangedCopyIsGood
       DEF MadeFrom, Terminal, SessionStatus, Successors
  <2>3. r.id = s /\ store'[s] = n
    BY <1>3, <2>2, SaveFacts DEF ExpireSave, IInv
  <2>4. Saved(r)
    BY <1>3 DEF ExpireSave, Saved
  <2>5. QED
    BY <2>1, <2>2, <2>3, <2>4
<1>4. ASSUME NEW r \in removing, RemoveSave(r)
      PROVE  \E x \in Copies : x.id = s /\ Saved(x) /\ MadeFrom(x, store'[s])
  <2> DEFINE n == MarkedDeleted(r)
  <2>1. GoodCopy(r) /\ r.status \in Terminal /\ r \in Copies
    BY DEF IInv, CopiesAreGood, Copies
  <2>2. n.id = r.id /\ GoodCopy(n) /\ MadeFrom(r, n)
    BY <2>1, DeletedCopyIsGood DEF MadeFrom, Terminal
  <2>3. r.id = s /\ store'[s] = n
    BY <1>4, <2>2, SaveFacts DEF RemoveSave, IInv
  <2>4. Saved(r)
    BY <1>4 DEF RemoveSave, Saved
  <2>5. QED
    BY <2>1, <2>2, <2>3, <2>4
<1>5. QED
  BY <1>1, <1>2, <1>3, <1>4, OnlySavesChangeRecords

\* No save brings a session back to pending, so a session that has left it is
\* never ordered to start again.
THEOREM PendingIsLeftForGood == Spec => NeverBackToPending
<1>1. ASSUME IInv, [Next]_vars, NEW s \in Sessions,
             store[s] # NoSession, ~HasStatus(s, "pending")
      PROVE  ~HasStatus(s, "pending")'
  BY <1>1, RecordsAreMadeFromCopies DEF HasStatus, MadeFrom
<1>2. IInv /\ [Next]_vars
        => [\A s \in Sessions :
              store[s] # NoSession /\ ~HasStatus(s, "pending")
                => ~HasStatus(s, "pending")']_vars
  BY <1>1
<1>3. QED
  BY <1>2, Invariance, PTL DEF Spec, NeverBackToPending

\* Every change of a record is a step of the state machine that keeps the
\* deletion mark, unless the copy the step saves is not the stored record any
\* more: other copies, stale or not, excuse nothing.
THEOREM OnlyStaleCopiesBreakTheStateMachine == Spec => LegalUnlessStale
<1>1. ASSUME IInv, [Next]_vars, NEW s \in Sessions,
             store[s] # NoSession, store'[s] # store[s],
             \A r \in Copies : ~(r.id = s /\ Saved(r) /\ Stale(r))
      PROVE  /\ store[s].deleted => store'[s].deleted
             /\ \/ store'[s].status = store[s].status
                \/ store'[s].status \in Successors(store[s].status)
  <2>1. PICK r \in Copies : r.id = s /\ Saved(r) /\ MadeFrom(r, store'[s])
    BY <1>1, RecordsAreMadeFromCopies
  <2>2. store[s] = r
    BY <1>1, <2>1 DEF Stale
  <2>3. QED
    BY <2>1, <2>2 DEF MadeFrom
<1>2. IInv /\ [Next]_vars
        => [\A s \in Sessions :
              store[s] # NoSession /\ store'[s] # store[s]
                => \/ \E r \in Copies : r.id = s /\ Saved(r) /\ Stale(r)
                   \/ /\ store[s].deleted => store'[s].deleted
                      /\ \/ store'[s].status = store[s].status
                         \/ store'[s].status \in Successors(store[s].status)]_vars
  BY <1>1
<1>3. QED
  BY <1>2, Invariance, PTL DEF Spec, LegalUnlessStale

\* A daemon that was told to stop or to clean up a session is not told to start
\* it again.
THEOREM StopIsFinal == Spec => NeverStartAfterStop
<1>1. ASSUME IInv, [Next]_vars, NEW s \in Sessions,
             lastOrder[s] \in {"session_stopped", "session_cleanup"}
      PROVE  lastOrder'[s] # "session_start"
  <2>1. store[s] # NoSession /\ store[s].status # "pending"
    BY <1>1 DEF IInv, StoppedHasLeftPending
  <2>2. CASE \E h \in Handlers : Reply(h)
    BY <1>1, <2>1, <2>2 DEF Reply, OrdersFor
  <2>3. CASE lastOrder' = lastOrder
    BY <1>1, <2>3
  <2>4. QED
    BY <1>1, <2>2, <2>3
       DEF Next, ClientNext, ClientSave, HandlerNext, HandlerStep, WorkerNext,
           CreateBegin, CreateEnd, UpdateRead, UpdateSave, Receive, EventRead,
           EventSkip, EventSave, ExpireTick, ExpireSave, RemoveTick, RemoveSave,
           TtlPasses, DockerdSilent, apiVars, vars
<1>2. IInv /\ [Next]_vars
        => [\A s \in Sessions :
              lastOrder[s] \in {"session_stopped", "session_cleanup"}
                => lastOrder'[s] # "session_start"]_vars
  BY <1>1
<1>3. QED
  BY <1>2, Invariance, PTL DEF Spec, NeverStartAfterStop
=============================================================================
