# A TLA+ model of Bedrock

Bedrock runs a user's command in a container next to a tracer container and
brings the trace back. This directory holds TLA+ modules translated from its Go
source, TLC configurations that check them on small instances, and proofs that
TLAPS checks. Paths below are relative to `src/`.

## The system and its parts

| Part | Source | State it keeps | Operations |
| --- | --- | --- | --- |
| Session life cycle | `internal/state_machine`, `pkg/enums` | none | `Transition` |
| Session store | `internal/components/sessions`, `internal/storage/gocache` | two keys per session: an index entry (id to daemon) and the record | `SaveSession`, `GetSessionById`, lists |
| HTTP API | `internal/ports/http` | none of its own | create, update, list sessions; logs; health |
| ZMQ server | `internal/ports/zmq` | channels between receiver, handlers, sender | one packet in, one packet out |
| API process | `main.go`, `cmd/api.go` | two nested error groups with their contexts | start, end everything when one part ends |
| Workers | `internal/workers` | health map; how often a session was seen finished | expire, remove, health check |
| Scheduler | `internal/scheduler` | round-robin queue of daemons | `Append`, `Drop`, `Pick` |
| DockerD | `internal/ports/daemon` | none in memory; containers and directories | poll, start, stop, clean up, collect logs |
| Container managers | `internal/components/containers` | Docker's containers, or a map in memory | create, start, stop, remove, list, inspect, logs |
| FileMD | `internal/components/filemd` | none; directories | scan, upload with retries, delete |
| Log store | `internal/components/logs` | files by session | store, load |

How they interact. All writers of session records (HTTP requests, ZMQ
handlers, two workers) share the store and no lock: each reads a record,
changes its copy and saves the whole record. ZMQ handlers send the name of
every polling daemon over an unbuffered channel to the health worker, which
alone appends to and drops from the scheduler that HTTP requests pick from. A
daemon polls with the states of its targets and gets the orders for its
sessions in the reply; it has no other memory of them than its containers. A
lock file in a session's directory keeps FileMD away while the session runs.

What is hard, and what makes each part correct:

* Store and its writers: saves of stale copies in any order. The two keys agree;
  a status follows the state machine; a session that has left *pending* does not
  return to it, since a daemon would start it again; only what is over is
  marked as deleted, and in the end it is.
* Scheduler and health worker: picks between a poll, its append and a sweep. No
  daemon is queued twice or lost, silent ones go within two intervals, fresh
  ones stay, turns are fair.
* DockerD: crashes between two container calls, calls that fail one by one, late
  replies, orders that are out of date when they are carried out. A command
  runs once; stops and cleanups happen; reports are complete; the directory is
  locked while it is in use and open when the end is reported.
* ZMQ server: goroutines that wait for one another on unbuffered channels. One
  reply per request, none lost, and a shutdown that ends.
* FileMD and log store: uploads that fail half way, directories that are read
  and deleted while they are written. What is deleted is stored, and what is
  there is handed over.
* All of it together: old packets, lost replies, and restarts of either side
  that lose what the other still believes. What the API shows agrees with the
  containers, and sessions go on to their end.

The list of hazards with their lines is in `PROJECT.json`.

## Modules

`SessionStates` has the statuses, `Successors` (the map of the state machine),
`Transition`, the status each report asks for and the order each status leads
to in a reply. `OrdersFor` is empty for a failed session: its `case` in
`zmq/handlers.go:209` is empty and Go does not fall through.

`Membership` is the abstract scheduler: a set of daemons, entered by polling,
left by being silent, picked from. `ApiSessions` is written against it and
`HealthScheduler` implements it.

`ApiSessions` is the API's session state.

| Variable | Code |
| --- | --- |
| `store`, `index` | the record under `sessions/<dockerd>/<id>` and the entry under `sessionIdDockerDIndex/<id>` |
| `http[c]` | an HTTP request between its read and its save (or, for a new session, between the two writes of `SaveSession`) |
| `zmq[h]` | a `socketHandler` inside `processPacketData`: sender, events left, the record read |
| `expiring`, `removing` | records a worker listed on this tick and has still to save |
| `seen` | `finishedSessions` of the removal worker |
| `live` | the daemons in the scheduler's queue |
| `ttlPassed`, `lastOrder` | whether `CreatedAt + TTL` is over; the last order sent (history) |

`createSession` is `CreateBegin` and `CreateEnd`; `updateSession` is
`UpdateRead` and `UpdateSave`; a packet is `Receive`, for each event `EventRead`
and `EventSave` or `EventSkip`, and `Reply`; a worker's tick is `ExpireTick`
followed by one `ExpireSave` per record, `RemoveTick` by `RemoveSave`s. A save
of an existing record writes an index entry that is there already, so its two
writes are one step; only for a new session are they two. Listing is one step
(the cache copies its map under its lock). `Receive` lets the daemon become
live in the same step, where the code has a channel in between; `HealthScheduler`
splits this. A packet holds up to `MaxEvents` events, of any session and of
any type, in any order, also about sessions of other daemons.

`HealthScheduler` is the queue and the health worker. `Appended`, `Dropped` and
`Rotated` are what the three scheduler calls do to the queue, each under its
lock. The worker's receive and its append are two steps (`Receive`,
`AppendReceived`), a tick is `Sweep`, which finds the overdue entries, and one
`DropOverdue` for each. Nothing changes an age or the map during a tick, since
the worker is one goroutine, so finding them at once is what the loop does.
`passedOver` is a history variable.

`ZmqPipeline` is the API process as a set of goroutines: `receiver`, `handler[h]`
and `sender` are `socketReceiver`, `socketHandler` and `socketSender`, each with
its place and the request it has in hand; `healthUp` is the health worker, `http`
the HTTP server, `signalled` the process's context. A send on an unbuffered
channel and its receipt are one step of both sides (`Take`, `TellHealth`, `Put`);
a `select` with two ready cases takes either. The contexts are not variables:
`ApiCancelled` and `ZmqCancelled` are what the two error groups (`cmd/api.go`,
`zmq.Serve`) make of the goroutines that have returned. `request[r]` is where the
client of a request is; polls time out, health checks (`GET /health` asks the
server over its own socket) wait for ever.

`Dockerd` is one daemon with its containers and directories. `box[s]` is the state
of the target and the tracer of session `s`, `volume[s]` its directory, `pc` the
place in `Serve`, `prepareEvents`, `syncEvents`, `startContainersForSession` or
`stopContainersForSession`, `inbox` the orders of the reply not yet carried out.
Every call to the runtime is a step, with its failure if `Failures` has it; of the
containers that `stopContainersForSession` has listed (`ToStop`), `left` are still
to be stopped and `remove` still to be removed, each removed right after its stop
(`StopContainer`, `RemoveContainer`), so that the daemon may crash between the
two. The simulator, which is the default runtime, and Docker differ in
`StoppedBy...`, `RemovedBy...`, in what survives a crash of the daemon, and in
`InspectTellsLabels`: `Get` of the Docker manager fills no labels. A container
that is not running is *exited* for the daemon whether or not it has ever run.
What the API wants (`want`) is an environment that may change at any time, of many
sessions at once, but never back to a start (`MayFollow`). That the API is such an
environment is what `Bedrock` shows.

`VolumeHandoff` takes apart what `Dockerd` has as one step of collection and one
of FileMD: the directory of one session (`dir`, `locked`, `file`) between
`collectSessionLogs` and `StoreLogs` of DockerD (`collector`), the tracer that may
still write its report, FileMD's `ReadyVolumes`, `processSession`, `retryUpload`
and deletion (`filemd`, `read`), and `storeSessionLogs` of the API (`stored`),
each file a step. Collection comes again with every poll as long as the target
is there. Logs that break off and uploads that fail may do so at any time;
crashes, restarts of the API and failing file operations are counted by
`faults`. `late`, `unread`, `exposed` and `wiped` are histories.

`Bedrock` composes `ApiSessions` with `Dockerd` (`D == INSTANCE Dockerd WITH want <-
Want`): what the API wants of a session is what its store says (`Wanted`), and a
packet's events are the daemon's report. A packet is under way (`wire`), then with
a handler (`held`), which reads its events in any order while others read and
save; the daemon may have given up on it by then. `ApiRestarts` empties the
store; `Crash` is the daemon's, and with the simulator loses its containers;
`Surroundings` is what happens to the daemon's directories and containers
without it: FileMD takes one, or, with Docker, a container exits by itself. A
session forgotten in a restart (`forgotten`) is not created anew, as ids are
random.

The modules named `...Proofs` hold the theorems about the module of that name
(for `Dockerd` and `Bedrock` there are two, the second about what happens in the
end), the ones named `MC...` instantiate it for TLC.
Operators commented as faulty variants are changes of the operator after them,
of the kind a bug would make; replacing the operator by its variant breaks a
property, which shows that the property says something of the code.

## Runs

| Run | Configuration | Checks |
| --- | --- | --- |
| `api_races` | `MCApiRaces.cfg` | what the unlocked reads and saves cannot break |
| `health` | `MCHealth.cfg` | queue, health map, fairness of turns, `Membership` |
| `zmq_pipeline` | `MCZmqPipeline.cfg` | every request answered once; the end of the process |
| `dockerd_docker` | `MCDockerdDocker.cfg` | one run per session, clean stays clean |
| `dockerd_simulator` | `MCDockerdSimulator.cfg` | locks and complete reports |
| `dockerd_live` | `MCDockerdLive.cfg` | starts, stops and cleanups happen |
| `handoff` | `MCVolumeHandoff.cfg` | logs are neither torn nor lost, and are handed over |
| `bedrock` | `MCBedrock.cfg` | what the API shows as finished is over |
| `bedrock_live` | `MCBedrockLive.cfg` | the composition implements `Dockerd`; sessions go on, expire and are deleted |
| `api_lost_update` | `MCApiLostUpdate.cfg` | violated: the status follows the state machine |
| `dockerd_labels` | `MCDockerdLabels.cfg` | violated: reports cover the targets, with Docker |
| `zmq_shutdown` | `MCZmqShutdown.cfg` | violated: after a signal the process ends |

`api_races` checks that the index leads to the record (`IndexLeadsToRecord`), that
only terminal sessions are marked as deleted (`DeletedIsTerminal`), that no save
brings a session back to pending (`NeverBackToPending`), that a daemon told to
stop a session is not told to start it later (`NeverStartAfterStop`), that every
change of a record is legal unless the very copy that is saved was overtaken since
it was read (`LegalUnlessStale`: the step puts that copy down, `Saved`, and the
copy is `Stale`), and the inductive invariant `IInv` of the proofs, which has
`TypeOK` in it. One session, two handlers, one request, both workers and two
daemons: up to five copies of a record are around at once, two handlers may both
serve the same daemon (a retry after a timeout), and a daemon may report a session
of the other. Sessions meet only in a worker's batch and in a reply, where each is
treated alone; two sessions give nearly ten million states with one handler and
nothing new, and the theorems are about any number. `MaxEvents` = 1: a handler
that has done one event and receives again is like one that does two.

`health` has three daemons, an interval of three units, ages up to twice that
plus one: enough for a daemon to be picked around, dropped in the middle of a
sweep, and come back. `ImplementsMembership` is the refinement with `live` as the
set of queued daemons. `SilenceIsBounded` is two intervals, not one: the sweep has
the same period and the comparison is strict. `SilentIsDropped` is its liveness
side.

`zmq_pipeline` has two handlers, two polls and a health check: a handler can be
with the health worker while the other waits for the sender and the receiver has
the third request in hand. `NoneTwiceNoneLost` is about every place a request can
be; `AnsweredUnlessEnding` rules out that goroutines wait for one another in a
circle. `SignalEndsUnlessCaught` and `FailureEndsTheOthers` (a failed sender or a
failed HTTP server) say how the process ends: the only thing that keeps it is a
handler that is `Caught`, which `zmq_shutdown` shows to happen.

`dockerd_docker` has two sessions, all eight kinds of failure and two crashes;
two are needed to crash once in a start and once in what makes up for it.
`dockerd_simulator` has two sessions, commands that cannot be parsed, and two
crashes that take the containers away; it is where FileMD takes directories.
`dockerd_live` also checks that the daemon gets through its orders again and again
(`KeepsSyncing`), which the other three rest on.
It has one session, since the daemon serves them one after the other. Every call
but listing may fail there. `StopStops` and `CleanupRemoves` except only a runtime
that refuses to stop or to remove again and again (`StopFails`, `RemoveFails`,
which are failing steps and not states): a container whose stop or removal failed
and was merely logged is gone over again. `WantedIsStarted` excepts a start that
fails again and again, and containers that stay left over for ever (`<>[]LeftOver`):
a start that is only late, or was broken off and made up for, is no exception.

`handoff` has one session, since sessions share no file, all three files and one
counted fault, beside the uncounted ones. `DeletedIsStored` and
`OnlyLateFilesAreLost` say what FileMD may delete, `HalfReadIsExposed` what it may
read, and `ReadyIsHandedOver` that it does not overlook anything. The
theorems about it hold for any number of faults.

`bedrock` has two handlers, so that one may process a packet the daemon has
given up on while the other serves the next poll, a crash and a restart.
`FinishedIsSilent` is its main property: what the API shows as finished does not
run and is not going to, whatever old packets and old copies are still around.
`bedrock_live` has one handler and users who also ask for *failed*.
`StoppedFinishes` and `PendingStarts` say that a session stays in a status only
for the reason they name. `ExpiredLeavesRunning`: an expired session leaves
*running*. `TerminalIsDeleted`: a session that stays failed or finished gets its
mark again and again, even if an older save took it away. `ImplementsDockerd` is
checked there, with fairness playing no part. `PendingStarts` excepts a session
whose own start fails again and again. One crash of each side: with an
empty store or no containers the next is like the first. Both runs have the
simulator, since with Docker the daemon reports nothing (`dockerd_labels`) and the
API would learn nothing; the theorems about safety are for either runtime.

Deadlock is checked except where the system may really stop: in the two runs of
`ZmqPipeline` the process ends or is caught, and in `handoff` the directory is
gone, both containers are removed and the faults are used up.

## Fairness

`ApiSessions`: weak fairness of each worker's tick and of its saves
(`WorkerFairness`): Go's tickers fire and the loops have no other exit than
shutdown. Nobody has to send a request or a poll, time need not pass, and no
daemon need be dropped.

`HealthScheduler`: weak fairness of the append and the drops that the worker
is in the middle of; strong fairness of `Sweep` and of `Pass`, because a ready
tick competes with names in a `select` that chooses at random, and because time
goes on while names arrive. The worker is taken to be prompt: no time passes
while it has something to do.

`ZmqPipeline`: weak fairness of every goroutine, strong fairness of `Put` of each
handler, because Go queues the senders of a channel and the one that waits
longest is next. Nobody has to send a request, give up, stop the process or fail.

`Dockerd`: weak fairness of the daemon's loop and strong fairness of `Reply`: of
the polls it makes, some are answered in time. A timeout is possible at every
poll, which also covers that `daemon.go:66` gives seconds to a call that takes
milliseconds. Calls to the runtime return, although they have no deadline. A
container never has to exit by itself and FileMD never has to act.

`VolumeHandoff`: weak fairness of FileMD's loop alone. It includes that an upload
comes to an end, well or badly, which the HTTP client without a timeout
(`uploader.go:33`) leaves to the API. DockerD, the tracer and faults may stop at
any point.

`Bedrock`: `WorkerFairness`, and weak fairness of the daemon's loop and of each
handler that holds a packet. That replies go on to arrive is no fairness but a
premise, `KeepsAnswering`, of the two properties that need it.

## What the code does not keep

Three disagreements are runs, and findings in `PROJECT.json`:

* Lost updates (`api_lost_update`). The expiry worker or a handler saves a copy
  that another has overtaken, and a terminal status is overwritten. README.md:272
  says the state machine is enforced. `LegalUnlessStale` shows that there is no
  other way around it.
* With Docker no state is ever reported (`dockerd_labels`), so a session stays
  pending in the API, its start being ordered and skipped with every poll.
* A shutdown may not end (`zmq_shutdown`): a handler is caught in its send to a
  health worker that has returned.

Others follow from one or two lines and need no run to see:

* Early deletion. Two ticks of the removal worker may pass between two polls, and
  a session marked as deleted is left out of replies: seeing it twice ensures
  nothing about the cleanup (`workers.go:104`, `workers.go:139`).
* Failed sessions get no cleanup (`zmq/handlers.go:209`, against README.md:146).
* A cleanup does not unlock the directory (`daemon/handlers.go:123`, against
  README.md:156): the lock goes only when the daemon inspects an exited target.
* The lock goes while the tracer may still write its report (`watcher.go:8` says
  it stays "while containers are still running"). `OnlyLateFilesAreLost` has the
  report in `late`.
* If no file of a ready directory can be read, nothing is uploaded and the
  directory is deleted all the same (`filemd.go:105`).
* Failed starts are retried for ever and never reported (`daemon/handlers.go:109`,
  against README.md:195). `WantedIsStarted` names them as an exception.
* Containers that were created and not started before a crash count as running
  (`daemon/handlers.go:133`, `:159`), for ever if nobody removes them: the
  exception `<>[]LeftOver` of `WantedIsStarted`.
* A pending session's TTL is never looked at (`workers.go:42` against
  README.md:229).
* The HTTP server is given no context (`cmd/api.go`), so it goes on when the ZMQ
  server and the workers have ended because of an error.
* Defaults disagree (`configs/default.go`): FileMD sends HTTP to 8081, where the
  API has its ZMQ socket, and looks for volumes in another directory than DockerD
  makes them in. The modules take the settings to fit.

## Proofs

Each theorem is about every value of the constants, from the named assumptions
of its module. Invariants are seldom inductive as they stand; what is added to
them is the content of the proofs.

`ApiSessionsProofs`, for every number of sessions, handlers, requests, daemons and
events: `TypeCorrect`, `IndexCorrect`, `DeletionIsSafe`, `PendingIsLeftForGood`,
`OnlyStaleCopiesBreakTheStateMachine`, `StopIsFinal`, from `Invariance`. What a save
does depends on a copy read long ago, so `IInv` adds what is known of copies: a
record being created is new and nobody has read it (`CreatingIsFresh`); a copy
belongs to a stored session, has the daemon of its index entry, and is terminal
if it has a deletion mark (`CopiesAreGood`); in the expiry worker's batch it is
running, in the removal worker's terminal. Since daemons are never reassigned
and records never removed, a copy stays good however stale it gets. Then each
save stores a record that is not pending, and the rest follows record by
record. `StoppedHasLeftPending` relates orders already sent to statuses, which
makes `StopIsFinal` an invariant argument. `Invariance` has one lemma per action.
For `OnlyStaleCopiesBreakTheStateMachine`, `RecordsAreMadeFromCopies` says that each
save makes its record from a copy that this step puts down; if that copy is not
stale, it has the status of the record it replaces, and the guards of the save
are those of the state machine.

`HealthSchedulerProofs`, for every finite set of daemons and every interval:
`SchedulerTypeCorrect`, `QueueAndMapAgree`, `SilentAreNotPicked`, `RoundRobinIsFair`,
`FreshDaemonsStay`, `SchedulerIsMembership`, which is the refinement, and
`SilentAreDropped`. First come
lemmas on what append, drop and rotation do to a sequence without repetitions,
proved by positions. `HealthInv` adds that whoever is k-th in the queue can still
wait for k picks (`TurnsLeft`): a pick takes one of each, an append finds room
because a queue without repetitions is no longer than there are daemons, a drop
only moves others forward. `AgesBounded` has ages below an interval plus the time
since the last tick, except for what the present tick is dropping, and `OneTask`
that a tick and an append are never under way together. It follows that
`PickBound` is always true: it bounds faulty variants only.

`ZmqPipelineProofs`, for every number of handlers and requests: `ZmqTypeCorrect`
and `RequestsAreKept`, and of the end `SignalledEnds`, `FailureEndsServer` and
`ClientsAreAnswered`. The type invariant says at which places a goroutine has a
request in hand, and with it the invariant is inductive: each step moves one
request from one place to the next free one, or drops it when the server's
context is cancelled, which never ceases.

`DockerdProofs` and `DockerdServiceProofs`, for every number of
sessions and of crashes and any set of failures:

* `LockHolds`: a directory is locked while its target runs. `LockInv` adds that the
  directory is locked from the stage after `MakeVolume` until the target is
  started: FileMD takes no locked directory, and the only other step that opens
  one, `Inspect`, happens in another phase of the loop and looks at a target
  that does not run. A failed `MakeVolume` may leave an unlocked directory, but
  only of a session that had none, and thereby no running target.
* `DockerdTypeCorrect`, with `CurIsSession` (whoever is being started or stopped has
  no order left in the inbox) and `ListedExist`.
* `CleanupIsFinal`: a session whose stop or cleanup is ordered or under way is not
  wanted started any more (`OrdersInv`), no step makes a session startable again that
  was not (`StepNoNewStart`, which is what `MayFollow` is needed for), and a cleaned
  session has no container, no way to a start and no start under way (`CleanInv`).
* `TargetRunsOnce`, with Docker: a session that has run and may still be ordered
  to start has both its containers (`RunHasContainers`), so the order is skipped,
  and a start under way is of a session that has not run (`FirstStart`).
* `NoTargetIsHidden` and `EndIsToldAfterUnlock` hold with labels told and files
  that can be written; both say what a phase of the loop has done so far.
* `ReportedEndIsFinal`: what is reported as ended has no target that runs, no start
  under way and no order to start to come (`Silent`, which no step undoes). With
  Docker nothing is reported. The simulator's targets that do not run are either
  about to be started, which is not when the daemon inspects, or were stopped,
  and a stop is ordered only of a session that has left *pending* (`StillInv`,
  `OrdersInv`).
* `SimulatorNamesAreFresh`: the simulator, whose `Create` does not look at names,
  is never asked for one that is taken: a session that is not at hand has both
  of its containers or none, and one that is being removed has those that are
  in `remove` (`PairInv`).

`VolumeHandoffProofs`, for any number of faults: `HandoffTypeCorrect`,
`DeletionIsCovered`, `LockGuardsCollection`, `LossIsExplained` and
`ReadyAreHandedOver`. For what is
deleted: an attempt has stored the files before its position as they were read
(`StoredInv`), and a file that FileMD has passed is complete in what it read if it
is complete in the directory, unless it is in `late` or `unread` (`PassedInv`). For
the lock: it never comes back once it is gone, so that the directory is unlocked
while FileMD is at work (`LockInv`); a half written log is either being copied under
the lock or `exposed` (`HalfWrittenInv`), and FileMD can have read only the second
kind.

`BedrockProofs`, for any number of sessions, handlers and requests and one daemon:
`SystemInvariance`, `IInv` of `ApiSessions` also over restarts of the API, and
`SystemImplementsDockerd`, that the composition implements `Dockerd`. The API
steps are those of `ApiSessions`, an event that is skipped, and a restart; none
of them makes a session wanted for a start that was not new (`WantFollows`), which
needs `IInv`, since a stale save must not bring back *pending*. TLC's instance has
one session and cannot show this. All that is proved of `Dockerd` is then true of
the daemon that works for this API: `SystemLocks`, `SystemHidesNoTarget` and
`SystemEndsUnlocked` carry three of its theorems over. With Docker the
composition has containers that exit by themselves (`Surroundings`), so that
`SystemLocks` says as much of it as `LockHolds` does of the daemon alone.

`SystemTypeCorrect` is for finite sets of sessions, since handlers count events.
`FinishedIsOver` is `FinishedIsSilent`. That a session has ended is said in a report,
a packet under way, a packet at a handler, a copy about to be saved, or the
store; `TruthInv` says that wherever it is said, it is true, and `OverStays` that
it stays true, so it does not matter how old the packet or the copy is. A copy
becomes *finished* only for a report that says so, because users do not ask for
it, and the removal worker saves it as *finished* only if it was. It is for this
theorem that `ReportedEndIsFinal` looks at orders that are still to come.

### What must happen in the end

Every liveness property that a run checks is the conclusion of a theorem as well.
Two things are out of the prover's reach, and are stated as premises instead of
being taken for granted:

* When a step is enabled. To the prover `ENABLED` is a formula it knows nothing
  of, so that each place at which fairness is used has a premise that names the
  state a step is enabled in: `GoroutinesGoOn`, `DaemonGoesOn`, `LoopIsEnabled`,
  `ExpiryIsEnabled`, `RemovalIsEnabled`. Each can be read off the guards.
* Inductions under a temporal operator: that counted crashes and faults end
  (`CrashesEnd`, `FaultsEnd`), that finite sets that only shrink come to stay as
  they are (`OrdersRunOut`, `TargetsRunOut`), that finitely many handlers that
  all end have all ended at some time (`HandlersEndTogether`), that a worker gets
  through its list, so that there is a next tick (`SweepsRecur`, `TicksEnd`), that a
  request out of finitely many is received in the end (`RequestFairness`), and that
  what is fair to each handler is so at every time (`FairToHandlers`).

None of them says anything of the conclusion, and each was seen to hold with TLC
on the instances of the runs, `FairToHandlers` excepted, which is `Fairness` once
more. What remains is the argument:

* `StopsAreCarriedOut`, `CleanupsAreCarriedOut`, `StartsAreCarriedOut`: from
  `KeepsSyncing`, where listing does not fail. An order that is wanted for ever is
  in every reply, and a loop that gets through its inbox carries it out unless the
  runtime refuses; what it has achieved no other order, crash or late stage of a
  start undoes. A start that is wanted for ever and never made is skipped from
  some reply on, because both containers are there: a crash or a failure has been
  recorded by then (`ExistingExplained`), and as nothing but a start or an order
  that is not given touches them, they stay (`LyingIdle`, `StepIdle`).
* `SyncsRecur` is `KeepsSyncing` itself: while orders are carried out the inbox
  only shrinks and every step takes the order at hand from one stage to a later
  one, whichever call fails (`SyncingStep`); between replies a poll comes after
  every wait, and not every poll times out (`PollingStep`).
* `ReadyAreHandedOver`: `Place` numbers the places of FileMD's loop. Without faults
  and failing uploads none of its steps leads back, wherever it began.
* `SilentAreDropped`: a daemon that is silent for longer than an interval stays so
  until it is heard, so the next tick finds it, and the tick after that cannot
  begin before it is dropped (`OverdueIsFound`).
* `SignalledEnds`, `FailureEndsServer` (which starts from a failed sender or a
  failed HTTP server): as long as the ZMQ server's context is not
  cancelled, none of its goroutines has returned (`EndedInv`); once it is, the
  receiver, the handlers and the sender each have one way out, except for a
  handler that is `Caught`. `ClientsAreAnswered`: the sender waits for
  a handler only, a handler for the sender or the health worker, which is there as
  long as nothing ends, and the receiver for a handler that is free again
  after its `Put` (`HandlerComesBack`, `ReceiverComesBack`): there is no circle.
* `StoppedIsFinished`, `PendingIsStarted`, with the simulator, in
  `BedrockLiveProofs`: from `KeepsAnswering`, which the properties have
  themselves. A reply that the daemon waits for is the one to its last report, and
  is asked for in one place (`AwaitedInv`); orders follow from the status
  (`OrdersFollowStatus`). So a stopped session has its containers stopped by the
  first reply and reported in the next packet, a pending one is started, unless
  its own start fails, and then reported, and a report that is answered has been
  saved before its reply (`Reporting`), which changes the status. A target that
  does not run (`Quiet`) stays so, over crashes too; one that runs is lost in a
  crash, which is why `PendingIsStarted` has `CrashesEnd`.
* `ExpiredIsStopped`, `TerminalIsMarked`, for either runtime: a tick that finds the
  session has it in its list, and the save follows whatever overwrites the
  record before.

No property that a run checks is without a theorem. Only checked are the premises
above, and that the runs that show a disagreement do. No module uses recursive
operators.

## Bounds

| Bound | Where | Why it is enough |
| --- | --- | --- |
| `MaxEvents` | reports in a packet | see `api_races`; in `Bedrock` a packet has at most as many as there are sessions |
| `SeenOnceMore` | `seen` stops at 2 | the code compares with 2 |
| `MaxAge` | ages stop at 2 intervals + 1 | the code compares with one interval, the property with two |
| `PickBound` | picks stop when somebody has been passed over too often | never reached, see Proofs |
| `MaxCrashes` | crashes of the daemon | two reach a crash within the recovery from a crash |
| `MaxRestarts` | restarts of the API | its store is empty after each; two crashes of either kind meet in `bedrock` with one each |
| `MaxFaults` | crashes and file errors in `VolumeHandoff` | see `handoff` |
| `runs` up to 2 | history | the property is already violated then |
| `Requests` of `Bedrock` | the statuses users ask for | without *finished*: a user who says so of a session that runs makes it untrue until the cleanup is carried out; *failed* and *running* in `api_races`, *failed* also in `bedrock_live` |
| `wire` | one packet under way | the daemon sends a poll only after it has given up on the one before; a handler may still hold that one, or it is lost |

## Not modelled

* `DeleteSession`, `DeleteLogs` and the scheduler's `Exists` are called by no
  program, glob patterns of the key-value backend neither.
* Reads over HTTP change nothing. Formats, logging, configuration and flags
  are left out; encoding cannot fail for the values that occur.
* Errors of the in-memory store: its only one is not-found, which `Found` has.
* A call to start a container that fails although the container runs; image
  pulls are part of creating a container and of its failure.
* The tracer image, its scripts and what the tracer writes while the target
  runs. Its report is written in one step.
* What becomes of a directory whose deletion failed when it has no file left: it
  stays and no scan finds it.
* One CZMQ socket used by two goroutines (`zmq.go:58`): `Bedrock` lets any packet
  and any reply be lost; corruption in the library is not modelled.
* Two daemons of one name (`cmd/dockerd.go:49`): `OneDockerd` excludes them.

## What is left

* `VolumeHandoff` as an implementation of the collection and handover of `Dockerd`.
  It needs both over the same session, that is `VolumeHandoff` from before the
  target has exited.
