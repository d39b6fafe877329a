# Verification of cns_server

TLA+ models of `cns_server`, the configurations that model-check them with TLC
and proofs checked by TLAPS. `PROJECT.json` holds the exact map from
definitions to source lines, the lists of runs, mutants, hazards and theorems.

## 1. The system

`cns_server` connects devices (drones and ground stations) with command
sources (a Unity client and the web backend) through one MQTT broker.

| Part | State it keeps | Operations | Talks to |
|---|---|---|---|
| `route_service` **CommandService** | `active_commands_`, `operations_`, `publications_`, `recovery_started_`, `early_device_acks_`, `deferred_transitions_`, availability flags, input queues | accept a request, handle a device ack, a publish completion, a database result, retry deferred transitions, scan for timeouts and recovery, load after a restart | PostgresWorker (tasks and results), MqttClient (publications and completions), DeviceService (online reports, cycle hook) |
| **PostgresWorker** | queue of command tasks, merged device writes, provisions, `unavailable_` | submit, run one task, reconnect, flush | PostgresStore, both services |
| **PostgresStore** | tables `commands`, `devices`, sources, migrations | one SQL statement per task | PostgreSQL |
| **MqttClient** | connection, subscriptions, tokens in flight | publish, completion, connect, disconnect, dispatch of inbound messages | libmosquitto, ingress queues |
| **DeviceService**, DeviceRegistry, DirtyState, DeviceIngress | registry of devices, dirty snapshots, batches in flight, pending provisions | telemetry, status, provisioning, expiry, persistence, state events | PostgresWorker, MqttClient, CommandService |
| **ServiceRunner / ServiceEnvironment** | threads, stop flag, last seen availability | ordered start, 100 ms poll, shutdown and drain | all of the above |
| **backend_service** | WebSocket clients, telemetry interest, MQTT subscription set, pending commands | hub, gateway, command tracker, REST routes | broker, browser |
| **frontend** | WebSocket, device view, pending command | reconnect, subscribe, send commands, render | backend |

Four threads of `route_service` touch command state: the *business thread*
(`DeviceService::Run`, whose cycle hook is `CommandService::ProcessReady`), the
*database thread* (`PostgresWorker::Run`), the *mosquitto thread* (callbacks)
and the *main thread* (`WaitForNextCheck` every 100 ms).

What is hard here: every status change of a command is an asynchronous
conditional `UPDATE`; device acks, publish completions, timeouts and restarts
race for it; the database connection may break after a commit; the broker
connection may break after a delivery; the main thread changes flags and a
container of the business thread at any moment; queues are bounded.

What must hold of each part:

* commands: a source hears only what is stored, one result per command, a
  result never changes, control commands are sent at most once, requests with
  one key make one command, no unfinished command is lost, due commands end;
* device persistence: the newest state of a device is under way until it is
  stored, an older one never overwrites a newer one, a device whose state was
  lost is reported as degraded, a candidate is answered, the counter of
  outstanding work is exact, a clean drain has stored the devices it knew;
* sessions with the broker: a connection counts as subscribed only if it has
  all filters, whichever thread subscribed; after its snapshot the retained
  topics are current; a connection that lasts gets both;
* start and stop: concurrent migrations leave a prefix of the schema; a failed
  start or a stop ends the process from any step, past mutexes and joins, and
  nothing uses the MQTT client once it is stopped;
* backend: the counts of interest are exact; the applied subscriptions are those
  the broker has and converge to the interest of the open sessions; the mapping
  of a command is in place until its outcome has been sent.

## 2. Modules

| Module | Models |
|---|---|
| `CommandState` | statuses, terminal statuses, `CanTransition` of `command_state.cpp`; `Later`, the order they induce |
| `CommandDatabase` | table `commands` and the command branch of the database thread |
| `MqttPublications` | tokens and completions of command publications |
| `CommandService` | the service, the device service's loop as far as commands see it, the main thread's poll, crashes |
| `CommandLifecycle` | abstract specification: what sources may hear of a command |
| `MCCommandService` | request payloads of the TLC instances |
| `CommandServiceTypes` | proof of the type invariant |
| `CommandServiceProofs` | proofs of durability, refinement and finality |
| `CommandOnceProofs` | proofs of what is sent, told and stored once, of supervision, of the limit of unfinished rows and of early acks |
| `DeviceRegistry` | records in memory and what registration, telemetry, expiry and insertion make of them |
| `DirtyState` | the dirty entry of a device: mark, take, complete, restore |
| `DeviceDatabase` | device tables and the device branch of the database thread |
| `DeviceService` | the service's rounds and loop, the main thread's drain; composes the three above |
| `DeviceStorage` | abstract specification: what the tables may hold of a device |
| `DeviceServiceTypes` | proof of the types of devices, tasks and results |
| `DeviceStorageProofs` | proofs of the refinement of `DeviceStorage` and of unique labels |
| `DeviceAnswerProofs` | proofs about the counter, answers, changes under way and the drain |
| `MCDeviceService` | model values and symmetry of the TLC instances |
| `Migrations` | table `schema_migrations`, plans, processes that migrate |
| `MqttSession` | `MqttClient`: connection, subscriptions and their generations, replay, retry thread, stop |
| `StateEvents` | registry revisions, device directory, retained topics, `RuntimeExternalBridge` |
| `RouteRuntime` | inbound messages, the bounded queue, `DeviceService::Run` and the database thread as far as they use the client |
| `RouteService` | the process: `RunService` and `ServiceEnvironment` on the main thread, composed with the four above |
| `MCRouteService` | model values of the TLC instances |
| `RouteServiceProofs` | proofs about migrations, stop, subscriptions and retained topics |
| `TopicSubscriptions` | `RealtimeTopicSubscriptions` and the gateway's connection callbacks |
| `TelemetryInterest` | WebSocket sessions and `TelemetryInterestRegistry` |
| `CommandTracker` | `CommandTracker` and the command route |
| `BackendService` | the backend: composes the three above |
| `MCBackendService` | model values of the TLC instances |
| `BackendProofs` | proofs about the backend |

`CommandService` EXTENDS `MqttPublications` EXTENDS `CommandDatabase` EXTENDS
`CommandState`; the lower modules define the steps of their thread, and
`CommandService` composes them (`BusinessThread`, `DatabaseThread`,
`MqttThread`, `WaitForNextCheck`, `DeadlinePasses`, `CrashAndRestart`).
`DeviceService` EXTENDS `DeviceDatabase` EXTENDS `DirtyState` EXTENDS
`DeviceRegistry` and composes `BusinessThread`, `DatabaseThread` and
`MainThread`. `RouteService` EXTENDS `Migrations` and `RouteRuntime` EXTENDS
`StateEvents` EXTENDS `MqttSession`; its `Next` has one disjunct per thread, the
network and the migrating processes. `BackendService` EXTENDS `TelemetryInterest`
EXTENDS `TopicSubscriptions`, and `CommandTracker`.

### Correspondence of the state: commands

| Variable | Code |
|---|---|
| `row` | rows of `commands`; `absent` before the insert, `gone` after the clean-up |
| `info` | immutable part of a generated record: key (source_id, request_id), type, target, contents |
| `dbq`, `dbr` | the worker's queue (its head may be executing) and `database_results_`; together they are `operations_` until the worker gives up, each task carries its context |
| `dbUp`, `accepting` | `~unavailable_`, `accepting_` of the worker; both make `IsDatabaseAvailable` |
| `mqttUp` | `IsConnected` |
| `dbAvail`, `mqttAvail` | `database_available_`, `mqtt_available_` of the service, as last polled |
| `pubs` | tokens: in flight, or completed and waiting in `publish_completions_`; with the context kept in `publications_` |
| `active` | `active_commands_`: status and deadline of the record in memory |
| `recovery`, `early`, `deferred` | `recovery_started_`, `early_device_acks_`, `deferred_transitions_` |
| `pc`, `scan` | position of the business thread; commands a scan still has to visit |
| `passed` | number of deadlines of a command that the clock has passed |
| `online` | devices whose registry status is online |
| `sent`, `told`, `verdicts` | history: hand-overs to libmosquitto, last status told to the source, results told |
| `dropped` | history: commands whose insertion was still queued when the worker gave up; empty again after a restart |

Each handler is one action, including every submission and publication it
makes. Handlers of the business thread respect the order of `ProcessReady`
(results, completions, messages, one deferred transition, scan). The scan is
split per command because the main thread clears `recovery_started_` without a
lock; this covers the orders of the individual accesses. That the accesses
race at all is undefined behaviour in C++; the model takes every single access
as atomic.

### Correspondence of the state: devices

| Variable | Code |
|---|---|
| `known`, `rec` | `records_` of the registry; `roles_` is derived from the labels |
| `row` | rows of `devices` and `device_latest_states` |
| `ent` | `entries_` of `dirty_`: record, dirty and in-flight revision of each column group, urgency |
| `writes`, `provisions` | `writes_` (merged per device) and `provisions_` of the worker |
| `exec`, `emit` | task taken and being executed (a device in `provisioning_` is the one executed); result about to be handed over |
| `unavailable`, `accepting`, `draining`, `stopped` | flags of the worker |
| `pend`, `submitted`, `degraded`, `dbUnavailable`, `outstanding`, `results` | `pending_`, `submitted_`, `degraded_`, `database_unavailable_`, `outstanding_database_work_`, `results_` |
| `closed`, `inputDrained`, `drainPending`, `blocked`, `cancel` | the flags of the drain |
| `pc`, `round`, `todo`, `noResults` | position of the business thread in `ProcessReady` and in `Run`; devices a loop still has to visit |
| `main`, `stopRequested` | position of the main thread in `DrainDeviceRuntime`; the stop tokens |

The worker takes a task under its lock, executes it without the lock, changes
its flags and hands the result over: one step each, so that submissions of the
business thread fall in between. The business thread is split where another
thread can interfere: after every result, message, submission and dispatched
write, and between the reads of `Run`.

### Correspondence of the state: the process

| Variable | Code |
|---|---|
| `applied`, `plan`, `step` | `schema_migrations`; the pending migrations and the progress of a process with `--migrate-only` |
| `link`, `subs` | the TCP connection (a broken one may not be noticed yet) and the filters the broker has for it |
| `connected`, `generation`, `marked`, `subLock` | `connected`, `connection_generation`, the four `..._generation` fields and `subscription_mutex` of `CallbackState` |
| `work`, `loop` | the locals of `SubscribeConfigured`; the callback the network loop is in |
| `loopStarted`, `retry`, `retryThread`, `retryStop` | `loop_started_`, `retry_state_`, the position in `RetryConnection`, `retry_stop_requested_` |
| `record`, `directory`, `retained` | revisions of the registry's records, `device_directory`, what the broker retains |
| `snapshotRequested`, `bridgeEnabled`, `bridgeClient`, `bridgeLock` | `external_snapshot_requested_` and `RuntimeExternalBridge` with its mutex |
| `handler`, `ingress`, `inbound`, `queue`, `queueClosed` | the message handler, `DeviceIngress` with the message being handled, `mqtt_queue_` |
| `closed`, `inputDrained`, `draining`, `stopRequested` | the flags of the drain and the stop tokens |
| `business`, `round`, `database`, `main` | positions of the three threads |
| `seen`, `lastSnapshot`, `exitCode` | the generation read by `WaitForNextCheck`, `last_external_snapshot_generation`, the status |

### Correspondence of the state: the backend

| Variable | Code |
|---|---|
| `desired`, `applied`, `connected`, `generation`, `rerun` | the fields of `RealtimeTopicSubscriptions` |
| `loop`, `operation` | where `reconcileLoop` is with its snapshot; the broker operation it awaits |
| `link`, `broker`, `late` | the MQTT connection, its subscriptions at the broker, operations given up by `withTimeout` that may still take effect |
| `failed`, `doubtful` | history: the last loop ended with an error; devices with an operation in `late` on this connection |
| `sessions`, `devicesBySession`, `sessionCountsByDevice` | `sessions` of the hub and the two maps of `TelemetryInterestRegistry` |
| `commands`, `cleanupTimers`, `publishing` | the maps of `CommandTracker`; POST handlers that await the publication |
| `owed` | history: the session that waits for the outcome of a request |

### Abstractions: the process

* What a message means for a device is the matter of `DeviceService`; here it is
  a new revision that is published. Work of the database only appears as
  something that may keep the business thread in its loop while the database
  thread runs. `CommandService` runs on the same thread and is left out.
* The four filters of the commands are sent and marked together and are one.
* libmosquitto accepts a publication into a connection that is already dead; it
  is delivered after the reconnection or lost, in any combination. What is
  delivered late comes before the snapshot of that connection, so it is taken
  as delivered at once.
* The request for a snapshot is consumed and published in one step.
* A service starts when the schema is complete and no migrator is at work any
  more: one that is still running can change nothing then.
* A timed wait may end at any moment; signals, failing operations and the name
  service are choices.

### Abstractions: the backend

* One JavaScript thread: a callback and the promise reactions it triggers run
  to the next await of a broker operation before anything else happens
  (`Uninterrupted`). The reconciliation goes through its snapshot in any order.
* The broker's effect and the client's callback are one step, unless the
  operation timed out. The loss of a connection is the client's `close` event.
* `removeSession` changes the interest in several devices in one step.
* Non-terminal acks change nothing and are not actions. Delivery to sockets,
  the shutdown of the server and the failure of the first connection, which
  ends the process, are not modelled.

### Abstractions: devices

* The contents of a record are the revision that last set them, per column
  group (metadata, status, telemetry) and for `last_seen_at`. Labels and the
  online flag are kept, because the registry and the tables compare them.
  Revision 0 is what the tables held at the start, or what a provision inserts.
* All devices are of one school and keep their `device_type`; a message that
  contradicts it is rejected without a change.
* Retained registrations are replayed by the broker after a recovery; since any
  message may arrive at any time, the replay is not a step of its own.
* A message arrives when it is handled; the queue of a closed service may be
  empty at any later check. The telemetry interval, the activity timeout and
  the drain timeout are choices.
* The writes of the start-up scan are in the worker's queue initially: no
  message can arrive before, and the business thread cannot touch the devices
  they are about.
* After a recovery the writes of all degraded devices are submitted in one
  step; they are of different devices, and the worker merges per device.
* A negative `outstanding` stands for the wrapped unsigned counter.
* A provision without school fails permanently: the choice is left open for
  offline registrations, whose parser does not demand a school.
* Commands appear as an outage met by one of their tasks. That command tasks
  precede device tasks in the worker restricts no device step.

### Abstractions: commands

* Contents of messages are payload values; a request that is rejected before
  it is looked up changes no state and is not an action. `completed_commands_`
  only serves log messages and is left out, as are all diagnostics.
* Deadlines of one command are created in increasing order, so only their
  order is kept. The clock moves when the business thread is between phases.
* `messages_` is merged with the arrival of a message: a message arrives when
  it is handled. A device acks only a command that was handed to MQTT for it.
* A publication refused synchronously is taken not to reach the device.
* The clean-up takes any set of terminal rows without an operation under way
  (the retention is days).
* `kUnavailable` never reaches the service for command tasks: the worker puts
  the task back to the front. The branch `command_service.cpp:532-551` cannot
  be reached with `PostgresStore`, whose transition returns the desired status.
* Device status is persisted, so `online` survives a restart.
* A worker that finds a foreign schema when it reconnects gives up
  (`WorkerGivesUp`, `postgres_worker.cpp:122-132`, enabled by the fault `migration`): it
  accepts nothing more, clears its queues and answers none of the tasks. Their
  entries stay in `operations_`; since a database that is not available refuses
  every later request and task, they play no role and the model drops them.
  A crash and restart brings a new worker.

## 3. Runs

| Run | Instance | Checks |
|---|---|---|
| `ControlFaults` | one control command, one extension, database, MQTT and crash faults, the worker gives up | `ToldIsDurable`, `ControlAtMostOnce`, `OneVerdict`, `SettledIsTold` |
| `Restart` | one command of either type, two publications, MQTT faults, refused publications, offline devices, a crash | `TypeOK`, `OneVerdict`, `UnfinishedIsSupervised`, `EarlyAckIsApplied`, `ImplementsLifecycle` |
| `DuplicateRequests` | two requests with one key, clean-up | `OnePublishPerKey`, `ResultHeardIsFinal` |
| `Capacity` | two keys, capacity one, failing statements | `RestartNeverRefused` |
| `Timeouts` | either type, MQTT faults, devices keep reporting | `DueCommandsTimeOut` |
| `NewDevices` | a registered and a new device, an outage, the worker gives up, shutdown at any moment | `DeviceTypeOK`, `CandidateIsAnswered`, `OutstandingIsExact`, `DegradedUntilSaved`, `DrainedIsStored` |
| `Persistence` | a new device, three revisions, an outage, shutdown at any moment | `ChangeIsUnderWay`, `WriteIsAnswered`, `ImplementsStorage` |
| `Labels` | a registered and a new device, two labels | `LabelHasOneOwner`, `WriteIsAnswered` |
| `DeviceProgress` | fair, an outage, the worker gives up, shutdown | `ChangeIsStored`, `JoinReturns` |
| `Sessions` | the whole process: two migrators, two connections, a message, an expiry, a replay, a failure or a stop at any step | `SchemaIsPrefix`, `ReportedIsSubscribed`, `RetainedIsCurrent`, `StoppedClientIsLeftAlone` |
| `SessionProgress` | fair, two connections, a replay, the retry thread, a stop | `ShutdownEnds`, `SessionSettles` |
| `Backend` | two browsers, two devices, three changes of the connection, a failed operation, a request posted again and again | `InterestIsCounted`, `AppliedIsSubscribed`, `IdleIsSettled`, `OwedIsTracked`, `InterestIsServed` |

Seven further configurations (`SilentTarget`, `EarlyAck`, `CommandOutage`,
`DrainOutage`, `RefusedLabel`, `StaleMemory`, `OverlappingPosts`) reproduce
counterexamples and are not runs; see section 4.

The deadlock check is off only in `Backend`, where the sessions and connections
of the instance run out. The router and the devices run for ever or stutter
explicitly once their threads and the drain have ended; the process stutters
when it has exited.

**Bounds.** `MaxRequests`, `MaxPublications` (publications of one command
outstanding), `MaxExtensions` (deadlines of one command), `MaxCrashes`; one
online report per device phase; `sent` and `verdicts` count to two, which is
enough for "at most once". One command suffices for races of the events of a
command, because handlers of different commands share only queue capacity and
the key; two requests are used where they interact (`DuplicateRequests`,
`Capacity`). `MaxInflight` is 1 or 2 so that queues and capacity are at their
limit in most states. The steps that would exceed `MaxPublications` are
disabled (an online report waits for a free token).

For devices, `MaxRevision` bounds the changes of one device and `MaxOutages`
the lost connections. A write, the one executed and the one merged behind it
are three generations, so three revisions show every order in which they meet
(`Persistence`); one outage suffices for a task to be put back. Handlers of
different devices share the labels, the counter and the outage: two devices
are used where these matter (`NewDevices`, `Labels`). In `NewDevices` the constraint
`WithinDrain` cuts behaviours off where the drain runs into its timeout; `Persistence`
and `DeviceProgress` go on from there. `Labels` may permute the
two labels, which nothing tells apart.

For the process, `MaxSessions`, `MaxMessages`, `MaxExpiries` and `MaxReplays`
bound what comes from outside; `QueueCapacity` is a parameter of the code. Two
connections suffice for a step of the first to fall into the second; a replay
and a change of a device then meet either of them. Two processes that migrate
two versions meet at every step of each other. `Sessions` has one device, whose
state and directory entry are published separately; `SessionProgress` needs no
device. For the backend, `MaxGenerations` bounds the calls of `setConnected`
(up, down, up: an operation of the first connection may end on the second),
`MaxFailures` the operations refused or given up, `MaxPublishing` the POSTs of a
request under way at a time: one in `Backend`, two in `OverlappingPosts`. Two
sessions share a device, and two devices make
the order of operations matter.

**Fairness.** `Fairness` asks that the business loop goes on and reaches each
of its steps, that the main thread polls, that the worker executes and
reconnects, that the broker completes and reconnects, and that clocks advance.
Each corresponds to a loop without exit condition in the code or to a retry
that is not limited: the worker reconnects as long as PostgreSQL is unavailable.
An outage can also end with a worker that gives up; that end is a fault of its
own, which the fair runs of commands do not have. Strong fairness is used for steps the loop leaves and comes back
to. `ReportingSpec` adds an assumption on the environment: devices keep
reporting. It is what separates `Timeouts` from `SilentTarget`.

For devices, `Fairness` asks that the loops of the three threads go on (they
wake at least every 100 ms), that the telemetry interval passes
(`DispatchWrite`), that the worker executes with the connection up and
reconnects again and again, and that a closed queue is found empty. Nothing is
assumed of messages, expiry or the shutdown request.

For the process, `FairSpec` asks that the main, business and retry threads go on
and, strongly, that a thread which waits for a mutex gets it (`DatabaseStep`,
`LoopStep`), that the 5 s between two subscription checks pass
(`EnsureSubscriptions`), and that `mosquitto_loop_stop` finds the loop outside a
callback (`StopMqtt`: after `mosquitto_disconnect` the loop does not reconnect).
Nothing is assumed of the network, the name service, the broker, the database
or signals. For the backend, `Fairness` asks that promise reactions run and that
every await of a broker operation ends, which `withTimeout` guarantees; where the
bound on failures forbids another timeout, the broker answers.

## 4. Findings

Some properties hold only under a restriction that the runs above state. The
counterexamples without the restriction are kept as configurations:

1. **A published command does not time out while its target is silent**
   (`tlc -config SilentTarget.cfg MCCommandService` violates
   `DueCommandsTimeOut`). Publication puts the command into `recovery_started_`
   (`command_service.cpp:629`), and the scan acts on a passed deadline only if it
   can insert it there (`:798`). With a stable broker connection and a device
   that reports nothing the command keeps its slot of `max_inflight_commands`.
   The specification of milestone three says "`timeout`：从 `created_at` 起默认 15
   秒仍无可接受终态 ACK" (`2026-07-20-里程碑三固定来源与配置命令设计.md:335`), that of
   milestone four "已派发命令不因设备随后离线立即失败，仍等待 ACK 或超时"
   (`2026-07-21-里程碑四飞控命令路由设计.md:409`). `Timeouts` checks the property
   while devices keep reporting.
2. **An early ack is stranded after an in-doubt commit**
   (`tlc -config EarlyAck.cfg MCCommandService` violates `EarlyAckIsApplied`).
   When `pending -> dispatched` was committed but the answer was lost,
   `ConvergeAfterConflict` (`command_service.cpp:974`) installs the record without
   applying the ack that the normal path (`:593-607`) applies. The document says
   "设备 ACK 早于发布完成时，仍能在 `dispatched` 后推进到终态"
   (`2026-07-22-收尾里程碑展示链路固化设计.md:197`). `Restart` checks the property
   without in-doubt commits.
3. **An outage met by a command strands new devices**
   (`tlc -config CommandOutage.cfg MCDeviceService` violates
   `CandidateIsAnswered`). The worker clears their provisions
   (`postgres_worker.cpp:200`), and only a device task would report the outage to
   the device service: the candidate stays submitted. The document says
   "若失败表明 PostgreSQL 已不可用，本次新设备候选被移除"
   (`2026-07-20-里程碑二设备注册与最新状态设计.md:224`). `NewDevices` checks the
   property for outages met by device tasks.
4. **A new device is lost by an outage during the drain**
   (`tlc -config DrainOutage.cfg MCDeviceService` violates
   `NewDevicesAreStored`). With
   two candidates under way the dispatch of the drain is done. The first is
   provisioned and marked dirty, the provision of the second meets an outage:
   the candidates are dropped and `outstanding` is zero, while `DispatchWrites`
   returns because of `database_unavailable_`. The drain ends as a clean one
   with the first device's registration unsaved. The document says
   "新设备建档完成后仍须处理等待中的最新 registration 并完成由此派生的 metadata/status
   写入" (`2026-07-20-里程碑二设备注册与最新状态设计.md:115`). `NewDevices`
   checks the devices registered at the start (`DrainedIsStored`), for which it is
   also proved, with outages met by command tasks too (`RegisteredAreDrained`).
   It exempts a database thread that gave up: the drain then ends as a clean one
   although the queue was dropped; how such a loss is reported is the matter of
   `DegradedUntilSaved`.
5. **A refused label makes the counter of outstanding work pass zero**
   (`tlc -config RefusedLabel.cfg MCDeviceService` violates `DeviceTypeOK`, and
   would violate `OutstandingIsExact`). A provisioned device whose label the
   registry refuses is counted down (`device_service.cpp:371`) and keeps its
   submitted candidate (`:370`; D:224 below). An outage or a worker that gives
   up counts it down again (`:316`, `:336`); the unsigned counter (`:212`) wraps
   and the drain runs into its timeout. Until then `CandidateIsAnswered` does
   not hold of it either. `NewDevices` checks devices without labels.
6. **A refused second look leaves memory behind the table**
   (`tlc -config StaleMemory.cfg MCCommandService` violates `DueCommandsTimeOut`). A
   transition that was committed in doubt is executed again and conflicts; the
   row is re-read once, and if the worker's queue is full at that moment the read
   is refused (`command_service.cpp:948`). Memory keeps the old status, and every
   later transition of the command conflicts and may be refused its read in the
   same way, because the scan has already submitted the next one: if outages keep
   making it do so at that moment, the command never ends. `SettledIsTold`
   exempts commands that are active in memory and does not see this. `Timeouts`
   checks the property without in-doubt commits.
7. **The mapping of a command is lost when POSTs of one request overlap**
   (`tlc -config OverlappingPosts.cfg MCBackendService` violates `OwedIsTracked`).
   The handler whose publication fails removes the mapping of the
   `client_request_id` (`deviceRoutes.ts:129-130`), also when another POST of the
   same id has registered it anew and awaits its own publication; the outcome of
   that one is then sent to nobody. `Backend` checks one POST of a request at a
   time.

A worker that gives up for good (`postgres_worker.cpp:122-132`) answers none of the
commands in its queue. If the insertion of one of them had been committed in
doubt, its row is supervised by nobody and, if it was inserted as `failed`, its
result is told to nobody, until the next start. `UnfinishedIsSupervised` and
`SettledIsTold` exempt exactly these commands (`dropped`), and `ControlFaults` has
the fault.

A further condition has no configuration: with in-doubt commits *and* permanently
failing statements, an insert that was committed and whose second execution
fails permanently is only logged (`command_service.cpp:394-401`). The row is then
supervised by nobody until the next start, and `UnfinishedIsSupervised` and
`SettledIsTold` fail; such rows also escape the count of the admission check, and
`RestartNeverRefused` fails.
The runs use at most one of the two faults, the theorems say `NoLostInsert`.

Behaviours of the models that differ from the design document of devices
(`2026-07-20-里程碑二设备注册与最新状态设计.md`, below D) or of commands and that
no run is dedicated to:

* A write that the unique label constraint refuses is not retried, and the next
  telemetry clears the degraded flag (`device_service.cpp:402`; D:321):
  `DegradedUntilSaved` fails with two registered devices, two labels and two
  revisions.
* A label completed by telemetry is not written (`device_service.cpp:28`;
  D:301), and telemetry of a device that stays online does not write
  `last_seen_at` (`postgres_store.cpp:559`; D:305).
* A registration that is replayed after a reconnection is dropped if it is
  handled before the recovery result (`device_service.cpp:418`; D:321).
* The round after the loop of `Run` may submit a write and leave it outstanding
  (`device_service.cpp:97`; D:115); a main thread that still waits for an idle
  database then waits until its timeout.

Read in the code and not reproduced by a configuration:

* Results that arrive after `CommandService::Close` are dropped
  (`command_service.cpp:182-185`), but the counter of outstanding operations is
  decremented only when a result is handled (`:393`): with an operation in flight
  at that moment `WaitForDatabaseIdle` (`:281-288`) runs into the limit of 5 s.
  Section 15 of the specification of milestone three describes a drain.
* `UNIQUE (school_id, dcdw_label)` does not bind devices without a school: two of
  them may be stored with one label, and `DeviceRegistry::Load`
  (`device_registry.cpp:65-70`) refuses the next start.
* A snapshot during an outage publishes all devices as degraded; the recovery
  republishes only those in `degraded_` (`device_service.cpp:353-364`, `532-541`).
* `DeviceService::Close` sets `closed_` before it closes the queue: a message that
  `DeviceIngress` has accepted may be pushed after the business thread has seen
  an empty queue, and is handled only by the round after the loop or not at all.
* `CancelOutstandingWork` clears containers of the business thread from the main
  thread without a lock.
* An error ends the backend's `reconcileLoop` even if another pass was asked for
  (`realtimeTopicSubscriptions.ts:94-100`, `114-120`): the next change of interest
  or connection starts it again. An unsubscribe that takes effect after its
  timeout leaves a device applied without a subscription until the next
  connection, a subscribe the other way round; the comment in line 15 promises
  the exact set. `AppliedIsSubscribed` exempts these devices (`doubtful`).
* If the base topics are refused, the backend stays unavailable until the next
  connection (`routeServiceGateway.ts:209-216`). A mapping whose terminal ack never
  arrives is never removed (`commandTracker.ts:23-28`).

## 5. Proofs

The theorems hold for every value of the constants: any number of requests,
devices, sessions, connections, extensions, migrations, outages and crashes and,
where the statement has no hypothesis, every subset of faults. The only
assumptions are the `ASSUME`s on the constants (sets of payloads are typed,
limits are naturals, `NoDevice` and `NoRequest` are not devices or requests, the
devices of the device service and the backend and the backend's sessions are
finitely many).

| Theorem | Statement |
|---|---|
| `TypeCorrect` | `Spec => []TypeOK` |
| `ToldIsAlwaysDurable` | `Spec => []ToldIsDurable` |
| `RouterImplementsLifecycle` | `Spec => ImplementsLifecycle` |
| `HeardResultIsFinal` | `Spec => ResultHeardIsFinal` |
| `ControlIsSentAtMostOnce` | `Spec => []ControlAtMostOnce` |
| `OneCommandPerKey` | `Spec => []OnePublishPerKey` |
| `OneVerdictPerCommand` | `Spec => []OneVerdict` |
| `UnfinishedStaysSupervised` | `NoLostInsert => (Spec => []UnfinishedIsSupervised)` |
| `SettledWasTold` | `NoLostInsert => (Spec => []SettledIsTold)` |
| `RestartIsNeverRefused` | `NoLostInsert => (Spec => []RestartNeverRefused)` |
| `EarlyAcksAreApplied` | `NoDoubtfulCommit => (Spec => []EarlyAckIsApplied)` |
| `StorageImplemented` | `Spec => ImplementsStorage` (DeviceService, as all below to `RegisteredAreDrained`) |
| `LabelsAreUnique` | `Spec => []LabelHasOneOwner` |
| `CounterIsExact`, `DeviceTypeCorrect` | `NoLabels => (Spec => []OutstandingIsExact)`, `... []DeviceTypeOK` |
| `SubmittedWritesAreAnswered` | `NoMigration \/ NoCommandOutage => (Spec => []WriteIsAnswered)` |
| `ChangesAreUnderWay` | `NoLabels /\ NoMigration => (Spec => []ChangeIsUnderWay)` |
| `HealthyIsStored` | `NoLabels /\ (NoMigration \/ NoCommandOutage) => (Spec => []DegradedUntilSaved)` |
| `CandidatesAreAnswered` | `NoLabels /\ NoCommandOutage => (Spec => []CandidateIsAnswered)` |
| `RegisteredAreDrained` | `NoLabels /\ NoMigration => (Spec => []DrainedIsStored)` |
| `SchemaStaysPrefix` | `Spec => []SchemaIsPrefix` (RouteService) |
| `StoppedClientStaysAlone` | `Spec => []StoppedClientIsLeftAlone` (RouteService) |
| `ReportedStaysSubscribed` | `Spec => []ReportedIsSubscribed` (RouteService) |
| `RetainedStaysCurrent` | `Spec => []RetainedIsCurrent` (RouteService) |
| `InterestStaysCounted` | `Spec => []InterestIsCounted` (BackendService) |
| `AppliedStaysSubscribed` | `Spec => []AppliedIsSubscribed` (BackendService) |
| `IdleStaysSettled` | `Spec => []IdleIsSettled` (BackendService) |
| `OwedStaysTracked` | `NoOverlap => (Spec => []OwedIsTracked)` (BackendService) |

Every hypothesis excludes a behaviour for which TLC finds a counterexample:

* `NoLostInsert` (statements do not fail permanently, or commits are never in
  doubt): the end of the list of findings.
* `NoDoubtfulCommit` (the connection does not break after a commit): finding 2.
* `NoLabels` (devices report no labels): finding 5 and the refused writes after it.
* `NoMigration` (device theorems: no worker finds a foreign schema): such a worker gives up and
  drops its queue, and with it changes that nobody writes any more.
* `NoCommandOutage` (outages are met by device tasks): finding 3. For writes and
  for the degraded flag it is needed only together with a worker that gives
  up: between its report and the clearing of its queue a device service that
  has not heard of the outage submits another write, which is dropped.
* `NoOverlap` (one POST of a request at a time): finding 7.

The theorems about commands hold with and without a worker that gives up.

*Types.* One lemma per action; the lemmas on `Append`, `Head` and `Tail` of
typed sequences come first. That only unfinished statuses are in
`active` needs the restart's filter.

*Durability and refinement.* `ToldIsDurable` is not inductive: a source is told
the status a database result carries, which may be older than the row. The
invariant `OrderInv` adds that each result is a snapshot the row has passed
(`SnapshotIsBetween`: not before what was told, not after the row), that the
results of one command are queued in the order of its life
(`SnapshotsInOrder`), that an id that was not generated has no row
(`FreshIsAbsent`) and that an insert belongs to a generated id
(`InsertHasRequest`). Every step is one of a few kinds (`StepKinds`): it tells
the first result, moves rows forward, or changes neither; each kind preserves
the invariant and is a step of `CommandLifecycle` or a stutter. Finality
follows from the same facts, since nothing is `Later` than a terminal status
but `gone`.

*At most once.* `OnceInv` says that a generated id has at most one insert among
the operations (`InsertsDiffer`), that a control command whose insert is among
them was not sent (`InsertIsUnsent`) and that an id that was not generated has
no operation and was not sent (`FreshIsIdle`). The only publication of a
control command is the one of its insert result, which consumes the insert.

*One command per key.* `KeyInv`: two generated commands with one key are not both
in the table (its unique index), and what was sent is in the table or gone.

*Supervision and results.* A row is inserted before its command is active, and a
command that ends is told in the same step; so `SupervisedInv` adds that an
unfinished row that is not active has its insert queued again, its result
waiting, or was dropped by a worker that gave up; one that still accepts tasks
has dropped nothing (`DroppedInv`), so it drops once. That an insert in the queue finds no row (`InsertIsAhead`) is true
only without in-doubt commits; with them, no statement may fail permanently.

*One verdict.* Three kinds of results could tell a terminal status: that of an
insert, of a transition and of a second look. `UnusedInv` says
that a command with an insert among the operations is otherwise untouched: not
active, not scanned, nothing deferred, no publication and no other operation.
`OwnRow` says that transitions answer with their own row. `VerdictInv` then says
that once a verdict was told, or a waiting result shows a terminal row, no later
result finishes the command: a transition that still arrives finds a terminal
row and conflicts.

*Admission.* `HandleSourceRequest` counts active commands and operations, while rows
appear only later. `AdmitInv`: active commands and the finds and inserts under
way (`Pipeline`) and the insertions that were dropped are together at most
`MaxInflight`: what a worker drops leaves the pipeline in the same step. A command that becomes active
leaves the pipeline in the same step; that no other step makes one active again
needs `BusyInv` (a command that is neither active nor finished has no transition
or second look under way). An injection from the unfinished rows that are not
active into the pipeline and the dropped insertions, which exists by
`SupervisedInv`, gives the bound.

*Early acks.* An ack is kept while its command is pending in memory; only the
result of `pending -> dispatched` applies it, so no other result may move the
command on before. `PendingInv`: the row of a command that is pending in memory
has moved on only if that result waits, ahead of every result that shows the
later row. A command becomes pending by its insertion alone (`ActivePast`: memory
is not ahead of the table; `NotBack`; `BusyInv`), whose row is still as inserted
(`InsertCurrent`) and of which nothing else is under way (`UnusedInv`).

*Storage of devices.* `StorageInv` orders, per device and column group, the row,
the write being executed, the write queued behind it and the record in memory;
a dirty entry holds the record in memory, a write that is queued writes
something, and a device that is not known yet has nothing but its insertion
stored. A step either moves a record forward, hands over the newest record, or
moves a row to the executed write: a step of `DeviceStorage` or a stutter.

*The counter.* `Exact` is the property without its exception; it is inductive with
`CandidatesInv` (a candidate is not known, and the submitting loop visits only
candidates that were not sent). Devices are counted with the library's theorems
on finite sets.

*Answers.* `AnswerInv`: a submitted write is queued or executed with its revision or
a later one, or a result that answers it is in flight. The delicate step is the
worker that gives up: `GiveUpInv` says that between its report and the clearing
of its queue nothing more is submitted, because the device service has the
report before it or knows of the outage (`AvailInv`). `AwaitInv` is the same for
candidates, with `DroppedInv`: a worker without connection has no provisions.

*Changes and the drain.* `ChangeInv`: what is newer in a record than in its row is
dirty, queued or executed, unless the thread gave up or the drain was abandoned.
For the drain, `DispatchInv` says that its dispatch leaves no dirty entry behind
while the database is available and takes writes; `DrainInv` that afterwards the
metadata and telemetry of every registered device are stored or in the hands of
the database thread; `StoppedInv` that this thread ends with an empty queue.

*Migrations.* `MigrationInv`: the table is `1..n`, and the plan of a process at
work is a suffix of the directory that starts at most one version after `n`.
The version it tries next is therefore applied already, and refused by the
primary key, or the one after the last.

*Stop.* `StopInv`: before `StartMqtt` there is neither loop nor retry thread; once
the bridge is disabled no replay can begin, and while one is under way the mutex
of the bridge, which `Disable` needs, is taken.

*Subscriptions.* `ReportedIsSubscribed` is not inductive, because a mark says
nothing by itself about the connection it was made on. `SubscriptionInv` adds
that an announced connection is the one that is up (`ConnectedInv`), that no mark
and no holder of the lock is of a later generation (`GenerationInv`), so that a
new connection starts without marks, and what each mark means (`MarkInv`): the
holder of the lock has sent what it no longer has to do, and a replay, which
marks the registration filter for whatever connection there is at its end, is
caught by the telemetry mark that it never sets.

*Retained topics.* `BridgeInv`: from before the start of the client until the
service closes every publication passes the bridge. `SnapshotInv`: no snapshot
was taken for a later connection, and after one both the broker and the
directory in memory are current, so that publishing only differences suffices.

*Backend.* The counts (`CountInv`: closed sessions have no devices, a device is
desired exactly when its count is not zero) use the library's theorems on the
cardinality of finite sets. `AgreeInv` says that the applied set and the broker
agree outside `doubtful` and that without a connection nothing is applied.
`IdleInv` adds to `IdleIsSettled` that an awaited operation belongs to a running
loop; the end of a pass needs that equal sizes and one inclusion are equality.
`TrackInv` says that a session that is owed an outcome is the mapped one and that
no timer runs for it; at most one POST of a request is under way, so the one
that fails is the one that is owed.

Every invariant and action property that a run checks is also proved, under the
hypotheses above. Model-checked only is liveness under fairness
(`DueCommandsTimeOut`, `ChangeIsStored`, `JoinReturns`, `ShutdownEnds`,
`SessionSettles`, `InterestIsServed`), which is out of the prover's reach.

## 6. Not modelled

The drain of commands (`Close`, `CancelOutstandingWork` of `CommandService`),
sources that disappear from the configuration between two starts, JSON
validation, device messages and topics, logging, configuration, the backend's
REST routes other than the command route, its shutdown, and the frontend, whose
pages are to the backend sessions that come and go at will.
Known consequences that the model shows but no property forbids: a source gets
no answer when a statement fails permanently; a control command whose insert
was delayed by an outage is published whatever its deadline.

## 7. Plan

1. The device theorems for devices with labels, as far as findings 4 and 5 leave
   them true.
2. The drain of commands as part of `RouteService`.
3. The frontend's page as a client of `BackendService`.
