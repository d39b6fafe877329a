----------------------------- MODULE RouteService -----------------------------
(***************************************************************************)
(* The process route_service: the main thread (RunService with the         *)
(* operations of ServiceEnvironment) from the check of the schema to the   *)
(* exit, and the threads it starts: the database and business threads      *)
(* (RouteRuntime), the network loop and the retry thread of the MQTT       *)
(* client (MqttSession).  Processes that migrate the schema may run until  *)
(* the service has found it complete.                                      *)
(***************************************************************************)
EXTENDS RouteRuntime, Migrations

VARIABLES main,          \* position of the main thread
          seen,          \* generation that WaitForNextCheck has read
          lastSnapshot,  \* last_external_snapshot_generation
          exitCode       \* the status of the process

mainVars == <<main, seen, lastSnapshot, exitCode>>
localVars == <<seen, lastSnapshot, exitCode>>
vars == <<migrationVars, sessionVars, eventVars, runtimeVars, mainVars>>

Goto(pc) == main' = pc
Exit(code) == main' = "exited" /\ exitCode' = code

-------------------------------------------------------------------------------
(* RunService up to the main loop.  Any operation may fail; the            *)
(* configuration and the connection are part of the first step.  A         *)
(* migrator that is still at work when the schema is complete changes      *)
(* nothing any more: the model lets it end first.                          *)

MigratorsEnded == \A m \in Migrators : step[m] = "ended"

CheckSchema ==
    /\ main = "check schema"
    /\ \/ CanPlan("check only") /\ MigratorsEnded /\ Goto("load") /\ UNCHANGED exitCode
       \/ Exit(1)
    /\ UNCHANGED <<migrationVars, sessionVars, eventVars, runtimeVars, seen,
                   lastSnapshot>>

(* LoadDeviceSnapshot, LoadCommandState, InstallSignalHandlers *)
LoadState ==
    /\ main = "load"
    /\ \/ Goto("start database") /\ UNCHANGED exitCode
       \/ Exit(1)
    /\ UNCHANGED <<migrationVars, sessionVars, eventVars, runtimeVars, seen,
                   lastSnapshot>>

(* StartDeviceRuntime: a thread that cannot be started rolls back. *)
StartDatabaseThread ==
    /\ main = "start database"
    /\ \/ database' = "idle" /\ Goto("start business") /\ UNCHANGED stopRequested
       \/ stopRequested' = TRUE /\ Goto("roll back") /\ UNCHANGED database
    /\ ingress' = TRUE
    /\ UNCHANGED <<migrationVars, sessionVars, eventVars, handler, inbound, queue,
                   queueClosed, closed, inputDrained, draining, business, round,
                   boundVars, localVars>>

StartBusinessThread ==
    /\ main = "start business"
    /\ \/ business' = "ready" /\ Goto("create client") /\ UNCHANGED stopRequested
       \/ stopRequested' = TRUE /\ Goto("roll back") /\ UNCHANGED business
    /\ UNCHANGED <<migrationVars, sessionVars, eventVars, ingressVars, closed,
                   inputDrained, draining, round, database, boundVars, localVars>>

RollBack ==
    /\ main = "roll back" /\ database \in {"none", "ended"}
    /\ DisableBridge
    /\ Exit(1)
    /\ UNCHANGED <<migrationVars, sessionVars, runtimeVars, seen, lastSnapshot>>

CreateMqtt ==
    /\ main = "create client"
    /\ \/ Goto("attach client") /\ UNCHANGED exitCode
       \/ Goto("disable ingress") /\ exitCode' = 1
    /\ UNCHANGED <<migrationVars, sessionVars, eventVars, runtimeVars, seen,
                   lastSnapshot>>

(* StartMqtt: the bridge and the handler first, then MqttClient::Start *)
AttachMqtt ==
    /\ main = "attach client"
    /\ AttachClient
    /\ handler' = TRUE
    /\ Goto("start client")
    /\ UNCHANGED <<migrationVars, sessionVars, ingress, inbound, queue, queueClosed,
                   drainVars, threadVars, boundVars, localVars>>

StartMqtt ==
    /\ main = "start client"
    /\ \/ (StartLoop \/ StartRetrying) /\ Goto("check") /\ UNCHANGED exitCode
       \/ UNCHANGED sessionVars /\ Goto("disable ingress") /\ exitCode' = 1
    /\ UNCHANGED <<migrationVars, eventVars, runtimeVars, seen, lastSnapshot>>

-------------------------------------------------------------------------------
(* The main loop; a signal is the choice to stop. *)

CheckStatus ==
    /\ main = "check"
    /\ \/ retry = "failed" /\ Goto("disable ingress") /\ exitCode' = 1
       \/ retry # "failed" /\ Goto("disable ingress") /\ exitCode' = 0
       \/ retry # "failed" /\ Goto("wait") /\ UNCHANGED exitCode
    /\ UNCHANGED <<migrationVars, sessionVars, eventVars, runtimeVars, seen,
                   lastSnapshot>>

(* WaitForNextCheck: not connected, or subscribed less than 5 s ago *)
NotDue ==
    /\ main = "wait"
    /\ Goto("check")
    /\ UNCHANGED <<migrationVars, sessionVars, eventVars, runtimeVars, localVars>>

EnsureSubscriptions ==
    /\ \/ main = "wait" /\ connected /\ BeginSubscribe("main") /\ Goto("subscribe")
       \/ main = "subscribe" /\ SendSubscribe("main") /\ UNCHANGED main
       \/ main = "subscribe" /\ SubscribeFails("main") /\ Goto("check")
       \/ main = "subscribe" /\ MarkSubscribed("main") /\ Goto("read generation")
    /\ UNCHANGED <<migrationVars, loop, eventVars, runtimeVars, localVars>>

ReadGeneration ==
    /\ main = "read generation"
    /\ seen' = BusinessSubscriptionGeneration
    /\ Goto("snapshot")
    /\ UNCHANGED <<migrationVars, sessionVars, eventVars, runtimeVars, lastSnapshot,
                   exitCode>>

SnapshotOnce == lastSnapshot = 0
NeedsSnapshot == seen # 0 /\ seen # lastSnapshot

RequestExternalSnapshot ==
    /\ main = "snapshot"
    /\ IF NeedsSnapshot
       THEN RequestSnapshot(closed) /\ lastSnapshot' = seen
       ELSE UNCHANGED <<eventVars, lastSnapshot>>
    /\ seen' = 0
    /\ Goto("check")
    /\ UNCHANGED <<migrationVars, sessionVars, runtimeVars, exitCode>>

-------------------------------------------------------------------------------
(* StopAcceptingDeviceMessages *)

DisableIngress ==
    /\ main = "disable ingress"
    /\ ingress' = FALSE
    /\ Goto("clear handler")
    /\ UNCHANGED <<migrationVars, sessionVars, eventVars, handler, inbound, queue,
                   queueClosed, drainVars, threadVars, boundVars, localVars>>

ClearHandler ==
    /\ main = "clear handler"
    /\ handler' = FALSE
    /\ Goto("close")
    /\ UNCHANGED <<migrationVars, sessionVars, eventVars, ingress, inbound, queue,
                   queueClosed, drainVars, threadVars, boundVars, localVars>>

(* DeviceService::Close, in its two steps *)
CloseDevices ==
    /\ main = "close"
    /\ closed' = TRUE
    /\ snapshotRequested' = FALSE
    /\ Goto("close queue")
    /\ UNCHANGED <<migrationVars, sessionVars, record, bridgeVars, directory, retained,
                   ingressVars, inputDrained, draining, stopRequested, threadVars,
                   boundVars, localVars>>

CloseQueue ==
    /\ main = "close queue"
    /\ queueClosed' = TRUE
    /\ Goto("wait input")
    /\ UNCHANGED <<migrationVars, sessionVars, eventVars, handler, ingress, inbound,
                   queue, drainVars, threadVars, boundVars, localVars>>

StopAccepting == DisableIngress \/ ClearHandler \/ CloseDevices \/ CloseQueue

-------------------------------------------------------------------------------
(* DrainDeviceRuntime: every wait may run into the common limit of 5 s. *)

InputIsDrained == inputDrained
DevicesIdle == inputDrained /\ business # "ready"

WaitUntil(from, condition, to) ==
    /\ main = from
    /\ \/ condition /\ Goto(to)
       \/ Goto("abandon")
    /\ UNCHANGED <<migrationVars, sessionVars, eventVars, runtimeVars, localVars>>

(* FlushAndStop *)
FlushDatabase ==
    /\ main = "flush"
    /\ draining' = TRUE
    /\ Goto("wait flush")
    /\ UNCHANGED <<migrationVars, sessionVars, eventVars, ingressVars, closed,
                   inputDrained, stopRequested, threadVars, boundVars, localVars>>

JoinThreads ==
    /\ main = "join" /\ database = "ended" /\ business = "ended"
    /\ Goto("detach client")
    /\ UNCHANGED <<migrationVars, sessionVars, eventVars, runtimeVars, seen, lastSnapshot,
                   exitCode>>

DetachClient ==
    /\ main \in {"detach client", "abandon"}
    /\ DisableBridge
    /\ Goto(IF main = "abandon" THEN "request stop" ELSE "stop retry")
    /\ UNCHANGED <<migrationVars, sessionVars, runtimeVars, localVars>>

(* RequestStop and Detach *)
RequestStop ==
    /\ main = "request stop"
    /\ stopRequested' = TRUE
    /\ Goto("stop retry")
    /\ UNCHANGED <<migrationVars, sessionVars, eventVars, ingressVars, closed,
                   inputDrained, draining, threadVars, boundVars, localVars>>

Drain ==
    \/ WaitUntil("wait input", InputIsDrained, "wait devices")
    \/ WaitUntil("wait devices", DevicesIdle, "flush")
    \/ FlushDatabase
    \/ WaitUntil("wait flush", database = "ended", "join")
    \/ JoinThreads \/ DetachClient \/ RequestStop

(* StopMqtt *)
StopRetry ==
    /\ main = "stop retry"
    /\ RequestRetryStop
    /\ Goto("stop loop")
    /\ UNCHANGED <<migrationVars, eventVars, runtimeVars, localVars>>

StopMqtt ==
    /\ main = "stop loop"
    /\ StopLoop
    /\ Goto("exited")
    /\ UNCHANGED <<migrationVars, eventVars, runtimeVars, localVars>>

MainThread ==
    \/ CheckSchema \/ LoadState \/ StartDatabaseThread \/ StartBusinessThread \/ RollBack
    \/ CreateMqtt \/ AttachMqtt \/ StartMqtt
    \/ CheckStatus \/ NotDue \/ EnsureSubscriptions \/ ReadGeneration
    \/ RequestExternalSnapshot
    \/ StopAccepting \/ Drain \/ StopRetry \/ StopMqtt

-------------------------------------------------------------------------------
MigrateSchema ==
    /\ main = "check schema"
    /\ Migrate
    /\ UNCHANGED <<sessionVars, eventVars, runtimeVars, mainVars>>

(* The connection and the name service *)
Network ==
    /\ LinkBreaks \/ RetryConnects
    /\ UNCHANGED <<migrationVars, eventVars, runtimeVars, mainVars>>

LoopStep ==
    \/ LoopThread /\ UNCHANGED <<migrationVars, eventVars, runtimeVars, mainVars>>
    \/ HandleMessage /\ UNCHANGED <<migrationVars, mainVars>>

RetryStep == RetryThread /\ UNCHANGED <<migrationVars, eventVars, runtimeVars, mainVars>>
BusinessStep == BusinessThread /\ UNCHANGED <<migrationVars, mainVars>>
DatabaseStep == DatabaseThread /\ UNCHANGED <<migrationVars, mainVars>>

(* The process has ended, with threads that were detached or without. *)
Exited == main = "exited" /\ UNCHANGED vars

Next ==
    \/ MigrateSchema \/ Network \/ MainThread \/ LoopStep \/ RetryStep
    \/ BusinessStep \/ DatabaseStep \/ Exited

Init ==
    /\ InitMigrations /\ InitSession /\ InitEvents /\ InitRuntime
    /\ main = "check schema" /\ seen = 0 /\ lastSnapshot = 0
    /\ exitCode = 0

Spec == Init /\ [][Next]_vars

(* The threads of the process run; the network, the broker, the database   *)
(* and the signals owe nothing.  Strong: a thread that waits for a mutex   *)
(* gets it, the 5 s between two subscription checks do pass, and the loop  *)
(* does not reconnect for ever once mosquitto_disconnect has been called.  *)
FairSpec ==
    /\ Spec
    /\ WF_vars(MainThread) /\ SF_vars(EnsureSubscriptions) /\ SF_vars(StopMqtt)
    /\ SF_vars(LoopStep) /\ SF_vars(DatabaseStep)
    /\ WF_vars(BusinessStep) /\ WF_vars(RetryStep)

-------------------------------------------------------------------------------
(* What the broker retains is current: once the snapshot for the present   *)
(* connection has been asked for and published, the retained states and    *)
(* the directory are those of the registry, whatever was published into    *)
(* dead connections before, until the service is closed.                   *)
RetainedIsCurrent ==
    /\ link = "up" /\ connected /\ lastSnapshot = generation
    /\ ~snapshotRequested /\ ~closed
    => RetainedIsRecord

(* Nothing of the process uses the MQTT client after StopMqtt: the network *)
(* loop and the retry thread have ended and no replay of the database      *)
(* thread is under way, even if that thread had to be left behind.         *)
StoppedClientIsLeftAlone ==
    main = "exited"
        => /\ loop = "none" /\ RetryJoined
           /\ database \in {"none", "idle", "ended"}
           /\ ~bridgeClient

(* A service that is told to stop exits, whatever the network and the      *)
(* database do.                                                            *)
ShutdownEnds == main = "disable ingress" ~> main = "exited"

(* A connection that lasts gets its subscriptions and its snapshot. *)
SessionSettles ==
    <>[](link = "up" /\ main \in {"check", "wait", "subscribe", "read generation",
                                  "snapshot"})
        => <>[](lastSnapshot = generation /\ ~snapshotRequested)
===============================================================================
