----------------------------- MODULE RouteRuntime -----------------------------
(***************************************************************************)
(* The runtime of route_service between the MQTT callbacks and the         *)
(* database: DeviceIngress on the network loop, the bounded queue, the     *)
(* loop of the business thread (DeviceService::Run) and the database       *)
(* thread as far as it uses the MQTT client.                               *)
(*                                                                         *)
(* What a message means for a device is the business of the module         *)
(* DeviceService; here it is a change that is published.  The hook that    *)
(* runs CommandService on the same thread is left out, and of the database *)
(* work only that it may keep the business thread in its loop.             *)
(***************************************************************************)
EXTENDS StateEvents

CONSTANTS QueueCapacity,   \* mqtt_inbound_capacity
          MaxMessages,     \* bound: messages delivered by the broker
          MaxExpiries,     \* bound: devices that become inactive
          MaxReplays       \* bound: recoveries of the database

ASSUME RuntimeAssumption ==
    /\ QueueCapacity \in Nat \ {0}
    /\ MaxMessages \in Nat /\ MaxExpiries \in Nat /\ MaxReplays \in Nat

VARIABLES handler,       \* the message handler of the MQTT client is set
          ingress,       \* enabled_ of DeviceIngress
          inbound,       \* the message of the callback that is under way
          queue,         \* mqtt_queue_
          queueClosed,   \* closed_ of the queue
          closed,        \* closed_ of DeviceService
          inputDrained,  \* input_drained_
          business,      \* position of the business thread
          round,         \* which ProcessReady of Run this is
          database,      \* position of the database thread
          draining,      \* drain_requested_ of PostgresWorker
          stopRequested, \* the stop tokens of both threads
          received, expired, replays   \* counters of the bounds

ingressVars == <<handler, ingress, inbound, queue, queueClosed>>
drainVars == <<closed, inputDrained, draining, stopRequested>>
threadVars == <<business, round, database>>
boundVars == <<received, expired, replays>>
runtimeVars == <<ingressVars, drainVars, threadVars, boundVars>>

NoMessage == "none"

-------------------------------------------------------------------------------
(* HandleMessage and Dispatch on the network loop.  The handler, and later *)
(* the submitter of DeviceIngress, are copied under a lock and called      *)
(* after it: a stop may fall in between.                                   *)

Dispatch(d) ==
    /\ loop = "idle" /\ link = "up" /\ received < MaxMessages
    /\ DeviceFilters \cap subs # {}
    /\ received' = received + 1
    /\ IF handler THEN inbound' = d /\ loop' = "ingress"
                  ELSE UNCHANGED <<inbound, loop>>
    /\ UNCHANGED <<handler, ingress, queue, queueClosed>>

(* DeviceIngress::Handle up to the call of the submitter *)
TakeSubmitter ==
    /\ loop = "ingress"
    /\ IF ingress THEN loop' = "submit" /\ UNCHANGED inbound
                  ELSE loop' = "idle" /\ inbound' = NoMessage
    /\ UNCHANGED <<handler, ingress, queue, queueClosed, received>>

(* BoundedQueue::TryPush, with the rejection that is diagnosed through the *)
(* bridge                                                                  *)
Submit ==
    /\ loop = "submit"
    /\ IF ~queueClosed /\ Len(queue) < QueueCapacity
       THEN queue' = Append(queue, inbound)
       ELSE (ingress => BridgeFree) /\ UNCHANGED queue
    /\ loop' = "idle"
    /\ inbound' = NoMessage
    /\ UNCHANGED <<handler, ingress, queueClosed, received>>

HandleMessage ==
    /\ (\E d \in Devices : Dispatch(d)) \/ TakeSubmitter \/ Submit
    /\ UNCHANGED <<linkVars, connected, generation, markVars, retryVars, eventVars,
                   drainVars, business, round, database, expired, replays>>

-------------------------------------------------------------------------------
(* DeviceService::Run on the business thread *)

(* ProcessReady: a message of the queue *)
HandleDeviceMessage ==
    /\ business = "ready" /\ queue # <<>>
    /\ \E shown \in BOOLEAN :
          PublishChange(Head(queue), Changed(Head(queue), shown))
    /\ queue' = Tail(queue)
    /\ UNCHANGED <<sessionVars, handler, ingress, inbound, queueClosed, drainVars, business,
                   round, database, received, expired, replays>>

(* ExpireInactive: a device goes offline, which the directory shows. *)
ExpireDevice ==
    /\ business = "ready" /\ queue = <<>> /\ expired < MaxExpiries
    /\ \E d \in Devices : PublishChange(d, Changed(d, TRUE))
    /\ expired' = expired + 1
    /\ UNCHANGED <<sessionVars, ingressVars, drainVars, business, round, database, received,
                   replays>>

(* The snapshot ends ProcessReady. *)
EndProcessReady ==
    /\ business = "ready" /\ queue = <<>>
    /\ PublishSnapshot \/ (~snapshotRequested /\ UNCHANGED eventVars)
    /\ business' = "check"
    /\ UNCHANGED <<sessionVars, ingressVars, drainVars, round, database, received, expired,
                   replays>>

(* Once the queue is closed and empty everything is processed again, so    *)
(* that the telemetry that was not due is dispatched, and a last time      *)
(* after the loop.  While the database thread runs, work of it that is     *)
(* outstanding may keep the business thread in the loop.                   *)
EndRound ==
    LET drains == round = "first" /\ closed /\ queue = <<>>
        leaves == IF stopRequested THEN {TRUE}
                  ELSE IF round # "second" THEN {FALSE}
                  ELSE IF database = "ended" THEN {TRUE} ELSE BOOLEAN
    IN  /\ business = "check"
        /\ inputDrained' = (inputDrained \/ drains)
        /\ \E leave \in leaves :
              round' = IF drains THEN "second" ELSE IF leave THEN "final" ELSE "first"
        /\ business' = IF round = "final" THEN "ended" ELSE "ready"
        /\ UNCHANGED <<sessionVars, eventVars, ingressVars, closed, draining,
                       stopRequested, database, received, expired, replays>>

BusinessThread ==
    HandleDeviceMessage \/ ExpireDevice \/ EndProcessReady \/ EndRound

-------------------------------------------------------------------------------
(* PostgresWorker::Run on the database thread *)

DatabaseEnds ==
    /\ database = "idle" /\ (stopRequested \/ draining)
    /\ database' = "ended"
    /\ UNCHANGED <<sessionVars, eventVars, replays>>

(* After a recovery: the replay callback, under the mutex of the bridge *)
BeginReplayRequest ==
    /\ database = "idle" /\ replays < MaxReplays
    /\ replays' = replays + 1
    /\ IF CanPublish
       THEN database' = "wait lock" /\ LockBridge("database")
       ELSE BridgeFree /\ UNCHANGED <<database, eventVars>>
    /\ UNCHANGED sessionVars

ReplayStep(from, to) == database = from /\ database' = to /\ UNCHANGED replays

ReplayRegistrations ==
    \/ BeginReplayRequest
    \/ ReplayStep("wait lock", "unsubscribe") /\ BeginReplay /\ UNCHANGED eventVars
    \/ ReplayStep("unsubscribe", "resubscribe") /\ Unsubscribe /\ UNCHANGED eventVars
    \/ ReplayStep("resubscribe", "mark") /\ Resubscribe /\ UNCHANGED eventVars
    \/ ReplayStep("mark", "idle") /\ EndReplay /\ UnlockBridge
    \/ ReplayStep("unsubscribe", "idle") /\ ReplayFails /\ UnlockBridge
    \/ ReplayStep("resubscribe", "idle") /\ ReplayFails /\ UnlockBridge

DatabaseThread ==
    /\ DatabaseEnds \/ ReplayRegistrations
    /\ UNCHANGED <<ingressVars, drainVars, business, round, received, expired>>

InitRuntime ==
    /\ handler = FALSE /\ ingress = FALSE /\ inbound = NoMessage
    /\ queue = <<>> /\ queueClosed = FALSE
    /\ closed = FALSE /\ inputDrained = FALSE
    /\ draining = FALSE /\ stopRequested = FALSE
    /\ business = "none" /\ round = "first" /\ database = "none"
    /\ received = 0 /\ expired = 0 /\ replays = 0
===============================================================================
