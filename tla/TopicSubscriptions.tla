------------------------- MODULE TopicSubscriptions -------------------------
(***************************************************************************)
(* RealtimeTopicSubscriptions of the backend: the set of devices some       *)
(* browser wants to see live (desired) is reconciled, one broker operation  *)
(* at a time, with the subscriptions of the current MQTT connection.        *)
(*                                                                         *)
(* The code runs on one JavaScript thread.  A callback runs to its end, and *)
(* the promise reactions it triggers run before the next callback: between  *)
(* two awaits of a broker operation the reconciliation is not interrupted.  *)
(* Here that part of the loop takes several steps, and every other action   *)
(* waits until the loop is idle or awaits an operation (Uninterrupted).     *)
(***************************************************************************)
EXTENDS Naturals, FiniteSets

CONSTANTS Devices,         \* device identifiers browsers may ask for
          MaxGenerations,  \* bound: setConnected calls
          MaxFailures      \* bound: operations refused, or not answered in time

ASSUME DevicesAssumption == IsFiniteSet(Devices)
ASSUME SubscriptionBounds == MaxGenerations \in Nat /\ MaxFailures \in Nat

VARIABLES
  desired, applied,  \* the two device sets of RealtimeTopicSubscriptions
  connected,         \* its connected flag; also status === "ready" of the gateway
  generation,        \* connectionGeneration
  loop,              \* the running reconcileLoop: where it is and its snapshot
  rerun,
  operation,         \* the broker operation the loop awaits, or NoOperation
  failed,            \* history: the last reconcileLoop ended with an error
  link,              \* the MQTT connection: "down", "up" (base topics pending),
                     \*   "refused" (base topics refused) or "ready"
  broker,            \* devices subscribed at the broker on this connection
  late,              \* operations given up by withTimeout that may yet take effect
  doubtful,          \* history: devices with such an operation on this connection
  failures           \* operations refused or timed out so far

subscriptionVars == <<desired, applied, connected, generation, loop, rerun,
                      operation, failed, link, broker, late, doubtful, failures>>

NoOperation == [kind |-> "none"]
Operations == [kind : {"subscribe", "unsubscribe"}, device : Devices,
               generation : 0..MaxGenerations]

Idle == [at |-> "idle", todo |-> {}]
LoopAt(place, todo) == [at |-> place, todo |-> todo]

Running == loop.at # "idle"
Awaiting == operation # NoOperation

(* No promise reaction of the loop is pending. *)
Uninterrupted == Running => Awaiting

-----------------------------------------------------------------------------
(* schedule(): start the loop, or ask the running one for another pass.     *)
ScheduledLoop == IF Running THEN loop ELSE LoopAt("begin", {})

Schedule ==
  /\ loop' = ScheduledLoop
  /\ rerun' = IF Running THEN TRUE ELSE rerun
  /\ failed' = IF Running THEN failed ELSE FALSE

(* setDesired for each device of `devices`: what one browser event changes.  *)
SetDesired(devices, interested) ==
  /\ desired' = IF interested THEN desired \union devices ELSE desired \ devices
  /\ IF devices # {} THEN Schedule ELSE UNCHANGED <<loop, rerun, failed>>

SetConnected(up) ==
  /\ generation < MaxGenerations
  /\ generation' = generation + 1
  /\ connected' = up
  /\ applied' = {}
  /\ Schedule

-----------------------------------------------------------------------------
(* reconcileLoop and reconcileOnce, from one await to the next.             *)
needsReconcile ==
  /\ connected
  /\ \/ Cardinality(desired) # Cardinality(applied)
     \/ \E d \in desired : d \notin applied

SinglePass == FALSE

AnotherPass == rerun \/ needsReconcile

BeginPass ==
  /\ loop.at = "begin"
  /\ rerun' = FALSE
  /\ loop' = IF connected THEN LoopAt("unsubscribe", applied) ELSE LoopAt("end", {})
  /\ UNCHANGED <<desired, applied, connected, generation, operation, failed,
                 link, broker, late, doubtful, failures>>

EndPass ==
  /\ loop.at = "end"
  /\ loop' = IF AnotherPass THEN LoopAt("begin", {}) ELSE Idle
  /\ UNCHANGED <<desired, applied, connected, generation, rerun, operation, failed,
                 link, broker, late, doubtful, failures>>

(* Whether the pass has an operation to issue for a device of its snapshot. *)
Wanting(d) == IF loop.at = "unsubscribe" THEN d \notin desired ELSE d \notin applied

(* The next device of the snapshot: skipped, or its operation is issued. *)
VisitDevice(d) ==
  /\ loop.at \in {"unsubscribe", "subscribe"} /\ ~Awaiting
  /\ d \in loop.todo
  /\ loop' = [loop EXCEPT !.todo = @ \ {d}]
  /\ operation' = IF Wanting(d)
                    THEN [kind |-> loop.at, device |-> d, generation |-> generation]
                    ELSE NoOperation
  /\ UNCHANGED <<desired, applied, connected, generation, rerun, failed,
                 link, broker, late, doubtful, failures>>

(* A snapshot is exhausted: the wanted devices follow the unwanted ones. *)
NextSnapshot ==
  /\ loop.at \in {"unsubscribe", "subscribe"} /\ ~Awaiting
  /\ loop.todo = {}
  /\ loop' = IF loop.at = "unsubscribe" THEN LoopAt("subscribe", desired)
                                        ELSE LoopAt("end", {})
  /\ UNCHANGED <<desired, applied, connected, generation, rerun, operation, failed,
                 link, broker, late, doubtful, failures>>

AnyGeneration == connected

(* The operation was issued on the connection that is up now. *)
OfThisConnection == connected /\ operation.generation = generation

TakenEffect(o, devices) ==
  IF o.kind = "subscribe" THEN devices \union {o.device} ELSE devices \ {o.device}

(* The await ends: with success, or in the catch block. *)
Answered(ok) ==
  /\ operation' = NoOperation
  /\ CASE ~OfThisConnection ->
            loop' = LoopAt("end", {}) /\ UNCHANGED <<applied, failed>>
       [] OfThisConnection /\ ok ->
            applied' = TakenEffect(operation, applied) /\ UNCHANGED <<loop, failed>>
       [] OfThisConnection /\ ~ok ->
            loop' = Idle /\ failed' = TRUE /\ UNCHANGED applied

-----------------------------------------------------------------------------
(* The broker handles the packets of one connection in order, and forgets   *)
(* the subscriptions when the connection ends (clean session).              *)
OnTheWire == Awaiting /\ link = "ready" /\ operation.generation = generation

OperationSucceeds ==
  /\ OnTheWire /\ late = {}
  /\ broker' = TakenEffect(operation, broker)
  /\ doubtful' = doubtful \ {operation.device}
  /\ Answered(TRUE)
  /\ UNCHANGED <<desired, connected, generation, rerun, link, late, failures>>

OperationRefused ==
  /\ OnTheWire /\ late = {}
  /\ failures < MaxFailures
  /\ failures' = failures + 1
  /\ Answered(FALSE)
  /\ UNCHANGED <<desired, connected, generation, rerun, link, broker, late, doubtful>>

(* withTimeout gives up; the packet is still on its way. *)
OperationTimesOut ==
  /\ OnTheWire
  /\ failures < MaxFailures
  /\ failures' = failures + 1
  /\ late' = late \union {operation}
  /\ doubtful' = doubtful \union {operation.device}
  /\ Answered(FALSE)
  /\ UNCHANGED <<desired, connected, generation, rerun, link, broker>>

(* An operation of an earlier connection ends: the callback comes late, or   *)
(* the client library reports the loss, or withTimeout gives up.             *)
OldOperationEnds(ok) ==
  /\ Awaiting /\ ~OnTheWire
  /\ Answered(ok)
  /\ UNCHANGED <<desired, connected, generation, rerun, link, broker, late,
                 doubtful, failures>>

LateOperation(o, effective) ==
  /\ Uninterrupted
  /\ o \in late
  /\ late' = late \ {o}
  /\ broker' = IF effective THEN TakenEffect(o, broker) ELSE broker
  /\ UNCHANGED <<desired, applied, connected, generation, loop, rerun, operation,
                 failed, link, doubtful, failures>>

-----------------------------------------------------------------------------
(* The gateway's connection callbacks.                                      *)
ConnectionUp ==
  /\ Uninterrupted /\ link = "down"
  /\ link' = "up"
  /\ UNCHANGED <<desired, applied, connected, generation, loop, rerun, operation,
                 failed, broker, late, doubtful, failures>>

(* The base topics are subscribed: onReady; or refused: not ready until the  *)
(* next connection.                                                         *)
BaseTopicsSubscribed ==
  /\ Uninterrupted /\ link = "up"
  /\ link' = "ready"
  /\ SetConnected(TRUE)
  /\ UNCHANGED <<desired, operation, broker, late, doubtful, failures>>

BaseTopicsRefused ==
  /\ Uninterrupted /\ link = "up"
  /\ link' = "refused"
  /\ UNCHANGED <<desired, applied, connected, generation, loop, rerun, operation,
                 failed, broker, late, doubtful, failures>>

(* "close" *)
ConnectionClosed ==
  /\ Uninterrupted /\ link # "down"
  /\ link' = "down"
  /\ SetConnected(FALSE)
  /\ broker' = {} /\ late' = {} /\ doubtful' = {}
  /\ UNCHANGED <<desired, operation, failures>>

(* "offline" follows the "close" of a connection that is being retried. *)
ConnectionOffline ==
  /\ Uninterrupted /\ link = "down"
  /\ SetConnected(FALSE)
  /\ UNCHANGED <<desired, operation, link, broker, late, doubtful, failures>>

LoopRuns ==
  \/ BeginPass \/ EndPass \/ NextSnapshot
  \/ \E d \in Devices : VisitDevice(d)

AwaitEnds ==
  \/ OperationSucceeds \/ OperationRefused \/ OperationTimesOut
  \/ \E ok \in BOOLEAN : OldOperationEnds(ok)

ConnectionEvents ==
  \/ ConnectionUp \/ BaseTopicsSubscribed \/ BaseTopicsRefused
  \/ ConnectionClosed \/ ConnectionOffline

BrokerCatchesUp == \E o \in late, effective \in BOOLEAN : LateOperation(o, effective)

InitSubscriptions ==
  /\ desired = {} /\ applied = {}
  /\ connected = FALSE /\ generation = 0
  /\ loop = Idle /\ rerun = FALSE
  /\ operation = NoOperation /\ failed = FALSE
  /\ link = "down" /\ broker = {} /\ late = {} /\ doubtful = {}
  /\ failures = 0
=============================================================================
