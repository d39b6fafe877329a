------------------------------ MODULE MqttSession -----------------------------
(***************************************************************************)
(* MqttClient of route_service: the connection, the business subscriptions *)
(* and the generations that say for which connection they were made.       *)
(*                                                                         *)
(* Three threads subscribe: the network loop of libmosquitto (callbacks),  *)
(* the main thread (EnsureBusinessSubscriptions) and the database thread   *)
(* (ReplayRetainedRegistrations).  subscription_mutex serialises them, the *)
(* connection does not wait for it.  Of libmosquitto and the broker the    *)
(* model knows: a call fails without a socket, a packet of a connection    *)
(* that is already dead is accepted and lost, and a clean session starts   *)
(* without subscriptions.                                                  *)
(***************************************************************************)
EXTENDS Integers, Sequences

CONSTANT MaxSessions   \* bound: connections to the broker

ASSUME SessionAssumption == MaxSessions \in Nat

VARIABLES link,         \* external: "down", "up", or "broken" and not noticed
          subs,         \* external: filters of this connection at the broker
          connected,    \* connected
          generation,   \* connection_generation
          marked,       \* registration_generation ... (0: nullopt), per filter
          subLock,      \* holder of subscription_mutex
          work,         \* locals of the holder: generation and filters to do
          loop,         \* the network loop: "none", "idle" or in a callback
          loopStarted,  \* loop_started_
          retry,        \* retry_state_
          retryThread,  \* position in RetryConnection
          retryStop     \* retry_stop_requested_

linkVars == <<link, subs>>
markVars == <<marked, subLock, work>>
retryVars == <<loopStarted, retry, retryThread, retryStop>>
sessionVars == <<linkVars, connected, generation, markVars, loop, retryVars>>

(* The filters; the four of the commands (requests and acks of either      *)
(* type) are sent and marked together and count as one.                    *)
FilterSet == {"registration", "telemetry", "commands"}
DeviceFilters == {"registration", "telemetry"}

NoWork == [gen |-> 0, todo |-> <<>>]

(* subscribe_devices and subscribe_commands: the device filters are        *)
(* subscribed again unless both are marked.                                *)
SubscribeDevices == \E f \in DeviceFilters : marked[f] # generation
SubscribeCommands == marked["commands"] # generation

(* The filters to subscribe, in this order *)
Pending ==
    (IF SubscribeDevices THEN <<"registration", "telemetry">> ELSE <<>>)
    \o (IF SubscribeCommands THEN <<"commands">> ELSE <<>>)

(* BusinessSubscriptionGeneration, 0 for nullopt *)
BusinessSubscriptionGeneration ==
    IF connected /\ \A f \in FilterSet : marked[f] = generation
    THEN generation ELSE 0

-------------------------------------------------------------------------------
(* The connection, and the callbacks of the network loop *)

(* A reconnection of the loop; the callback has not run yet. *)
LinkUp ==
    /\ loop = "idle" /\ link = "down"
    /\ generation < MaxSessions
    /\ link' = "up"
    /\ subs' = {}
    /\ loop' = "connect"
    /\ UNCHANGED <<connected, generation, markVars, retryVars>>

LinkBreaks ==
    /\ link = "up"
    /\ link' = "broken"
    /\ subs' = {}
    /\ UNCHANGED <<connected, generation, markVars, loop, retryVars>>

NoticeLoss ==
    /\ loop = "idle" /\ link = "broken"
    /\ link' = "down"
    /\ loop' = "disconnect"
    /\ UNCHANGED <<subs, connected, generation, markVars, retryVars>>

(* The tokens that fail here are modelled in MqttPublications. *)
HandleDisconnect ==
    /\ loop = "disconnect"
    /\ connected' = FALSE
    /\ loop' = "idle"
    /\ UNCHANGED <<linkVars, generation, markVars, retryVars>>

(* Connected(), then SubscribeConfigured *)
HandleConnect ==
    /\ loop = "connect"
    /\ connected' = TRUE
    /\ generation' = IF connected THEN generation ELSE generation + 1
    /\ loop' = "wait lock"
    /\ UNCHANGED <<linkVars, markVars, retryVars>>

ConnectionRefused ==
    /\ loop = "connect"
    /\ connected' = FALSE
    /\ link' = "down"
    /\ loop' = "idle"
    /\ UNCHANGED <<subs, generation, markVars, retryVars>>

-------------------------------------------------------------------------------
(* CallbackState::SubscribeConfigured on thread t *)

BeginSubscribe(t) ==
    /\ subLock = "free"
    /\ subLock' = t
    /\ work' = [gen |-> generation, todo |-> Pending]
    /\ UNCHANGED <<linkVars, connected, generation, marked, retryVars>>

Subscribed(f) == IF link = "up" THEN subs \cup {f} ELSE subs

SendSubscribe(t) ==
    /\ subLock = t /\ work.todo # <<>> /\ link # "down"
    /\ subs' = Subscribed(Head(work.todo))
    /\ work' = [work EXCEPT !.todo = Tail(@)]
    /\ UNCHANGED <<link, connected, generation, marked, subLock, retryVars>>

SubscribeFails(t) ==
    /\ subLock = t /\ work.todo # <<>> /\ link = "down"
    /\ subLock' = "free"
    /\ work' = NoWork
    /\ UNCHANGED <<linkVars, connected, generation, marked, retryVars>>

(* The filters count only if the connection they were sent on is still     *)
(* the current one.                                                        *)
AnyConnection(gen) == connected
SameConnection(gen) == connected /\ generation = gen

MarkSubscribed(t) ==
    /\ subLock = t /\ work.todo = <<>>
    /\ marked' = IF SameConnection(work.gen)
                 THEN [f \in FilterSet |-> generation] ELSE marked
    /\ subLock' = "free"
    /\ work' = NoWork
    /\ UNCHANGED <<linkVars, connected, generation, retryVars>>

LoopThread ==
    \/ LinkUp \/ NoticeLoss \/ HandleDisconnect \/ HandleConnect
    \/ ConnectionRefused
    \/ loop = "wait lock" /\ BeginSubscribe("loop") /\ loop' = "subscribe"
    \/ loop = "subscribe" /\ SendSubscribe("loop") /\ UNCHANGED loop
    \/ loop = "subscribe" /\ SubscribeFails("loop") /\ loop' = "idle"
    \/ loop = "subscribe" /\ MarkSubscribed("loop") /\ loop' = "idle"

-------------------------------------------------------------------------------
(* ReplayRetainedRegistrations on the database thread: the subscription is *)
(* taken back and made again, so that the broker sends what it retains.    *)

BeginReplay ==
    /\ subLock = "free"
    /\ subLock' = "database"
    /\ UNCHANGED <<linkVars, connected, generation, marked, work, loop, retryVars>>

Unsubscribe ==
    /\ link # "down"
    /\ subs' = subs \ {"registration"}
    /\ UNCHANGED <<link, connected, generation, markVars, loop, retryVars>>

Resubscribe ==
    /\ link # "down"
    /\ subs' = Subscribed("registration")
    /\ UNCHANGED <<link, connected, generation, markVars, loop, retryVars>>

(* The mark names the connection of now, not the one that was used. *)
MarkReplayed == {"registration"}

EndReplay ==
    /\ marked' = IF connected
                 THEN [f \in FilterSet |-> IF f \in MarkReplayed THEN generation
                                                                 ELSE marked[f]]
                 ELSE marked
    /\ subLock' = "free"
    /\ UNCHANGED <<linkVars, connected, generation, work, loop, retryVars>>

ReplayFails ==
    /\ link = "down"
    /\ subLock' = "free"
    /\ UNCHANGED <<linkVars, connected, generation, marked, work, loop, retryVars>>

-------------------------------------------------------------------------------
(* Start, the retry thread, StopNow *)

(* Start ends with the loop running, or with a retry thread when the name  *)
(* of the broker cannot be resolved.                                       *)
StartLoop ==
    /\ loopStarted' = TRUE
    /\ loop' = "idle"
    /\ UNCHANGED <<linkVars, connected, generation, markVars, retry, retryThread,
                   retryStop>>

StartRetrying ==
    /\ retry' = "running"
    /\ retryThread' = "wait"
    /\ retryStop' = FALSE
    /\ UNCHANGED <<linkVars, connected, generation, markVars, loop, loopStarted>>

FinishRetry(state) ==
    /\ retry' = state
    /\ retryThread' = "ended"

(* The wait is interrupted by a stop. *)
RetryStopped ==
    /\ retryThread \in {"wait", "check"} /\ retryStop
    /\ FinishRetry("idle")
    /\ UNCHANGED <<linkVars, connected, generation, markVars, loop, loopStarted,
                   retryStop>>

RetryConnects ==
    /\ retryThread = "wait"
    /\ \/ retryThread' = "check" /\ UNCHANGED retry
       \/ FinishRetry("failed")
    /\ UNCHANGED <<linkVars, connected, generation, markVars, loop, loopStarted,
                   retryStop>>

(* retry_stop_requested_ was read as FALSE *)
RetryGoesOn ==
    /\ retryThread = "check" /\ ~retryStop
    /\ retryThread' = "start loop"
    /\ UNCHANGED <<linkVars, connected, generation, markVars, loop, loopStarted,
                   retry, retryStop>>

RetryStartsLoop ==
    /\ retryThread = "start loop"
    /\ \/ /\ loopStarted' = TRUE
          /\ loop' = "idle"
          /\ FinishRetry("idle")
       \/ /\ FinishRetry("failed")
          /\ UNCHANGED <<loop, loopStarted>>
    /\ UNCHANGED <<linkVars, connected, generation, markVars, retryStop>>

(* What the retry thread does without the help of the name service *)
RetryThread == RetryStopped \/ RetryGoesOn \/ RetryStartsLoop

NoStopFlag == FALSE
StopFlag == TRUE
RequestRetryStop ==
    /\ retryStop' = StopFlag
    /\ UNCHANGED <<linkVars, connected, generation, markVars, loop, loopStarted,
                   retry, retryThread>>

(* StopNow waits for the retry thread before it looks at the loop. *)
RetryJoined == retryThread \in {"none", "ended"}

(* mosquitto_disconnect and mosquitto_loop_stop: the loop ends when it is  *)
(* in no callback.                                                         *)
StopLoop ==
    /\ RetryJoined
    /\ loopStarted => loop = "idle"
    /\ retry' = "idle"
    /\ loop' = "none"
    /\ loopStarted' = FALSE
    /\ connected' = FALSE
    /\ link' = "down"
    /\ subs' = {}
    /\ UNCHANGED <<generation, markVars, retryThread, retryStop>>

InitSession ==
    /\ link = "down" /\ subs = {}
    /\ connected = FALSE /\ generation = 0
    /\ marked = [f \in FilterSet |-> 0]
    /\ subLock = "free" /\ work = NoWork
    /\ loop = "none" /\ loopStarted = FALSE
    /\ retry = "idle" /\ retryThread = "none" /\ retryStop = FALSE

(* A generation is reported as subscribed only if, while that connection   *)
(* lives, the broker has all of its filters, whatever reconnections fell   *)
(* between the calls of the three threads; a replay may be under way.      *)
ReportedIsSubscribed ==
    link = "up" /\ BusinessSubscriptionGeneration # 0 /\ subLock # "database"
        => subs = FilterSet
===============================================================================
