-------------------------- MODULE TelemetryInterest --------------------------
(***************************************************************************)
(* The browser side of the realtime path: WebSocketHub keeps the open        *)
(* sessions, TelemetryInterestRegistry each session's devices and a session  *)
(* count per device, and tells RealtimeTopicSubscriptions when a count       *)
(* leaves or reaches zero.                                                   *)
(***************************************************************************)
EXTENDS TopicSubscriptions

CONSTANT Sessions  \* session identifiers: each connection gets a new one

ASSUME SessionsAssumption == IsFiniteSet(Sessions)

VARIABLES
  sessions,    \* identifiers of the open WebSocket connections
  ended,       \* identifiers of closed ones: never given out again
  devicesBySession,
  sessionCountsByDevice

interestVars == <<sessions, ended, devicesBySession, sessionCountsByDevice>>

OpenSession(s) ==
  /\ Uninterrupted
  /\ s \notin sessions \union ended
  /\ sessions' = sessions \union {s}
  /\ UNCHANGED <<ended, devicesBySession, sessionCountsByDevice, subscriptionVars>>

(* decrementDevice for each of the devices, and the ones that reach zero. *)
Decremented(devices) ==
  [d \in Devices |-> IF d \in devices /\ sessionCountsByDevice[d] > 0
                       THEN sessionCountsByDevice[d] - 1
                       ELSE sessionCountsByDevice[d]]
Abandoned(devices) == {d \in devices : sessionCountsByDevice[d] = 1}

RepeatedInterest(s, d) == TRUE

(* A session counts once for a device however often it asks. *)
NewInterest(s, d) == d \notin devicesBySession[s]

Subscribe(s, d) ==
  /\ Uninterrupted
  /\ s \in sessions /\ NewInterest(s, d)
  /\ devicesBySession' = [devicesBySession EXCEPT ![s] = @ \union {d}]
  /\ sessionCountsByDevice' = [sessionCountsByDevice EXCEPT ![d] = @ + 1]
  /\ SetDesired(IF sessionCountsByDevice[d] = 0 THEN {d} ELSE {}, TRUE)
  /\ UNCHANGED <<sessions, ended, applied, connected, generation, operation,
                 link, broker, late, doubtful, failures>>

Unsubscribe(s, d) ==
  /\ Uninterrupted
  /\ s \in sessions /\ d \in devicesBySession[s]
  /\ devicesBySession' = [devicesBySession EXCEPT ![s] = @ \ {d}]
  /\ sessionCountsByDevice' = Decremented({d})
  /\ SetDesired(Abandoned({d}), FALSE)
  /\ UNCHANGED <<sessions, ended, applied, connected, generation, operation,
                 link, broker, late, doubtful, failures>>

(* "close": removeSession, then the session is forgotten. *)
CloseSession(s) ==
  /\ Uninterrupted
  /\ s \in sessions
  /\ devicesBySession' = [devicesBySession EXCEPT ![s] = {}]
  /\ sessionCountsByDevice' = Decremented(devicesBySession[s])
  /\ SetDesired(Abandoned(devicesBySession[s]), FALSE)
  /\ sessions' = sessions \ {s}
  /\ ended' = ended \union {s}
  /\ UNCHANGED <<applied, connected, generation, operation, link, broker, late,
                 doubtful, failures>>

BrowserEvents ==
  \E s \in Sessions :
    \/ OpenSession(s) \/ CloseSession(s)
    \/ \E d \in Devices : Subscribe(s, d) \/ Unsubscribe(s, d)

InitInterest ==
  /\ sessions = {} /\ ended = {}
  /\ devicesBySession = [s \in Sessions |-> {}]
  /\ sessionCountsByDevice = [d \in Devices |-> 0]
=============================================================================
