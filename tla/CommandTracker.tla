--------------------------- MODULE CommandTracker ---------------------------
(***************************************************************************)
(* The backend's CommandTracker: which WebSocket session gets the            *)
(* acknowledgements of a request, from the POST that publishes it to some    *)
(* time after its terminal acknowledgement.                                  *)
(***************************************************************************)
EXTENDS Naturals

CONSTANTS Requests,      \* client_request_id values
          MaxPublishing  \* bound: POSTs of one request under way at a time

ASSUME PublishingBound == MaxPublishing \in Nat

VARIABLES
  commands,       \* request -> session it is mapped to, or NoSession
  cleanupTimers,  \* requests whose mapping a timer will remove
  publishing,     \* request -> POST handlers that await publishCommand
  owed            \* history: request -> session that waits for its outcome

trackerVars == <<commands, cleanupTimers, publishing, owed>>

NoSession == "none"

TimersLeftRunning(r) == cleanupTimers

(* A mapping registered anew is not subject to an earlier completion. *)
TimersAfterRegister(r) == cleanupTimers \ {r}

Register(r, s) ==
  /\ cleanupTimers' = TimersAfterRegister(r)
  /\ commands' = [commands EXCEPT ![r] = s]

Forget(r) ==
  /\ cleanupTimers' = cleanupTimers \ {r}
  /\ commands' = [commands EXCEPT ![r] = NoSession]

Complete(r) ==
  /\ cleanupTimers' = cleanupTimers \union {r}
  /\ UNCHANGED commands

(* The handler up to its await of publishCommand. *)
PostCommand(r, s) ==
  /\ publishing[r] < MaxPublishing
  /\ Register(r, s)
  /\ publishing' = [publishing EXCEPT ![r] = @ + 1]
  /\ owed' = [owed EXCEPT ![r] = s]

(* 202, or 503 after the mapping has been forgotten, whichever POST made it: an *)
(* outcome stays owed while another POST of the request is under way.           *)
PublishSucceeds(r) ==
  /\ publishing[r] > 0
  /\ publishing' = [publishing EXCEPT ![r] = @ - 1]
  /\ UNCHANGED <<commands, cleanupTimers, owed>>

PublishFails(r) ==
  /\ publishing[r] > 0
  /\ publishing' = [publishing EXCEPT ![r] = @ - 1]
  /\ Forget(r)
  /\ owed' = IF publishing[r] = 1 THEN [owed EXCEPT ![r] = NoSession] ELSE owed

(* onCommandAck with a terminal status: sent to the mapped session, ignored   *)
(* without a mapping.  Other acknowledgements are sent and change nothing.     *)
TerminalAck(r) ==
  /\ commands[r] # NoSession
  /\ Complete(r)
  /\ owed' = [owed EXCEPT ![r] = NoSession]
  /\ UNCHANGED publishing

CleanupTimer(r) ==
  /\ r \in cleanupTimers
  /\ cleanupTimers' = cleanupTimers \ {r}
  /\ commands' = [commands EXCEPT ![r] = NoSession]
  /\ UNCHANGED <<publishing, owed>>

InitTracker ==
  /\ commands = [r \in Requests |-> NoSession]
  /\ cleanupTimers = {} /\ publishing = [r \in Requests |-> 0]
  /\ owed = [r \in Requests |-> NoSession]
=============================================================================
