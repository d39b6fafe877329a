--------------------------- MODULE BackendService ---------------------------
(***************************************************************************)
(* The backend between browsers and the route service's broker: WebSocket    *)
(* sessions and their telemetry interests, the MQTT gateway, and the command  *)
(* tracker, on one JavaScript thread.                                        *)
(***************************************************************************)
EXTENDS TelemetryInterest, CommandTracker

vars == <<subscriptionVars, interestVars, trackerVars>>

(* POST /devices/:id/commands: the session must exist and MQTT be ready. *)
PostRequest(s, r) ==
  /\ Uninterrupted
  /\ s \in sessions /\ connected
  /\ PostCommand(r, s)
  /\ UNCHANGED <<subscriptionVars, interestVars>>

PublicationEnds ==
  /\ Uninterrupted
  /\ \E r \in Requests : PublishSucceeds(r) \/ PublishFails(r)
  /\ UNCHANGED <<subscriptionVars, interestVars>>

onCommandAck ==
  /\ Uninterrupted /\ link = "ready"
  /\ \E r \in Requests : TerminalAck(r)
  /\ UNCHANGED <<subscriptionVars, interestVars>>

MappingExpires ==
  /\ Uninterrupted
  /\ \E r \in Requests : CleanupTimer(r)
  /\ UNCHANGED <<subscriptionVars, interestVars>>

Reconcile == (LoopRuns \/ AwaitEnds) /\ UNCHANGED <<interestVars, trackerVars>>

CatchUp == BrokerCatchesUp /\ UNCHANGED <<interestVars, trackerVars>>

Next ==
  \/ Reconcile
  \/ CatchUp
  \/ ConnectionEvents /\ UNCHANGED <<interestVars, trackerVars>>
  \/ BrowserEvents /\ UNCHANGED trackerVars
  \/ \E s \in Sessions, r \in Requests : PostRequest(s, r)
  \/ PublicationEnds
  \/ onCommandAck
  \/ MappingExpires

Init == InitSubscriptions /\ InitInterest /\ InitTracker

(* Promise reactions run, and withTimeout ends every await; where the bound on *)
(* failures forbids another timeout, the broker handles what it was sent.      *)
Fairness == WF_vars(Reconcile) /\ WF_vars(CatchUp)

Spec == Init /\ [][Next]_vars /\ Fairness

-----------------------------------------------------------------------------
(* The devices subscribed for are exactly those some open session asked for:  *)
(* the counts of telemetryInterestRegistry.ts neither leak nor run short over  *)
(* any order of repeated requests, withdrawals and closed sessions.            *)
InterestIsCounted ==
  /\ \A d \in Devices : sessionCountsByDevice[d]
                          = Cardinality({s \in sessions : d \in devicesBySession[s]})
  /\ desired = UNION {devicesBySession[s] : s \in sessions}

(* Whatever callbacks of earlier connections still arrive, the applied set of  *)
(* realtimeTopicSubscriptions.ts is what the broker has for this connection,   *)
(* but for the operation under way and for devices whose operation withTimeout *)
(* gave up on.                                                                *)
AppliedIsSubscribed ==
  \A d \in Devices \ doubtful :
    \/ Awaiting /\ operation.device = d
    \/ d \in applied <=> d \in broker

(* A change of interest made while an operation is awaited is not forgotten:   *)
(* a reconciliation that ended without an error left nothing to do.            *)
IdleIsSettled == ~Running /\ connected /\ ~failed => applied = desired

(* An acknowledgement finds its session: while the outcome of the last POST of  *)
(* a request is owed, the mapping is in place, whatever timers of earlier       *)
(* completions are still running (commandTracker.ts), provided that the POSTs   *)
(* of a request do not overlap (MaxPublishing = 1): OverlappingPosts.cfg.       *)
OwedIsTracked == \A r \in Requests : owed[r] # NoSession => commands[r] = owed[r]

(* A device a browser keeps asking for is subscribed at the broker, unless the *)
(* connection is lost or an operation fails.                                   *)
InterestIsServed ==
  \A d \in Devices :
    (d \in desired /\ connected)
      ~> (d \in broker \union doubtful \/ d \notin desired \/ ~connected \/ failed)
=============================================================================
