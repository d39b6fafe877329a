---------------------------- MODULE BackendProofs ----------------------------
(***************************************************************************)
(* The backend's safety properties for any number of devices, sessions,     *)
(* requests, connections and failures.  The counts, the reconciliation and  *)
(* the tracker each have an inductive invariant of their own; every step    *)
(* changes at most what two of them speak of.                               *)
(***************************************************************************)
EXTENDS BackendService, FiniteSetTheorems, TLAPS

-----------------------------------------------------------------------------
(* The tracker: no timer runs for a mapping that is still needed.  A POST that *)
(* fails forgets the mapping of whichever POST came last, so the POSTs of one   *)
(* request must not overlap.                                                    *)
NoOverlap == MaxPublishing = 1

TrackInv ==
  /\ commands \in [Requests -> Sessions \union {NoSession}]
  /\ owed \in [Requests -> Sessions \union {NoSession}]
  /\ publishing \in [Requests -> {0, 1}]
  /\ \A r \in Requests :
       owed[r] # NoSession => commands[r] = owed[r] /\ r \notin cleanupTimers

LEMMA TrackInit == Init => TrackInv
  BY DEF Init, InitTracker, TrackInv

LEMMA TrackNext == NoOverlap /\ TrackInv /\ [Next]_vars => TrackInv'
<1> SUFFICES ASSUME NoOverlap, TrackInv, [Next]_vars PROVE TrackInv'
  OBVIOUS
<1>1. CASE UNCHANGED trackerVars
  BY <1>1 DEF TrackInv, trackerVars
<1>2. ASSUME NEW s \in Sessions, NEW r \in Requests, PostRequest(s, r)
      PROVE  TrackInv'
  <2>1. PostCommand(r, s)
    BY <1>2 DEF PostRequest
  <2>2. publishing[r] = 0
    BY <2>1 DEF PostCommand, TrackInv, NoOverlap
  <2>3. publishing' = [publishing EXCEPT ![r] = 1]
    BY <2>1, <2>2 DEF PostCommand
  <2> QED
    BY <2>1, <2>3 DEF PostCommand, Register, TimersAfterRegister, TrackInv
<1>3. CASE PublicationEnds
  <2>1. PICK r \in Requests : PublishSucceeds(r) \/ PublishFails(r)
    BY <1>3 DEF PublicationEnds
  <2>2. publishing[r] = 1
    BY <2>1 DEF PublishSucceeds, PublishFails, TrackInv
  <2>3. publishing' = [publishing EXCEPT ![r] = 0]
    BY <2>1, <2>2 DEF PublishSucceeds, PublishFails
  <2>4. CASE PublishSucceeds(r)
    BY <2>3, <2>4 DEF PublishSucceeds, TrackInv
  <2>5. CASE PublishFails(r)
    <3>1. owed' = [owed EXCEPT ![r] = NoSession]
      BY <2>2, <2>5 DEF PublishFails
    <3> QED
      BY <2>3, <2>5, <3>1 DEF PublishFails, Forget, TrackInv
  <2> QED
    BY <2>1, <2>4, <2>5
<1>4. CASE onCommandAck
  <2>1. PICK r \in Requests : TerminalAck(r)
    BY <1>4 DEF onCommandAck
  <2> QED
    BY <2>1 DEF TerminalAck, Complete, TrackInv
<1>5. CASE MappingExpires
  <2>1. PICK r \in Requests : CleanupTimer(r)
    BY <1>5 DEF MappingExpires
  <2> QED
    BY <2>1 DEF CleanupTimer, TrackInv
<1> QED
  BY <1>1, <1>2, <1>3, <1>4, <1>5 DEF Next, Reconcile, CatchUp, vars, trackerVars

(* The mapping of a request outlives every timer of an earlier completion,  *)
(* for any number of requests and sessions and of POSTs that follow each    *)
(* other (commandTracker.ts).                                               *)
THEOREM OwedStaysTracked == NoOverlap => (Spec => []OwedIsTracked)
<1> SUFFICES ASSUME NoOverlap PROVE Spec => []OwedIsTracked
  OBVIOUS
<1>1. TrackInv => OwedIsTracked
  BY DEF TrackInv, OwedIsTracked
<1>2. TrackInv /\ [Next]_vars => TrackInv'
  BY TrackNext
<1> QED
  BY <1>1, <1>2, TrackInit, PTL DEF Spec

-----------------------------------------------------------------------------
(* The subscriptions of this connection: what is applied is at the broker,   *)
(* unless an operation on it may still take effect.                          *)
LinkInv ==
  /\ connected <=> link = "ready"
  /\ ~connected => applied = {} /\ broker = {} /\ late = {}
  /\ \A o \in late : o.device \in doubtful

AgreeInv ==
  /\ LinkInv
  /\ \A d \in Devices \ doubtful : d \in applied <=> d \in broker

LEMMA AgreeInit == Init => AgreeInv
  BY DEF Init, InitSubscriptions, AgreeInv, LinkInv

LEMMA AgreeNext == AgreeInv /\ [Next]_vars => AgreeInv'
<1> SUFFICES ASSUME AgreeInv, [Next]_vars PROVE AgreeInv'
  OBVIOUS
<1> USE DEF AgreeInv, LinkInv
<1>1. CASE UNCHANGED <<applied, connected, link, broker, late, doubtful>>
  BY <1>1
<1>2. CASE OperationSucceeds
  <2>1. OfThisConnection
    BY <1>2 DEF OperationSucceeds, OnTheWire, OfThisConnection
  <2>2. /\ applied' = TakenEffect(operation, applied)
        /\ broker' = TakenEffect(operation, broker)
        /\ doubtful' = doubtful \ {operation.device}
        /\ late = {} /\ UNCHANGED <<connected, link, late>>
    BY <1>2, <2>1 DEF OperationSucceeds, Answered
  <2>3. connected
    BY <2>1 DEF OfThisConnection
  <2> QED
    BY <2>2, <2>3 DEF TakenEffect
<1>3. CASE OperationRefused \/ OperationTimesOut
  <2>1. OfThisConnection
    BY <1>3 DEF OperationRefused, OperationTimesOut, OnTheWire, OfThisConnection
  <2>2. UNCHANGED <<applied, connected, link, broker>>
    BY <1>3, <2>1 DEF OperationRefused, OperationTimesOut, Answered
  <2>3. \/ UNCHANGED <<late, doubtful>>
        \/ /\ late' = late \union {operation}
           /\ doubtful' = doubtful \union {operation.device}
    BY <1>3 DEF OperationRefused, OperationTimesOut
  <2>4. connected
    BY <2>1 DEF OfThisConnection
  <2> QED
    BY <2>2, <2>3, <2>4
<1>4. ASSUME NEW ok \in BOOLEAN, OldOperationEnds(ok) PROVE AgreeInv'
  <2>1. ~OfThisConnection
    BY <1>4 DEF OldOperationEnds, OnTheWire, OfThisConnection
  <2>2. UNCHANGED <<applied, connected, link, broker, late, doubtful>>
    BY <1>4, <2>1 DEF OldOperationEnds, Answered
  <2> QED
    BY <2>2
<1>5. CASE BrokerCatchesUp
  <2>1. PICK o \in late, effective \in BOOLEAN : LateOperation(o, effective)
    BY <1>5 DEF BrokerCatchesUp
  <2>2. /\ broker' = broker \/ broker' = TakenEffect(o, broker)
        /\ late' = late \ {o}
        /\ UNCHANGED <<applied, connected, link, doubtful>>
    BY <2>1 DEF LateOperation
  <2>3. o.device \in doubtful /\ connected
    BY <2>1
  <2> QED
    BY <2>2, <2>3 DEF TakenEffect
<1>6. CASE ConnectionEvents
  BY <1>6 DEF ConnectionEvents, ConnectionUp, BaseTopicsSubscribed, BaseTopicsRefused,
              ConnectionClosed, ConnectionOffline, SetConnected
<1>7. CASE LoopRuns
  BY <1>1, <1>7 DEF LoopRuns, BeginPass, EndPass, NextSnapshot, VisitDevice
<1>8. CASE BrowserEvents
  BY <1>1, <1>8 DEF BrowserEvents, OpenSession, CloseSession, Subscribe, Unsubscribe,
                    subscriptionVars
<1> QED
  BY <1>1, <1>2, <1>3, <1>4, <1>5, <1>6, <1>7, <1>8
     DEF Next, Reconcile, CatchUp, AwaitEnds, PostRequest, PublicationEnds, onCommandAck,
         MappingExpires, vars, subscriptionVars

(* The applied set is what the broker has for this connection, for any number *)
(* of devices, connections, refusals and timeouts                            *)
(* (realtimeTopicSubscriptions.ts).                                          *)
THEOREM AppliedStaysSubscribed == Spec => []AppliedIsSubscribed
<1>1. AgreeInv => AppliedIsSubscribed
  BY DEF AgreeInv, AppliedIsSubscribed
<1> QED
  BY <1>1, AgreeInit, AgreeNext, PTL DEF Spec

-----------------------------------------------------------------------------
(* The counts: a session that is not open has no devices, and a device is    *)
(* desired exactly when its count is not zero.                               *)
Watchers(d) == {s \in sessions : d \in devicesBySession[s]}

CountInv ==
  /\ sessions \subseteq Sessions
  /\ devicesBySession \in [Sessions -> SUBSET Devices]
  /\ sessionCountsByDevice \in [Devices -> Nat]
  /\ \A s \in Sessions \ sessions : devicesBySession[s] = {}
  /\ \A d \in Devices : sessionCountsByDevice[d] = Cardinality(Watchers(d))
  /\ desired = {d \in Devices : sessionCountsByDevice[d] # 0}

LEMMA CountInit == Init => CountInv
<1> SUFFICES ASSUME Init PROVE CountInv
  OBVIOUS
<1>1. \A d : Watchers(d) = {}
  BY DEF Init, InitInterest, Watchers
<1> QED
  BY <1>1, FS_EmptySet DEF Init, InitInterest, InitSubscriptions, CountInv

(* The sessions of a device are finitely many. *)
LEMMA FiniteWatchers ==
  ASSUME CountInv, NEW d \in Devices
  PROVE  /\ IsFiniteSet(Watchers(d))
         /\ sessionCountsByDevice[d] = 0 <=> Watchers(d) = {}
<1>1. Watchers(d) \in SUBSET Sessions
  BY DEF Watchers, CountInv
<1>2. IsFiniteSet(Watchers(d))
  BY <1>1, FS_Subset, SessionsAssumption
<1> QED
  BY <1>2, FS_EmptySet DEF CountInv

LEMMA CountOpen == ASSUME CountInv, NEW s \in Sessions, OpenSession(s) PROVE CountInv'
<1>1. \A d \in Devices : Watchers(d)' = Watchers(d)
  BY DEF OpenSession, Watchers, CountInv
<1> QED
  BY <1>1 DEF OpenSession, CountInv, subscriptionVars

LEMMA CountSubscribe ==
  ASSUME CountInv, NEW s \in Sessions, NEW d \in Devices, Subscribe(s, d)
  PROVE  CountInv'
<1>1. /\ Watchers(d)' = Watchers(d) \cup {s} /\ s \notin Watchers(d)
      /\ \A e \in Devices \ {d} : Watchers(e)' = Watchers(e)
  BY DEF Subscribe, NewInterest, Watchers, CountInv
<1>2. Cardinality(Watchers(d) \cup {s}) = Cardinality(Watchers(d)) + 1
  BY <1>1, FiniteWatchers, FS_AddElement
<1>3. /\ sessionCountsByDevice' \in [Devices -> Nat]
      /\ sessionCountsByDevice'[d] = sessionCountsByDevice[d] + 1
      /\ \A e \in Devices \ {d} : sessionCountsByDevice'[e] = sessionCountsByDevice[e]
  BY DEF Subscribe, CountInv
<1>4. \A e \in Devices : sessionCountsByDevice'[e] = Cardinality(Watchers(e)')
  BY <1>1, <1>2, <1>3 DEF CountInv
<1>5. desired' = {e \in Devices : sessionCountsByDevice'[e] # 0}
  BY <1>3 DEF Subscribe, SetDesired, CountInv
<1> QED
  BY <1>3, <1>4, <1>5 DEF Subscribe, CountInv

(* A session withdraws from some of its devices. *)
LEMMA CountWithdraw ==
  ASSUME CountInv, NEW s \in Sessions, NEW devices \in SUBSET devicesBySession[s], s \in sessions,
         sessionCountsByDevice' = Decremented(devices),
         desired' = desired \ Abandoned(devices),
         \A d \in devices : Watchers(d)' = Watchers(d) \ {s},
         \A d \in Devices \ devices : Watchers(d)' = Watchers(d)
  PROVE  /\ sessionCountsByDevice' \in [Devices -> Nat]
         /\ \A d \in Devices : sessionCountsByDevice'[d] = Cardinality(Watchers(d)')
         /\ desired' = {d \in Devices : sessionCountsByDevice'[d] # 0}
<1>0. devices \subseteq Devices
  BY DEF CountInv
<1>1. ASSUME NEW d \in devices
      PROVE  /\ sessionCountsByDevice[d] > 0
             /\ Cardinality(Watchers(d) \ {s}) = sessionCountsByDevice[d] - 1
  <2>1. s \in Watchers(d) /\ d \in Devices
    BY <1>0, <1>1 DEF Watchers
  <2>2. sessionCountsByDevice[d] # 0 /\ IsFiniteSet(Watchers(d))
    BY <2>1, FiniteWatchers
  <2>3. sessionCountsByDevice[d] \in Nat /\ sessionCountsByDevice[d] = Cardinality(Watchers(d))
    BY <2>1 DEF CountInv
  <2>4. Cardinality(Watchers(d) \ {s}) = Cardinality(Watchers(d)) - 1
    BY <2>1, <2>2, FS_RemoveElement
  <2>5. sessionCountsByDevice[d] > 0
    BY <2>2, <2>3
  <2> QED
    BY <2>3, <2>4, <2>5
<1>2. /\ sessionCountsByDevice' \in [Devices -> Nat]
      /\ \A d \in devices : sessionCountsByDevice'[d] = sessionCountsByDevice[d] - 1
      /\ \A d \in Devices \ devices : sessionCountsByDevice'[d] = sessionCountsByDevice[d]
  BY <1>0, <1>1 DEF Decremented, CountInv
<1>3. \A d \in Devices : sessionCountsByDevice'[d] = Cardinality(Watchers(d)')
  BY <1>1, <1>2 DEF CountInv
<1>4. desired' = {d \in Devices : sessionCountsByDevice'[d] # 0}
  BY <1>0, <1>1, <1>2 DEF Abandoned, CountInv
<1> QED
  BY <1>2, <1>3, <1>4

LEMMA CountUnsubscribe ==
  ASSUME CountInv, NEW s \in Sessions, NEW d \in Devices, Unsubscribe(s, d)
  PROVE  CountInv'
<1>1. /\ \A e \in {d} : Watchers(e)' = Watchers(e) \ {s}
      /\ \A e \in Devices \ {d} : Watchers(e)' = Watchers(e)
  BY DEF Unsubscribe, Watchers, CountInv
<1>2. /\ {d} \in SUBSET devicesBySession[s] /\ s \in sessions
      /\ sessionCountsByDevice' = Decremented({d})
      /\ desired' = desired \ Abandoned({d})
  BY DEF Unsubscribe, SetDesired
<1>3. /\ sessionCountsByDevice' \in [Devices -> Nat]
      /\ \A e \in Devices : sessionCountsByDevice'[e] = Cardinality(Watchers(e)')
      /\ desired' = {e \in Devices : sessionCountsByDevice'[e] # 0}
  BY <1>1, <1>2, CountWithdraw
<1> QED
  BY <1>3 DEF Unsubscribe, CountInv

LEMMA CountClose == ASSUME CountInv, NEW s \in Sessions, CloseSession(s) PROVE CountInv'
<1>1. /\ \A d \in devicesBySession[s] : Watchers(d)' = Watchers(d) \ {s}
      /\ \A d \in Devices \ devicesBySession[s] : Watchers(d)' = Watchers(d)
  BY DEF CloseSession, Watchers, CountInv
<1>2. /\ devicesBySession[s] \in SUBSET devicesBySession[s] /\ s \in sessions
      /\ sessionCountsByDevice' = Decremented(devicesBySession[s])
      /\ desired' = desired \ Abandoned(devicesBySession[s])
  BY DEF CloseSession, SetDesired
<1>3. /\ sessionCountsByDevice' \in [Devices -> Nat]
      /\ \A d \in Devices : sessionCountsByDevice'[d] = Cardinality(Watchers(d)')
      /\ desired' = {d \in Devices : sessionCountsByDevice'[d] # 0}
  BY <1>1, <1>2, CountWithdraw
<1> QED
  BY <1>3 DEF CloseSession, CountInv

LEMMA CountNext == CountInv /\ [Next]_vars => CountInv'
<1> SUFFICES ASSUME CountInv, [Next]_vars PROVE CountInv'
  OBVIOUS
<1>1. CASE UNCHANGED <<interestVars, desired>>
  BY <1>1 DEF CountInv, Watchers, interestVars
<1>2. CASE BrowserEvents
  BY <1>2, CountOpen, CountSubscribe, CountUnsubscribe, CountClose DEF BrowserEvents
<1>3. CASE LoopRuns /\ UNCHANGED interestVars
  BY <1>1, <1>3 DEF LoopRuns, BeginPass, EndPass, NextSnapshot, VisitDevice
<1>4. CASE AwaitEnds /\ UNCHANGED interestVars
  BY <1>1, <1>4 DEF AwaitEnds, OperationSucceeds, OperationRefused, OperationTimesOut,
                    OldOperationEnds
<1>5. CASE ConnectionEvents /\ UNCHANGED interestVars
  BY <1>1, <1>5 DEF ConnectionEvents, ConnectionUp, BaseTopicsSubscribed, BaseTopicsRefused,
                    ConnectionClosed, ConnectionOffline
<1> QED
  BY <1>1, <1>2, <1>3, <1>4, <1>5
     DEF Next, Reconcile, CatchUp, BrokerCatchesUp, LateOperation, PostRequest, PublicationEnds,
         onCommandAck, MappingExpires, vars, subscriptionVars

(* The devices subscribed for are exactly those some open session asked for, *)
(* for any number of sessions and devices and any order of their requests    *)
(* (telemetryInterestRegistry.ts).                                           *)
THEOREM InterestStaysCounted == Spec => []InterestIsCounted
<1>1. CountInv => InterestIsCounted
  <2> SUFFICES ASSUME CountInv PROVE InterestIsCounted
    OBVIOUS
  <2>1. \A d \in Devices : d \in desired <=> Watchers(d) # {}
    BY FiniteWatchers DEF CountInv
  <2>2. desired = UNION {devicesBySession[s] : s \in sessions}
    BY <2>1 DEF Watchers, CountInv
  <2> QED
    BY <2>2 DEF InterestIsCounted, CountInv, Watchers
<1> QED
  BY <1>1, CountInit, CountNext, PTL DEF Spec

-----------------------------------------------------------------------------
(* The reconciliation: an idle loop left nothing to do.  An awaited operation *)
(* belongs to a running loop, so that its answer cannot disturb an idle one.   *)
LoopTypeOK ==
  /\ desired \subseteq Devices /\ applied \subseteq Devices
  /\ loop \in [at : {"idle", "begin", "unsubscribe", "subscribe", "end"},
               todo : SUBSET Devices]
  /\ Awaiting => /\ operation.device \in Devices
                 /\ loop.at \in {"unsubscribe", "subscribe"}

IdleInv == LoopTypeOK /\ IdleIsSettled

LEMMA IdleInit == Init => IdleInv
  BY DEF Init, InitSubscriptions, InitInterest, IdleInv, LoopTypeOK, Idle, IdleIsSettled, Awaiting,
         Running

(* Equal sizes and one inclusion are equality, for finite sets of devices. *)
LEMMA NothingToReconcile ==
  ASSUME desired \subseteq Devices, applied \subseteq Devices, connected, ~needsReconcile
  PROVE  applied = desired
<1>1. desired \in SUBSET applied /\ Cardinality(applied) = Cardinality(desired)
  BY DEF needsReconcile
<1>2. IsFiniteSet(applied)
  BY FS_Subset, DevicesAssumption
<1> QED
  BY <1>1, <1>2, FS_Subset

(* schedule() leaves the loop running. *)
LEMMA ScheduleRuns ==
  ASSUME LoopTypeOK, Schedule
  PROVE  /\ loop'.at # "idle" /\ loop' \in [at : {"idle", "begin", "unsubscribe", "subscribe", "end"},
                                           todo : SUBSET Devices]
         /\ Awaiting => loop' = loop
  BY DEF LoopTypeOK, Schedule, ScheduledLoop, Running, LoopAt

LEMMA IdleNext == CountInv /\ IdleInv /\ [Next]_vars => IdleInv'
<1> SUFFICES ASSUME CountInv, IdleInv, [Next]_vars PROVE IdleInv'
  OBVIOUS
<1>0. LoopTypeOK /\ IdleIsSettled
  BY DEF IdleInv
<1>1. CASE UNCHANGED <<desired, applied, connected, loop, operation, failed>>
  BY <1>0, <1>1 DEF IdleInv, LoopTypeOK, IdleIsSettled, Awaiting, Running
<1>2. ASSUME Schedule, UNCHANGED operation,
             desired' \subseteq Devices, applied' \subseteq Devices
      PROVE  IdleInv'
  BY <1>0, <1>2, ScheduleRuns DEF IdleInv, LoopTypeOK, IdleIsSettled, Awaiting, Running
<1>3. ASSUME NEW devices, NEW interested, SetDesired(devices, interested),
             devices \subseteq Devices, UNCHANGED <<applied, connected, operation>>
      PROVE  IdleInv'
  <2>1. desired' \subseteq Devices
    BY <1>0, <1>3 DEF SetDesired, LoopTypeOK
  <2>2. CASE devices = {}
    <3>1. UNCHANGED <<desired, loop, failed>>
      BY <1>3, <2>2 DEF SetDesired
    <3> QED
      BY <1>1, <1>3, <3>1
  <2>3. CASE devices # {}
    BY <1>0, <1>2, <1>3, <2>1, <2>3 DEF SetDesired, LoopTypeOK
  <2> QED
    BY <2>2, <2>3
<1>4. CASE BeginPass
  BY <1>0, <1>4 DEF BeginPass, LoopAt, IdleInv, LoopTypeOK, IdleIsSettled, Awaiting, Running
<1>5. CASE EndPass
  <2>1. ~Awaiting
    BY <1>0, <1>5 DEF EndPass, LoopTypeOK
  <2>2. UNCHANGED <<desired, applied, connected, operation, failed>>
    BY <1>5 DEF EndPass
  <2>3. CASE AnotherPass
    BY <1>0, <1>5, <2>1, <2>2, <2>3
       DEF EndPass, LoopAt, IdleInv, LoopTypeOK, IdleIsSettled, Awaiting, Running
  <2>4. CASE ~AnotherPass
    <3>1. connected => applied = desired
      BY <1>0, <2>4, NothingToReconcile DEF AnotherPass, LoopTypeOK
    <3> QED
      BY <1>0, <1>5, <2>1, <2>2, <2>4, <3>1
         DEF EndPass, Idle, IdleInv, LoopTypeOK, IdleIsSettled, Awaiting, Running
  <2> QED
    BY <2>3, <2>4
<1>6. CASE NextSnapshot
  BY <1>0, <1>6 DEF NextSnapshot, LoopAt, IdleInv, LoopTypeOK, IdleIsSettled, Awaiting, Running
<1>7. ASSUME NEW d \in Devices, VisitDevice(d) PROVE IdleInv'
  <2>1. operation' = NoOperation \/ operation'.device = d
    BY <1>7 DEF VisitDevice
  <2>2. /\ loop'.at = loop.at /\ loop.at \in {"unsubscribe", "subscribe"}
        /\ loop' \in [at : {"idle", "begin", "unsubscribe", "subscribe", "end"},
                      todo : SUBSET Devices]
    BY <1>0, <1>7 DEF VisitDevice, LoopTypeOK
  <2> QED
    BY <1>0, <1>7, <2>1, <2>2 DEF VisitDevice, IdleInv, LoopTypeOK, IdleIsSettled, Awaiting, Running
<1>8. ASSUME NEW ok \in BOOLEAN, Awaiting, Answered(ok), UNCHANGED <<desired, connected>>
      PROVE  IdleInv'
  <2>1. operation' = NoOperation
    BY <1>8 DEF Answered
  <2>2. CASE ~OfThisConnection
    <3>1. loop' = [at |-> "end", todo |-> {}] /\ UNCHANGED <<applied, failed>>
      BY <1>8, <2>2 DEF Answered, LoopAt
    <3> QED
      BY <1>0, <1>8, <2>1, <3>1 DEF IdleInv, LoopTypeOK, IdleIsSettled, Awaiting, Running
  <2>3. CASE OfThisConnection /\ ok
    BY <1>0, <1>8, <2>1, <2>3
       DEF Answered, TakenEffect, IdleInv, LoopTypeOK, IdleIsSettled, Awaiting, Running
  <2>4. CASE OfThisConnection /\ ~ok
    BY <1>0, <1>8, <2>1, <2>4
       DEF Answered, Idle, IdleInv, LoopTypeOK, IdleIsSettled, Awaiting, Running
  <2> QED
    BY <2>2, <2>3, <2>4
<1>9. CASE AwaitEnds
  BY <1>8, <1>9 DEF AwaitEnds, OperationSucceeds, OperationRefused, OperationTimesOut,
                    OldOperationEnds, OnTheWire
<1>10. CASE ConnectionEvents
  <2>1. ASSUME NEW up, SetConnected(up), UNCHANGED <<desired, operation>> PROVE IdleInv'
    BY <1>0, <1>2, <2>1 DEF SetConnected, LoopTypeOK
  <2> QED
    BY <1>1, <1>10, <2>1 DEF ConnectionEvents, ConnectionUp, BaseTopicsSubscribed,
                             BaseTopicsRefused, ConnectionClosed, ConnectionOffline
<1>11. CASE CatchUp
  BY <1>1, <1>11 DEF CatchUp, BrokerCatchesUp, LateOperation
<1>12. ASSUME NEW s \in Sessions, OpenSession(s) \/ CloseSession(s) PROVE IdleInv'
  <2>1. Abandoned(devicesBySession[s]) \subseteq Devices
    BY DEF Abandoned, CountInv
  <2> QED
    BY <1>1, <1>3, <1>12, <2>1 DEF OpenSession, CloseSession, subscriptionVars
<1>13. ASSUME NEW s \in Sessions, NEW d \in Devices, Subscribe(s, d) \/ Unsubscribe(s, d)
       PROVE  IdleInv'
  <2> DEFINE fresh == IF sessionCountsByDevice[d] = 0 THEN {d} ELSE {}
  <2>1. fresh \subseteq Devices /\ Abandoned({d}) \subseteq Devices
    BY DEF Abandoned
  <2>2. UNCHANGED <<applied, connected, operation>>
    BY <1>13 DEF Subscribe, Unsubscribe
  <2>3. SetDesired(fresh, TRUE) \/ SetDesired(Abandoned({d}), FALSE)
    BY <1>13 DEF Subscribe, Unsubscribe
  <2> HIDE DEF fresh
  <2> QED
    BY <1>3, <2>1, <2>2, <2>3
<1> QED
  BY <1>1, <1>4, <1>5, <1>6, <1>7, <1>9, <1>10, <1>11, <1>12, <1>13
     DEF Next, Reconcile, LoopRuns, BrowserEvents, PostRequest, PublicationEnds, onCommandAck,
         MappingExpires, vars, subscriptionVars

(* An interest that changes while an operation is awaited is never forgotten, *)
(* for any number of devices, sessions and connections: reconcileLoop ends    *)
(* without an error only when the applied set is the desired one.             *)
THEOREM IdleStaysSettled == Spec => []IdleIsSettled
<1>1. IdleInv => IdleIsSettled
  BY DEF IdleInv
<1> QED
  BY <1>1, CountInit, CountNext, IdleInit, IdleNext, PTL DEF Spec
=============================================================================
