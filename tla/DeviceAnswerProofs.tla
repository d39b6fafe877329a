-------------------------- MODULE DeviceAnswerProofs --------------------------
(***************************************************************************)
(* What the business thread waits for is answered, what it counts is       *)
(* exact, and no change of a device is lost on the way to the tables, for  *)
(* every number of devices, revisions and outages.                         *)
(*                                                                         *)
(* The theorems name what they assume of the environment: that devices     *)
(* carry no labels (NoLabels), that no reconnection finds a foreign schema *)
(* (NoMigration), that commands meet no outage (NoCommandOutage).  Without *)
(* them the code does not keep the promise; the README tells how.          *)
(***************************************************************************)
EXTENDS DeviceStorageProofs, FiniteSetTheorems

NoLabels == Labels = {}
NoMigration == "migration" \notin DeviceFaults
NoCommandOutage == "command" \notin DeviceFaults

-------------------------------------------------------------------------------
(* Candidates *)

(* A candidate is not in the registry, and the loop that submits them only *)
(* visits candidates that were not submitted.                              *)
NewcomerInv == \A d \in Devices : pend[d] # NotPending => d \notin known
VisitInv == pc = "provision" => \A d \in todo : pend[d] # NotPending /\ ~pend[d].sent
CandidatesInv == NewcomerInv /\ VisitInv

LEMMA NotPendingFields == NotPending \in PendingState /\ NotPending.sent = FALSE
  BY DEF NotPending, PendingState

LEMMA MarkNeedsCandidate ==
  ASSUME DataTypes, CandidatesInv, HandleProvisioned
  PROVE  CandidatesInv'
  <1> DEFINE d == Head(results).dev
  <1>1. pc' # "provision"
    BY NextResultTypes DEF HandleProvisioned
  <1>2. CASE UNCHANGED <<known, pend>>
    BY <1>1, <1>2 DEF CandidatesInv, NewcomerInv, VisitInv
  <1>3. CASE d \in Pending /\ known' = known \cup {d} /\ pend' = [pend EXCEPT ![d] = NotPending]
    <2>1. d \in Devices /\ pend'[d] = NotPending /\ \A e \in Devices \ {d} : pend'[e] = pend[e]
      BY <1>3 DEF Pending, DataTypes, ServiceTypes
    <2> QED BY <1>1, <1>3, <2>1 DEF CandidatesInv, NewcomerInv, VisitInv
  <1> QED BY <1>2, <1>3 DEF HandleProvisioned, registryVars

LEMMA CandidatesNext ==
  ASSUME DeviceTypes, CandidatesInv, [Next]_deviceVars
  PROVE  CandidatesInv'
  <1> USE DEF registryVars, serviceVars, workerVars, threadVars
  <1>1. DataTypes /\ PositionTypes
    BY DEF DeviceTypes
  <1>2. CASE UNCHANGED <<known, pend, pc, todo>>
    BY <1>2 DEF CandidatesInv, NewcomerInv, VisitInv
  <1>3. CASE HandleUnavailable \/ HandlePermanentFailure
    <2>1. known' = known /\ pc' # "provision" /\ \A d \in Devices : pend'[d] \in {pend[d], NotPending}
      BY <1>1, <1>3, NextResultTypes
         DEF HandleUnavailable, HandlePermanentFailure, CandidatesAfterOutage
    <2> QED BY <2>1 DEF CandidatesInv, NewcomerInv, VisitInv
  <1>4. CASE HandleRecovered \/ HandleWriteCompleted
    BY <1>1, <1>2, <1>4, NextResultTypes DEF HandleRecovered, HandleWriteCompleted
  <1>5. CASE HandleProvisioned
    BY <1>1, <1>5, MarkNeedsCandidate
  <1>6. CASE LeaveResults
    <2>1. known' = known /\ pc' = "messages"
      BY <1>6 DEF LeaveResults
    <2>2. \A d \in Devices : pend'[d] # NotPending => pend[d] # NotPending
      <3>1. [NotPending EXCEPT !.sent = FALSE] = NotPending
        <4> DEFINE q == [NotPending EXCEPT !.sent = FALSE]
        <4>1. q \in PendingState /\ q.reg = NotPending.reg /\ q.sent = FALSE
          BY SentField, NotPendingFields
        <4> HIDE DEF q
        <4>2. q = [reg |-> q.reg, sent |-> q.sent]
          BY <4>1 DEF PendingState
        <4>3. q = NotPending
          BY <4>1, <4>2 DEF NotPending
        <4> QED BY <4>3 DEF q
      <3>2. ASSUME NEW d \in Devices, pend[d] = NotPending PROVE pend'[d] = NotPending
        BY <1>6, <3>1, <3>2 DEF LeaveResults
      <3> QED BY <3>2
    <2> QED BY <2>1, <2>2 DEF CandidatesInv, NewcomerInv, VisitInv
  <1>7. ASSUME NEW d \in Devices, NEW reg \in Registration, HandleRegistration(d, reg)
        PROVE  CandidatesInv'
    <2>1. known' = known /\ pc' # "provision"
      BY <1>7 DEF HandleRegistration, AtMessages
    <2>2. pend' = pend \/ (d \notin known /\ \A e \in Devices \ {d} : pend'[e] = pend[e])
      BY <1>1, <1>7 DEF HandleRegistration, DataTypes, ServiceTypes
    <2> QED BY <2>1, <2>2 DEF CandidatesInv, NewcomerInv, VisitInv
  <1>8. ASSUME NEW d \in Devices, NEW l \in LabelOrNone, HandleTelemetry(d, l)
        PROVE  CandidatesInv'
    BY <1>2, <1>8 DEF HandleTelemetry, AtMessages
  <1>9. CASE LeaveMessages
    <2>1. UNCHANGED <<known, pend>> /\ \A d \in todo' : d \in Pending /\ ~pend[d].sent
      BY <1>9 DEF LeaveMessages, SentCandidates, Pending
    <2> QED BY <2>1 DEF CandidatesInv, NewcomerInv, VisitInv, Pending
  <1>10. ASSUME NEW d \in Devices, SubmitCandidate(d)
         PROVE  CandidatesInv'
    <2>1. known' = known /\ pc = "provision" /\ d \in todo /\ todo' = todo \ {d}
      BY <1>10 DEF SubmitCandidate
    <2>2. pend[d] # NotPending /\ \A e \in Devices \ {d} : pend'[e] = pend[e]
      BY <1>1, <1>10, <2>1 DEF SubmitCandidate, CandidatesInv, VisitInv, DataTypes, ServiceTypes
    <2>3. todo \subseteq Devices
      BY <1>1 DEF DataTypes, ServiceTypes
    <2> QED BY <2>1, <2>2, <2>3 DEF CandidatesInv, NewcomerInv, VisitInv
  <1>11. CASE \/ EndRound \/ CheckInput \/ DecideToLeave
              \/ \E d \in Devices : DispatchWrite(d) \/ NotYetDue(d)
              \/ \E S \in SUBSET Devices : ExpireInactive(S)
    <2>1. UNCHANGED <<known, pend>>
      BY <1>11 DEF EndRound, CheckInput, DecideToLeave, DispatchWrite, NotYetDue, ExpireInactive
    <2>2. pc' # "provision"
      BY <1>1, <1>11 DEF EndRound, CheckInput, DecideToLeave, DispatchWrite, NotYetDue,
                         ExpireInactive, PositionTypes
    <2> QED BY <2>1, <2>2 DEF CandidatesInv, NewcomerInv, VisitInv
  <1>12. CASE DatabaseThread
    BY <1>2, <1>12 DEF DatabaseThread, Emit
  <1>13. CASE MainThread
    BY <1>2, <1>13, MainThreadUnchanged
  <1>14. CASE UNCHANGED deviceVars
    BY <1>2, <1>14, StutterUnchanged
  <1> QED BY <1>3, <1>4, <1>5, <1>6, <1>7, <1>8, <1>9, <1>10, <1>11, <1>12, <1>13, <1>14
          DEF Next, BusinessThread

LEMMA CandidatesHold == Spec => []CandidatesInv
  <1>1. Init => CandidatesInv
    BY DEF Init, CandidatesInv, NewcomerInv, VisitInv
  <1>2. DeviceTypes /\ CandidatesInv /\ [Next]_deviceVars => CandidatesInv'
    BY CandidatesNext
  <1> QED BY <1>1, <1>2, DeviceTypesHold, PTL DEF Spec

-------------------------------------------------------------------------------
(* The counter of outstanding work *)

Exact == outstanding = Cardinality(SentCandidates) + Cardinality(Submitted)

LEMMA CountSubset ==
  ASSUME NEW S \in SUBSET Devices
  PROVE  IsFiniteSet(S) /\ Cardinality(S) \in Nat
  BY FiniteDevices, FS_Subset, FS_CardinalityType

LEMMA CountRemoved ==
  ASSUME NEW S \in SUBSET Devices, NEW T
  PROVE  Cardinality(S \ T) = Cardinality(S) - Cardinality(S \cap T)
  BY CountSubset, FS_Difference

LEMMA CountAdded ==
  ASSUME NEW S \in SUBSET Devices, NEW T \in SUBSET Devices
  PROVE  Cardinality(S \cup T) = Cardinality(S) + Cardinality(T \ S)
  <1>1. Cardinality(S \cup T) = Cardinality(S) + Cardinality(T) - Cardinality(S \cap T)
    BY CountSubset, FS_Union
  <1>2. Cardinality(T \ S) = Cardinality(T) - Cardinality(T \cap S)
    BY CountRemoved
  <1>3. T \cap S = S \cap T
    OBVIOUS
  <1>4. /\ Cardinality(S) \in Nat /\ Cardinality(T) \in Nat /\ Cardinality(S \cap T) \in Nat
        /\ Cardinality(S \cup T) \in Int /\ Cardinality(T \ S) \in Int
    BY CountSubset
  <1> QED BY <1>1, <1>2, <1>3, <1>4

LEMMA CountOne ==
  ASSUME NEW S \in SUBSET Devices, NEW d
  PROVE  /\ d \in S => Cardinality(S \ {d}) = Cardinality(S) - 1
         /\ d \notin S => Cardinality(S \cup {d}) = Cardinality(S) + 1
  BY CountSubset, FS_RemoveElement, FS_AddElement

LEMMA WaitingSets ==
  /\ SentCandidates \subseteq Devices /\ Submitted \subseteq Devices
  /\ Cardinality(SentCandidates) \in Nat /\ Cardinality(Submitted) \in Nat
  <1>1. SentCandidates \subseteq Devices /\ Submitted \subseteq Devices
    BY DEF SentCandidates, Submitted
  <1> QED BY <1>1, CountSubset

(* Submitting adds the devices to those that wait for an answer. *)
LEMMA SubmitCounts ==
  ASSUME DataTypes, NEW S \in SUBSET Devices, NEW w, \A d \in S : w[d].groups # {},
         NEW entry, SubmitWrites(S, w, entry), pend' = pend, Exact
  PROVE  Exact'
  <1>3. SentCandidates' = SentCandidates
    BY DEF SentCandidates
  <1>1. CASE /\ submitted' = [d \in Devices |-> IF d \in S THEN w[d] ELSE submitted[d]]
             /\ outstanding' = outstanding + Cardinality(NewlySubmitted(S))
    <2>1. \A d \in S : w[d] # NoWrite
      BY DEF NoWrite
    <2>2. Submitted' = Submitted \cup S
      BY <1>1, <2>1 DEF Submitted
    <2>3. Cardinality(Submitted') = Cardinality(Submitted) + Cardinality(S \ Submitted)
      BY <2>2, WaitingSets, CountAdded
    <2>4. Cardinality(S \ Submitted) \in Nat
      BY CountSubset
    <2> QED BY <1>3, <1>1, <2>3, <2>4, WaitingSets DEF NewlySubmitted, Exact
  <1>2. CASE UNCHANGED <<submitted, outstanding>>
    <2>1. Submitted' = Submitted
      BY <1>2 DEF Submitted
    <2> QED BY <1>3, <1>2, <2>1 DEF Exact
  <1> QED BY <1>1, <1>2 DEF SubmitWrites

LEMMA ExactUnchanged ==
  ASSUME Exact, UNCHANGED <<pend, submitted, outstanding>>
  PROVE  Exact'
  BY DEF Exact, SentCandidates, Submitted

LEMMA FailureCounts ==
  ASSUME DataTypes, Exact, NEW F,
         pend' = [d \in Devices |-> IF d \in F THEN NotPending ELSE pend[d]],
         submitted' = [d \in Devices |-> IF d \in F THEN NoWrite ELSE submitted[d]],
         outstanding' = outstanding - Cardinality(SentCandidates \cap F)
                                    - Cardinality(Submitted \cap F)
  PROVE  Exact'
  <1>1. SentCandidates' = SentCandidates \ F
    BY NotPendingFields DEF SentCandidates
  <1>2. Submitted' = Submitted \ F
    BY DEF Submitted
  <1>3. /\ Cardinality(SentCandidates \ F) = Cardinality(SentCandidates)
                                              - Cardinality(SentCandidates \cap F)
        /\ Cardinality(Submitted \ F) = Cardinality(Submitted) - Cardinality(Submitted \cap F)
    BY WaitingSets, CountRemoved
  <1>4. Cardinality(SentCandidates \cap F) \in Nat /\ Cardinality(Submitted \cap F) \in Nat
    BY WaitingSets, CountSubset
  <1> QED BY <1>1, <1>2, <1>3, <1>4, WaitingSets DEF Exact

LEMMA UnavailableCounts ==
  ASSUME DataTypes, Exact, HandleUnavailable
  PROVE  Exact'
  <1>1. SentCandidates' = {}
    BY NotPendingFields DEF HandleUnavailable, CandidatesAfterOutage, SentCandidates
  <1>2. Submitted' = Submitted /\ outstanding' = outstanding - Cardinality(SentCandidates)
    BY DEF HandleUnavailable, OutstandingCandidates, Submitted
  <1> QED BY <1>1, <1>2, WaitingSets, FS_EmptySet DEF Exact

(* A provisioned candidate leaves the candidates: without labels the       *)
(* registry always takes it.                                               *)
LEMMA ProvisionedCounts ==
  ASSUME NoLabels, DataTypes, CandidatesInv, Exact, HandleProvisioned
  PROVE  Exact'
  <1> DEFINE r == Head(results)
             d == r.dev
  <1>1. Submitted' = Submitted
    BY DEF HandleProvisioned, Submitted
  <1>2. r.record.label = NoLabel
    BY NextResultTypes DEF HandleProvisioned, NoLabels, Result, Record, LabelOrNone
  <1>3. CASE d \notin Pending
    BY <1>3, ExactUnchanged DEF HandleProvisioned
  <1>4. CASE d \in Pending
    <2>1. CanAdd(d, r.record)
      BY <1>2, <1>4 DEF CanAdd, Pending, CandidatesInv, NewcomerInv
    <2>2. /\ pend' = [pend EXCEPT ![d] = NotPending]
          /\ outstanding' = outstanding - (IF pend[d].sent THEN 1 ELSE 0)
      BY <1>4, <2>1 DEF HandleProvisioned
    <2>3. d \in Devices
      BY <1>4 DEF Pending
    <2>4. SentCandidates' = SentCandidates \ {d}
      BY <2>2, <2>3, NotPendingFields DEF SentCandidates, DataTypes, ServiceTypes
    <2>5. CASE pend[d].sent
      <3>1. d \in SentCandidates
        BY <2>3, <2>5 DEF SentCandidates
      <3>2. Cardinality(SentCandidates') = Cardinality(SentCandidates) - 1
        BY <2>4, <3>1, WaitingSets, CountOne
      <3>3. outstanding' = outstanding - 1
        BY <2>2, <2>5
      <3> QED BY <1>1, <3>2, <3>3, WaitingSets DEF Exact
    <2>6. CASE ~pend[d].sent
      <3>1. SentCandidates' = SentCandidates
        BY <2>4, <2>6 DEF SentCandidates
      <3>2. outstanding' = outstanding - 0
        BY <2>2, <2>6
      <3> QED BY <1>1, <3>1, <3>2, WaitingSets DEF Exact
    <2> QED BY <2>5, <2>6
  <1> QED BY <1>3, <1>4

LEMMA CompletedCounts ==
  ASSUME DataTypes, Exact, HandleWriteCompleted
  PROVE  Exact'
  <1> DEFINE d == Head(results).dev
  <1>1. CASE UNCHANGED <<submitted, outstanding>>
    BY <1>1, ExactUnchanged DEF HandleWriteCompleted
  <1>2. CASE d \in Submitted /\ submitted' = [submitted EXCEPT ![d] = NoWrite]
             /\ outstanding' = outstanding - 1
    <2>1. Submitted' = Submitted \ {d}
      BY <1>2 DEF Submitted, DataTypes, ServiceTypes
    <2>2. Cardinality(Submitted') = Cardinality(Submitted) - 1
      BY <1>2, <2>1, WaitingSets, CountOne
    <2>3. SentCandidates' = SentCandidates
      BY DEF HandleWriteCompleted, SentCandidates
    <2> QED BY <1>2, <2>2, <2>3, WaitingSets DEF Exact
  <1> QED BY <1>1, <1>2 DEF HandleWriteCompleted

LEMMA CancelledCounts ==
  ASSUME DataTypes, Exact, LeaveResults
  PROVE  Exact'
  <1>1. CASE UNCHANGED <<pend, submitted, outstanding>>
    BY <1>1, ExactUnchanged
  <1>2. CASE /\ pend' = [d \in Devices |-> [pend[d] EXCEPT !.sent = FALSE]]
             /\ submitted' = [d \in Devices |-> NoWrite] /\ outstanding' = 0
    <2>1. Submitted' = {}
      BY <1>2 DEF Submitted
    <2>2. \A d \in Devices : [pend[d] EXCEPT !.sent = FALSE].sent = FALSE
      BY SentField DEF DataTypes, ServiceTypes
    <2>3. \A d \in Devices : pend'[d].sent = FALSE
      BY <1>2, <2>2
    <2>4. SentCandidates' = {}
      BY <2>3 DEF SentCandidates
    <2> QED BY <1>2, <2>1, <2>4, FS_EmptySet DEF Exact
  <1> QED BY <1>1, <1>2 DEF LeaveResults

LEMMA RegistrationCounts ==
  ASSUME DataTypes, Exact, NEW d \in Devices, NEW reg \in Registration,
         HandleRegistration(d, reg)
  PROVE  Exact'
  <1>1. UNCHANGED <<submitted, outstanding>>
    BY DEF HandleRegistration, AtMessages
  <1>2. SentCandidates' = SentCandidates
    <2> DEFINE q == [pend[d] EXCEPT !.reg = reg]
    <2>1. q.sent = pend[d].sent
      BY DEF DataTypes, ServiceTypes, PendingState
    <2>2. pend' = pend \/ pend' = [pend EXCEPT ![d] = q]
      BY DEF HandleRegistration
    <2> HIDE DEF q
    <2>3. \A e \in Devices : pend'[e] = pend[e] \/ (e = d /\ pend'[e] = q)
      BY <2>2 DEF DataTypes, ServiceTypes
    <2> QED BY <2>1, <2>3 DEF SentCandidates
  <1> QED BY <1>1, <1>2 DEF Exact, Submitted

LEMMA CandidateCounts ==
  ASSUME DataTypes, CandidatesInv, Exact, NEW d \in Devices, SubmitCandidate(d)
  PROVE  Exact'
  <1>1. Submitted' = Submitted
    BY DEF SubmitCandidate, Submitted
  <1>2. CASE UNCHANGED <<pend, outstanding>>
    BY <1>1, <1>2 DEF Exact, SentCandidates
  <1>3. CASE pend' = [pend EXCEPT ![d].sent = TRUE] /\ outstanding' = outstanding + 1
    <2>1. ~pend[d].sent /\ pend[d] \in PendingState
      BY DEF SubmitCandidate, CandidatesInv, VisitInv, DataTypes, ServiceTypes
    <2>2. pend' = [pend EXCEPT ![d] = [pend[d] EXCEPT !.sent = TRUE]]
      BY <1>3
    <2>3. [pend[d] EXCEPT !.sent = TRUE].sent = TRUE
      BY <2>1, SentField
    <2>4. pend'[d].sent = TRUE /\ \A e \in Devices \ {d} : pend'[e] = pend[e]
      BY <2>2, <2>3 DEF DataTypes, ServiceTypes
    <2>5. SentCandidates' = SentCandidates \cup {d} /\ d \notin SentCandidates
      BY <2>1, <2>4 DEF SentCandidates
    <2>6. Cardinality(SentCandidates') = Cardinality(SentCandidates) + 1
      BY <2>5, WaitingSets, CountOne
    <2> QED BY <1>1, <1>3, <2>6, WaitingSets DEF Exact
  <1> QED BY <1>2, <1>3 DEF SubmitCandidate

LEMMA ExactNext ==
  ASSUME NoLabels, DeviceTypes, StorageInv, CandidatesInv, Exact, [Next]_deviceVars
  PROVE  Exact'
  <1> USE DEF registryVars, serviceVars, workerVars, threadVars
  <1>1. DataTypes
    BY DEF DeviceTypes
  <1>2. CASE UNCHANGED <<pend, submitted, outstanding>>
    BY <1>2, ExactUnchanged
  <1>3. CASE HandlePermanentFailure
    BY <1>1, <1>3, FailureCounts DEF HandlePermanentFailure
  <1>4. CASE HandleRecovered
    <2> DEFINE S == {d \in known : degraded[d] # 0}
               w == [d \in Devices |-> RecoveryWrite(d)]
    <2>1. S \in SUBSET Devices /\ \A d \in S : w[d].groups # {}
      BY <1>1, RecoveryWriteIsWrite DEF DataTypes, RegistryTypes
    <2>2. SubmitWrites(S, w, ent) /\ pend' = pend
      BY <1>4 DEF HandleRecovered
    <2> HIDE DEF S, w
    <2> QED BY <1>1, <2>1, <2>2, SubmitCounts
  <1>5. ASSUME NEW d \in Devices, DispatchWrite(d)
        PROVE  Exact'
    <2> DEFINE S == {d}
               w == [e \in {d} |-> TakenWrite(ent[d])]
               entry == [ent EXCEPT ![d] = AfterTake(@)]
    <2>1. HasDirty(ent[d])
      BY <1>5 DEF DispatchWrite, StorageInv, TodoInv
    <2>2. TakenWrite(ent[d]).groups # {}
      BY <2>1 DEF TakenWrite, HasDirty
    <2>3. S \in SUBSET Devices /\ \A e \in S : w[e].groups # {}
      BY <2>2
    <2>4. SubmitWrites(S, w, entry) /\ pend' = pend
      BY <1>5 DEF DispatchWrite
    <2> HIDE DEF S, w, entry
    <2> QED BY <1>1, <2>3, <2>4, SubmitCounts
  <1>6. CASE \/ LeaveMessages \/ EndRound \/ CheckInput \/ DecideToLeave
             \/ \E d \in Devices : \/ NotYetDue(d)
                                   \/ \E l \in LabelOrNone : HandleTelemetry(d, l)
             \/ \E S \in SUBSET Devices : ExpireInactive(S)
    <2>1. UNCHANGED <<pend, submitted, outstanding>>
      BY <1>6 DEF LeaveMessages, EndRound, CheckInput, DecideToLeave, NotYetDue,
                  HandleTelemetry, AtMessages, ExpireInactive
    <2> QED BY <1>2, <2>1
  <1>7. CASE BusinessThread
    BY <1>1, <1>3, <1>4, <1>5, <1>6, <1>7, UnavailableCounts, ProvisionedCounts, CompletedCounts,
       CancelledCounts, RegistrationCounts, CandidateCounts
    DEF BusinessThread
  <1>8. CASE DatabaseThread
    BY <1>2, <1>8 DEF DatabaseThread, Emit
  <1>9. CASE MainThread
    BY <1>2, <1>9, MainThreadUnchanged
  <1>10. CASE UNCHANGED deviceVars
    BY <1>2, <1>10, StutterUnchanged
  <1> QED BY <1>7, <1>8, <1>9, <1>10 DEF Next

LEMMA ExactHolds == NoLabels => (Spec => []Exact)
  <1> SUFFICES ASSUME NoLabels PROVE Spec => []Exact
    OBVIOUS
  <1>1. Init => Exact
    <2> SUFFICES ASSUME Init PROVE Exact
      OBVIOUS
    <2>1. SentCandidates = {} /\ Submitted = {}
      BY NotPendingFields DEF Init, SentCandidates, Submitted
    <2> QED BY <2>1, FS_EmptySet DEF Init, Exact
  <1>2. DeviceTypes /\ StorageInv /\ CandidatesInv /\ Exact /\ [Next]_deviceVars => Exact'
    BY ExactNext
  <1> QED BY <1>1, <1>2, DeviceTypesHold, StorageOrdered, CandidatesHold, PTL DEF Spec

(* The counter the drain waits for counts exactly the candidates and the   *)
(* writes that are not answered, in every order of results, outages,       *)
(* failures and cancellations (AdjustOutstandingDatabaseWork).             *)
THEOREM CounterIsExact == NoLabels => (Spec => []OutstandingIsExact)
  <1>1. Exact => OutstandingIsExact
    BY DEF Exact, OutstandingIsExact
  <1> QED BY <1>1, ExactHolds, PTL

(* Every variable has its type; in particular the unsigned counter of      *)
(* outstanding work never passes zero.                                     *)
THEOREM DeviceTypeCorrect == NoLabels => (Spec => []DeviceTypeOK)
  <1>1. DeviceTypes /\ Exact => DeviceTypeOK
    <2> SUFFICES ASSUME DeviceTypes, Exact PROVE DeviceTypeOK
      OBVIOUS
    <2>1. outstanding \in Nat
      BY WaitingSets DEF Exact
    <2>2. <<unavailable, accepting, draining, stopped>> \in BOOLEAN \X BOOLEAN \X BOOLEAN \X BOOLEAN
      BY DEF DeviceTypes, FlagTypes
    <2>3. <<noResults, closed, inputDrained, drainPending, blocked, cancel, stopRequested>>
            \in BOOLEAN \X BOOLEAN \X BOOLEAN \X BOOLEAN \X BOOLEAN \X BOOLEAN \X BOOLEAN
      BY DEF DeviceTypes, FlagTypes
    <2>4. dbUnavailable \in BOOLEAN
      BY DEF DeviceTypes, FlagTypes
    <2> QED BY <2>1, <2>2, <2>3, <2>4
            DEF DeviceTypes, PositionTypes, DataTypes, RegistryTypes, TaskTypes, ServiceTypes,
                DeviceTypeOK
  <1> QED BY <1>1, DeviceTypesHold, ExactHolds, PTL

-------------------------------------------------------------------------------
(* Results on the way to the business thread *)

Flight == {emit} \cup {results[i] : i \in 1 .. Len(results)}

(* A task is executed while nothing waits to be handed over, and by a      *)
(* thread that has not ended.                                              *)
TaskInv ==
    /\ exec.kind \in {"provision", "write"} => emit = NoResult
    /\ stopped => exec = Idle /\ emit = NoResult
    /\ NoMigration => exec.kind # "give up"

LEMMA ResultTakenOff ==
  ASSUME DataTypes, NEW kind, NextResult(kind)
  PROVE  /\ Head(results) \in Result /\ Head(results).kind = kind
         /\ \A r \in Flight : r = Head(results) \/ r \in Flight'
  <1>1. /\ results \in Seq(Result) /\ results # <<>> /\ results' = Tail(results) /\ emit' = emit
        /\ Head(results).kind = kind
    BY DEF DataTypes, TaskTypes, NextResult
  <1>2. \A i \in 1 .. Len(results) : i = 1 \/ /\ i - 1 \in 1 .. Len(results')
                                              /\ results'[i - 1] = results[i]
    BY <1>1
  <1>3. Head(results) = results[1] /\ Head(results) \in Result
    BY <1>1
  <1>4. \A i \in 1 .. Len(results) : results[i] = Head(results)
                                     \/ \E j \in 1 .. Len(results') : results'[j] = results[i]
    BY <1>2, <1>3
  <1>5. ASSUME NEW r \in Flight
        PROVE  r = Head(results) \/ r \in Flight'
    <2>1. CASE r = emit
      BY <1>1, <2>1 DEF Flight
    <2>2. CASE \E i \in 1 .. Len(results) : r = results[i]
      BY <1>4, <2>2 DEF Flight
    <2> QED BY <2>1, <2>2 DEF Flight
  <1> QED BY <1>1, <1>3, <1>5

LEMMA FlightKept ==
  ASSUME results' = results, emit = NoResult \/ emit' = emit
  PROVE  \A r \in Flight : r.kind = "none" \/ r \in Flight'
  BY DEF Flight, NoResult, ResultOf

LEMMA FlightEmitted ==
  ASSUME DataTypes, Emit
  PROVE  \A r \in Flight : r \in Flight'
  <1>1. results \in Seq(Result) /\ emit \in Result /\ results' = Append(results, emit)
    BY DEF DataTypes, TaskTypes, Emit
  <1>2. /\ results'[Len(results) + 1] = emit /\ Len(results) + 1 \in 1 .. Len(results')
        /\ \A i \in 1 .. Len(results) : i \in 1 .. Len(results') /\ results'[i] = results[i]
    BY <1>1
  <1> QED BY <1>2 DEF Flight

LEMMA TaskNext ==
  ASSUME DeviceTypes, TaskInv, [Next]_deviceVars
  PROVE  TaskInv'
  <1> USE DEF registryVars, serviceVars, workerVars, threadVars
  <1>1. DataTypes
    BY DEF DeviceTypes
  <1>2. CASE UNCHANGED <<exec, emit, stopped>>
    BY <1>2 DEF TaskInv
  <1>3. CASE BusinessThread
    <2>1. UNCHANGED <<exec, emit, stopped>>
      BY <1>3 DEF BusinessThread, HandleUnavailable, HandlePermanentFailure, HandleRecovered,
         HandleProvisioned, HandleWriteCompleted, NextResult, LeaveResults, HandleRegistration,
         HandleTelemetry, AtMessages, SubmitCandidate, DispatchWrite, NotYetDue, LeaveMessages,
         ExpireInactive, EndRound, CheckInput, DecideToLeave
    <2> QED BY <1>2, <2>1
  <1>4. CASE DatabaseThread
    <2>1. CASE Emit
      BY <2>1 DEF Emit, TaskInv
    <2>2. CASE \E d \in Devices : TakeProvision(d) \/ TakeWrite(d)
      <3>1. emit' = NoResult /\ ~stopped /\ stopped' = stopped
        BY <2>2 DEF TakeProvision, TakeWrite, AtLoop
      <3>2. exec'.kind \in {"provision", "write"}
        BY <2>2, IdleType DEF TakeProvision, TakeWrite, Idle
      <3> QED BY <3>1, <3>2 DEF TaskInv
    <2>3. CASE Provision \/ WriteState \/ LoseConnection
      <3>1. exec' = Idle /\ stopped' = stopped
        BY <2>3 DEF Provision, WriteState, LoseConnection
      <3>2. ~stopped
        BY <2>3, IdleType DEF Provision, WriteState, LoseConnection, TaskInv
      <3> QED BY <3>1, <3>2, IdleType DEF TaskInv
    <2>4. CASE CommandLosesConnection \/ Reconnect
      <3>1. exec' = Idle /\ ~stopped /\ stopped' = stopped
        BY <2>4 DEF CommandLosesConnection, Reconnect, AtLoop
      <3> QED BY <3>1, IdleType DEF TaskInv
    <2>5. CASE MigrationMismatch
      <3>1. exec'.kind = "give up" /\ ~NoMigration /\ ~stopped /\ stopped' = stopped
        BY <2>5 DEF MigrationMismatch, Idle, NoMigration, AtLoop
      <3> QED BY <3>1 DEF TaskInv
    <2>6. CASE GiveUp \/ Finish(stopRequested)
      <3>1. exec' = Idle /\ emit' = NoResult
        BY <2>6 DEF GiveUp, Finish, AtLoop
      <3> QED BY <3>1, IdleType DEF TaskInv
    <2> QED BY <1>4, <2>1, <2>2, <2>3, <2>4, <2>5, <2>6 DEF DatabaseThread
  <1>5. CASE MainThread
    BY <1>2, <1>5, MainThreadUnchanged
  <1>6. CASE UNCHANGED deviceVars
    BY <1>2, <1>6, StutterUnchanged
  <1> QED BY <1>3, <1>4, <1>5, <1>6 DEF Next

LEMMA TaskHolds == Spec => []TaskInv
  <1>1. Init => TaskInv
    BY IdleType DEF Init, TaskInv
  <1>2. DeviceTypes /\ TaskInv /\ [Next]_deviceVars => TaskInv'
    BY TaskNext
  <1> QED BY <1>1, <1>2, DeviceTypesHold, PTL DEF Spec

-------------------------------------------------------------------------------
(* Submitted writes *)

(* WriteIsAnswered, where only an executing write counts as such *)
Answered(d) ==
    \/ writes[d].groups # {} /\ writes[d].record.rev >= submitted[d].record.rev
    \/ exec.kind = "write" /\ exec.dev = d /\ exec.write.record.rev >= submitted[d].record.rev
    \/ \E r \in Flight : r.kind = "completed" /\ r.dev = d /\ r.rev >= submitted[d].record.rev
    \/ \E r \in Flight : r.kind = "permanent" /\ r.dev \in {d, NoDevice}
AnswerInv == \A d \in Devices : submitted[d] # NoWrite => Answered(d)

LEMMA MergeIsNewer ==
  ASSUME NEW v \in Write, NEW w \in Write
  PROVE  /\ MergeWrite(v, w).record.rev >= w.record.rev
         /\ v.groups # {} => MergeWrite(v, w).record.rev >= v.record.rev
  <1>1. v.record.rev \in Nat /\ w.record.rev \in Nat
    BY DEF Write, Record
  <1>2. CASE v.groups = {}
    BY <1>1, <1>2 DEF MergeWrite
  <1>3. CASE v.groups # {}
    BY <1>1, <1>3 DEF MergeWrite
  <1> QED BY <1>2, <1>3

(* The tasks and results about a device's write stay. *)
LEMMA AnswerKept ==
  ASSUME NEW d \in Devices, Answered(d), submitted'[d] = submitted[d],
         writes'[d] = writes[d], exec' = exec \/ exec.kind # "write",
         \A r \in Flight : r.kind \in {"completed", "permanent"} => r \in Flight'
  PROVE  Answered(d)'
  BY DEF Answered

LEMMA SubmittedIsAnswered ==
  ASSUME DataTypes, AnswerInv, NEW S \in SUBSET Devices, NEW w,
         \A d \in S : w[d] \in Write /\ w[d].groups # {},
         NEW entry, SubmitWrites(S, w, entry), exec' = exec,
         \A r \in Flight : r.kind \in {"completed", "permanent"} => r \in Flight'
  PROVE  AnswerInv'
  <1> SUFFICES ASSUME NEW d \in Devices, submitted'[d] # NoWrite
               PROVE  Answered(d)'
    BY DEF AnswerInv
  <1>1. CASE d \in S /\ writes'[d] = MergeWrite(writes[d], w[d]) /\ submitted'[d] = w[d]
    <2>1. writes[d] \in Write /\ w[d] \in Write /\ w[d].groups # {}
      BY <1>1, RecordsHaveVersions
    <2>2. /\ MergeWrite(writes[d], w[d]).groups = writes[d].groups \cup w[d].groups
          /\ MergeWrite(writes[d], w[d]).record.rev >= w[d].record.rev
      BY <2>1, MergeTakesOne, MergeIsNewer
    <2> QED BY <1>1, <2>1, <2>2 DEF Answered
  <1>2. CASE writes'[d] = writes[d] /\ submitted'[d] = submitted[d]
    BY <1>2, AnswerKept DEF AnswerInv
  <1> QED BY <1>1, <1>2 DEF SubmitWrites

LEMMA ResultsAnswer ==
  ASSUME DataTypes, AnswerInv,
         \/ HandleUnavailable \/ HandlePermanentFailure \/ HandleRecovered
         \/ HandleProvisioned \/ HandleWriteCompleted
  PROVE  AnswerInv'
  <1> DEFINE r == Head(results)
  <1>1. CASE HandleUnavailable \/ HandleProvisioned
    <2>1. /\ UNCHANGED <<submitted, writes, exec>>
          /\ \A q \in Flight : q.kind \in {"completed", "permanent"} => q \in Flight'
      BY <1>1, ResultTakenOff DEF HandleUnavailable, HandleProvisioned, NextResult
    <2> QED BY <2>1, AnswerKept DEF AnswerInv
  <1>2. CASE HandlePermanentFailure
    <2>1. /\ UNCHANGED <<writes, exec>> /\ r \in Result /\ r.kind = "permanent"
          /\ \A q \in Flight : q = r \/ q \in Flight'
      BY <1>2, ResultTakenOff DEF HandlePermanentFailure, NextResult
    <2> SUFFICES ASSUME NEW d \in Devices, submitted'[d] # NoWrite
                 PROVE  Answered(d)'
      BY DEF AnswerInv
    <2>2. submitted'[d] = submitted[d] /\ r.dev \notin {d, NoDevice}
      BY <1>2 DEF HandlePermanentFailure
    <2>3. Answered(d)
      BY <2>2 DEF AnswerInv
    <2> HIDE DEF r
    <2> QED BY <2>1, <2>2, <2>3 DEF Answered
  <1>3. CASE HandleRecovered
    <2> DEFINE S == {d \in known : degraded[d] # 0}
               w == [d \in Devices |-> RecoveryWrite(d)]
    <2>1. S \in SUBSET Devices /\ \A d \in S : w[d] \in Write /\ w[d].groups # {}
      BY RecoveryWriteIsWrite DEF DataTypes, RegistryTypes
    <2>2. SubmitWrites(S, w, ent) /\ exec' = exec
      BY <1>3 DEF HandleRecovered, NextResult
    <2>3. \A q \in Flight : q.kind \in {"completed", "permanent"} => q \in Flight'
      BY <1>3, ResultTakenOff DEF HandleRecovered
    <2> HIDE DEF S, w
    <2> QED BY <2>1, <2>2, <2>3, SubmittedIsAnswered
  <1>4. CASE HandleWriteCompleted
    <2>1. /\ UNCHANGED <<writes, exec>> /\ r \in Result /\ r.kind = "completed"
          /\ \A q \in Flight : q = r \/ q \in Flight'
      BY <1>4, ResultTakenOff DEF HandleWriteCompleted, NextResult
    <2> SUFFICES ASSUME NEW d \in Devices, submitted'[d] # NoWrite
                 PROVE  Answered(d)'
      BY DEF AnswerInv
    <2>2. submitted'[d] = submitted[d] /\ (r.dev = d => ~(r.rev >= submitted[d].record.rev))
      BY <1>4 DEF HandleWriteCompleted, Submitted, DataTypes, ServiceTypes
    <2>3. Answered(d)
      BY <2>2 DEF AnswerInv
    <2> HIDE DEF r
    <2> QED BY <2>1, <2>2, <2>3 DEF Answered
  <1> QED BY <1>1, <1>2, <1>3, <1>4

-------------------------------------------------------------------------------
(* A worker that gives up *)

(* The business thread knows of an outage, or the result that says so is   *)
(* on the way and is not overtaken by a recovery.                          *)
Down ==
    \E i \in 0 .. Len(results) :
        /\ IF i = 0 THEN dbUnavailable ELSE results[i].kind = "unavailable"
        /\ \A j \in 1 .. Len(results) : j > i => results[j].kind # "recovered"
AvailInv == unavailable => /\ emit.kind # "recovered"
                           /\ emit.kind = "unavailable" \/ Down

LEMMA DownKept ==
  ASSUME Down, UNCHANGED <<results, dbUnavailable>>
  PROVE  Down'
  BY DEF Down

LEMMA DownAfterResult ==
  ASSUME DataTypes, Down, NEW kind, NextResult(kind),
         kind = "unavailable" => dbUnavailable',
         kind \notin {"unavailable", "recovered"} => dbUnavailable' = dbUnavailable
  PROVE  Down'
  <1>1. /\ results \in Seq(Result) /\ results # <<>> /\ results' = Tail(results)
        /\ Head(results).kind = kind
    BY DEF DataTypes, TaskTypes, NextResult
  <1>2. /\ Len(results) \in Nat \ {0} /\ Len(results') = Len(results) - 1
        /\ results[1].kind = kind
        /\ \A j \in 1 .. Len(results') : results'[j] = results[j + 1] /\ j + 1 \in 1 .. Len(results)
    BY <1>1
  <1> PICK i \in 0 .. Len(results) :
            /\ IF i = 0 THEN dbUnavailable ELSE results[i].kind = "unavailable"
            /\ \A j \in 1 .. Len(results) : j > i => results[j].kind # "recovered"
    BY DEF Down
  <1>3. CASE i > 1
    <2>1. i - 1 \in 0 .. Len(results') /\ i - 1 # 0 /\ results'[i - 1] = results[i]
      BY <1>2, <1>3
    <2>2. \A j \in 1 .. Len(results') : j > i - 1 => results'[j].kind # "recovered"
      <3> SUFFICES ASSUME NEW j \in 1 .. Len(results'), j > i - 1
                   PROVE  results'[j].kind # "recovered"
        OBVIOUS
      <3>1. j + 1 \in 1 .. Len(results) /\ j + 1 > i /\ results'[j] = results[j + 1]
        BY <1>2
      <3> QED BY <3>1
    <2>3. results'[i - 1].kind = "unavailable"
      BY <1>3, <2>1
    <2> QED BY <2>1, <2>2, <2>3 DEF Down
  <1>4. CASE i <= 1
    <2>1. dbUnavailable'
      <3>1. CASE i = 1
        BY <1>2, <3>1
      <3>2. CASE i = 0
        <4>1. 1 \in 1 .. Len(results) /\ 1 > i
          BY <1>2, <3>2
        <4>2. kind # "recovered" /\ dbUnavailable
          BY <1>2, <3>2, <4>1
        <4> QED BY <4>2
      <3>3. i = 0 \/ i = 1
        BY <1>4
      <3> QED BY <3>1, <3>2, <3>3
    <2>2. \A j \in 1 .. Len(results') : results'[j].kind # "recovered"
      <3> SUFFICES ASSUME NEW j \in 1 .. Len(results') PROVE results'[j].kind # "recovered"
        OBVIOUS
      <3>1. j + 1 \in 1 .. Len(results) /\ j + 1 > i /\ results'[j] = results[j + 1]
        BY <1>2, <1>4
      <3> QED BY <3>1
    <2>3. 0 \in 0 .. Len(results')
      BY <1>2
    <2> QED BY <2>1, <2>2, <2>3 DEF Down
  <1> QED BY <1>3, <1>4

LEMMA DownAfterEmit ==
  ASSUME DataTypes, Emit, emit.kind # "recovered", emit.kind = "unavailable" \/ Down
  PROVE  Down'
  <1>1. /\ results \in Seq(Result) /\ emit \in Result /\ results' = Append(results, emit)
        /\ dbUnavailable' = dbUnavailable
    BY DEF DataTypes, TaskTypes, Emit, serviceVars
  <1> DEFINE n == Len(results)
  <1>2. /\ n \in Nat /\ Len(results') = n + 1 /\ results'[n + 1] = emit
        /\ \A i \in 1 .. n : results'[i] = results[i]
    BY <1>1
  <1>3. CASE emit.kind = "unavailable"
    <2>1. n + 1 \in 0 .. Len(results') /\ n + 1 # 0 /\ results'[n + 1].kind = "unavailable"
      BY <1>2, <1>3
    <2>2. \A j \in 1 .. Len(results') : ~(j > n + 1)
      BY <1>2
    <2> QED BY <2>1, <2>2 DEF Down
  <1>4. CASE Down
    <2> PICK i \in 0 .. n :
              /\ IF i = 0 THEN dbUnavailable ELSE results[i].kind = "unavailable"
              /\ \A j \in 1 .. n : j > i => results[j].kind # "recovered"
      BY <1>4 DEF Down
    <2>1. i \in 0 .. Len(results') /\ (i # 0 => results'[i] = results[i])
      BY <1>2
    <2>2. IF i = 0 THEN dbUnavailable' ELSE results'[i].kind = "unavailable"
      BY <1>1, <2>1
    <2>3. \A j \in 1 .. Len(results') : j > i => results'[j].kind # "recovered"
      <3> SUFFICES ASSUME NEW j \in 1 .. Len(results'), j > i
                   PROVE  results'[j].kind # "recovered"
        OBVIOUS
      <3>1. CASE j = n + 1
        BY <1>2, <3>1
      <3>2. CASE j # n + 1
        <4>1. j \in 1 .. n
          BY <1>2, <3>2
        <4> QED BY <1>2, <4>1
      <3> QED BY <3>1, <3>2
    <2> QED BY <2>1, <2>2, <2>3 DEF Down
  <1> QED BY <1>3, <1>4

LEMMA AvailNext ==
  ASSUME NoCommandOutage, DeviceTypes, TaskInv, AvailInv, [Next]_deviceVars
  PROVE  AvailInv'
  <1> USE DEF registryVars, serviceVars, workerVars, threadVars
  <1>1. DataTypes
    BY DEF DeviceTypes
  <1>2. CASE UNCHANGED <<results, dbUnavailable, unavailable, emit>>
    BY <1>2, DownKept DEF AvailInv
  <1>3. CASE \/ HandleUnavailable \/ HandlePermanentFailure \/ HandleRecovered
             \/ HandleProvisioned \/ HandleWriteCompleted
    <2>1. UNCHANGED <<unavailable, emit>>
      BY <1>3 DEF HandleUnavailable, HandlePermanentFailure, HandleRecovered,
                  HandleProvisioned, HandleWriteCompleted, NextResult
    <2>2. CASE Down
      <3>1. Down'
        BY <1>1, <1>3, <2>2, DownAfterResult
           DEF HandleUnavailable, HandlePermanentFailure, HandleRecovered,
               HandleProvisioned, HandleWriteCompleted
      <3> QED BY <2>1, <3>1 DEF AvailInv
    <2> QED BY <2>1, <2>2 DEF AvailInv
  <1>4. CASE \/ LeaveResults \/ LeaveMessages \/ EndRound \/ CheckInput \/ DecideToLeave
             \/ \E d \in Devices : \/ \E reg \in Registration : HandleRegistration(d, reg)
                                   \/ \E l \in LabelOrNone : HandleTelemetry(d, l)
                                   \/ SubmitCandidate(d) \/ DispatchWrite(d) \/ NotYetDue(d)
             \/ \E S \in SUBSET Devices : ExpireInactive(S)
    <2>1. UNCHANGED <<results, dbUnavailable, unavailable, emit>>
      BY <1>4 DEF LeaveResults, HandleRegistration, HandleTelemetry, AtMessages, SubmitCandidate,
                  DispatchWrite, NotYetDue, LeaveMessages, ExpireInactive, EndRound, CheckInput,
                  DecideToLeave
    <2> QED BY <1>2, <2>1
  <1>5. CASE Emit
    <2>1. unavailable' = unavailable /\ emit'.kind = "none"
      BY <1>5 DEF Emit, NoResult, ResultOf
    <2>2. unavailable => Down'
      BY <1>1, <1>5, DownAfterEmit DEF AvailInv
    <2> QED BY <2>1, <2>2 DEF AvailInv
  <1>6. CASE /\ \/ \E d \in Devices : TakeProvision(d) \/ TakeWrite(d)
                \/ Provision \/ WriteState \/ LoseConnection \/ CommandLosesConnection
                \/ Reconnect \/ MigrationMismatch \/ GiveUp \/ Finish(stopRequested)
             /\ UNCHANGED <<results, dbUnavailable>>
    <2>1. Down => Down'
      BY <1>6, DownKept
    <2>2. CASE (\E d \in Devices : TakeProvision(d) \/ TakeWrite(d)) \/ GiveUp \/ Finish(stopRequested)
      <3>1. UNCHANGED <<unavailable, emit>>
        BY <2>2 DEF TakeProvision, TakeWrite, GiveUp, Finish
      <3> QED BY <2>1, <3>1 DEF AvailInv
    <2>3. CASE Provision \/ WriteState \/ MigrationMismatch
      <3>1. unavailable' = unavailable
        BY <2>3 DEF Provision, WriteState, MigrationMismatch
      <3>4. emit'.kind \in {"provisioned", "permanent", "completed"}
        <4>1. CASE Provision
          BY <4>1 DEF Provision, ResultOf
        <4>2. CASE WriteState
          BY <4>2 DEF WriteState, ResultOf
        <4>3. CASE MigrationMismatch
          BY <4>3 DEF MigrationMismatch, ResultOf
        <4> QED BY <2>3, <4>1, <4>2, <4>3
      <3>2. emit = NoResult
        BY <2>3 DEF Provision, WriteState, MigrationMismatch, AtLoop, TaskInv
      <3>3. emit.kind # "unavailable"
        BY <3>2 DEF NoResult, ResultOf
      <3> QED BY <2>1, <3>1, <3>3, <3>4 DEF AvailInv
    <2>4. CASE LoseConnection
      <3>1. emit'.kind = "unavailable"
        BY <2>4 DEF LoseConnection, ResultOf
      <3> QED BY <3>1 DEF AvailInv
    <2>5. CASE Reconnect
      BY <2>5 DEF Reconnect, AvailInv
    <2>6. ~CommandLosesConnection
      BY DEF CommandLosesConnection, NoCommandOutage
    <2> QED BY <1>6, <2>2, <2>3, <2>4, <2>5, <2>6
  <1>7. CASE MainThread
    BY <1>2, <1>7, MainThreadUnchanged
  <1>8. CASE UNCHANGED deviceVars
    BY <1>2, <1>8, StutterUnchanged
  <1>9. CASE DatabaseThread
    BY <1>5, <1>6, <1>9 DEF DatabaseThread
  <1>10. CASE BusinessThread
    BY <1>3, <1>4, <1>10 DEF BusinessThread
  <1> QED BY <1>7, <1>8, <1>9, <1>10 DEF Next

LEMMA AvailHolds == NoCommandOutage => (Spec => []AvailInv)
  <1> SUFFICES ASSUME NoCommandOutage PROVE Spec => []AvailInv
    OBVIOUS
  <1>1. Init => AvailInv
    BY DEF Init, AvailInv
  <1>2. DeviceTypes /\ TaskInv /\ AvailInv /\ [Next]_deviceVars => AvailInv'
    BY AvailNext
  <1> QED BY <1>1, <1>2, DeviceTypesHold, TaskHolds, PTL DEF Spec

(* The thread that gives up has said so: its last result is the permanent  *)
(* failure of all devices, or the business thread has taken that result,   *)
(* waits for nothing and submits nothing, because it knows of the outage.  *)
GivenUp == ResultOf("permanent", NoDevice, 0)
Silent == /\ results = <<>> /\ dbUnavailable
          /\ pc = "dispatch" => todo = {}
          /\ \A d \in Devices : submitted[d] = NoWrite
Told == \/ results # <<>> /\ results[Len(results)] = GivenUp
        \/ Silent
GiveUpInv == exec.kind = "give up" => unavailable /\ (emit = GivenUp \/ (emit = NoResult /\ Told))

LEMMA TakingTells ==
  ASSUME DataTypes, AvailInv, unavailable, emit = NoResult, Told,
         \/ HandleUnavailable \/ HandlePermanentFailure \/ HandleRecovered
         \/ HandleProvisioned \/ HandleWriteCompleted
  PROVE  Told'
  <1>1. /\ results \in Seq(Result) /\ results # <<>> /\ results' = Tail(results)
        /\ pc' = "results" /\ ~Silent
    BY DEF DataTypes, TaskTypes, NextResult, threadVars, HandleUnavailable, HandlePermanentFailure,
           HandleRecovered, HandleProvisioned, HandleWriteCompleted, Silent
  <1>2. results[Len(results)] = GivenUp /\ Len(results) \in Nat \ {0}
    BY <1>1 DEF Told
  <1>3. CASE Len(results) = 1
    <2>1. Head(results) = GivenUp /\ results' = <<>>
      BY <1>1, <1>2, <1>3
    <2>2. Head(results).kind = "permanent" /\ Head(results).dev = NoDevice
      BY <2>1 DEF GivenUp, ResultOf
    <2>3. HandlePermanentFailure
      BY <2>2 DEF NextResult, HandleUnavailable, HandleRecovered, HandleProvisioned,
                  HandleWriteCompleted
    <2>4. dbUnavailable
      <3>1. Down
        BY DEF AvailInv, NoResult, ResultOf
      <3>2. \A i \in 0 .. Len(results) : i # 0 => results[i].kind # "unavailable"
        BY <1>1, <1>3, <2>2
      <3> QED BY <3>1, <3>2 DEF Down
    <2>5. dbUnavailable' = dbUnavailable /\ \A d \in Devices : submitted'[d] = NoWrite
      BY <2>2, <2>3 DEF HandlePermanentFailure
    <2> QED BY <1>1, <2>1, <2>4, <2>5 DEF Told, Silent
  <1>4. CASE Len(results) # 1
    <2>3. Len(results') = Len(results) - 1 /\ Len(results) - 1 # 0
      BY <1>1, <1>2, <1>4
    <2>1. results' # <<>> /\ Len(results') = Len(results) - 1
      BY <2>3
    <2>2. results'[Len(results')] = results[Len(results)]
      BY <1>1, <1>2, <1>4, <2>1
    <2> QED BY <1>2, <2>1, <2>2 DEF Told
  <1> QED BY <1>3, <1>4

LEMMA SilenceKept ==
  ASSUME DataTypes, Silent,
         \/ LeaveResults \/ LeaveMessages \/ EndRound \/ CheckInput \/ DecideToLeave
         \/ \E d \in Devices : \/ \E reg \in Registration : HandleRegistration(d, reg)
                               \/ \E l \in LabelOrNone : HandleTelemetry(d, l)
                               \/ SubmitCandidate(d) \/ DispatchWrite(d) \/ NotYetDue(d)
         \/ \E S \in SUBSET Devices : ExpireInactive(S)
  PROVE  Silent'
  <1> USE DEF serviceVars, threadVars
  <1>1. UNCHANGED <<results, dbUnavailable>>
    BY DEF LeaveResults, HandleRegistration, HandleTelemetry, AtMessages, SubmitCandidate,
           DispatchWrite, NotYetDue, LeaveMessages, ExpireInactive, EndRound, CheckInput,
           DecideToLeave
  <1>2. \A d \in Devices : ~DispatchWrite(d) /\ ~NotYetDue(d)
    BY DEF Silent, DispatchWrite, NotYetDue
  <1>3. \A d \in Devices : submitted'[d] = NoWrite
    BY <1>2 DEF Silent, LeaveResults, HandleRegistration, HandleTelemetry, AtMessages, SubmitCandidate,
           LeaveMessages, ExpireInactive, EndRound, CheckInput, DecideToLeave
  <1>4. pc' = "dispatch" => todo' = {}
    <2>1. CASE \E S \in SUBSET Devices : ExpireInactive(S)
      BY <2>1 DEF ExpireInactive, Silent
    <2>2. CASE EndRound
      BY <2>2 DEF EndRound, Silent
    <2>3. CASE \/ LeaveResults \/ LeaveMessages \/ CheckInput \/ DecideToLeave
               \/ \E d \in Devices : \/ \E reg \in Registration : HandleRegistration(d, reg)
                                     \/ \E l \in LabelOrNone : HandleTelemetry(d, l)
                                     \/ SubmitCandidate(d)
      BY <2>3 DEF LeaveResults, HandleRegistration, HandleTelemetry, AtMessages, SubmitCandidate,
                  LeaveMessages, CheckInput, DecideToLeave
    <2> QED BY <1>2, <2>1, <2>2, <2>3
  <1> QED BY <1>1, <1>3, <1>4 DEF Silent

LEMMA GiveUpNext ==
  ASSUME NoMigration \/ (NoCommandOutage /\ AvailInv), DeviceTypes, TaskInv, TaskInv', GiveUpInv,
         [Next]_deviceVars
  PROVE  GiveUpInv'
  <1> USE DEF registryVars, serviceVars, workerVars, threadVars
  <1>1. DataTypes
    BY DEF DeviceTypes
  <1>2. CASE NoMigration
    BY <1>2 DEF TaskInv, GiveUpInv, NoMigration
  <1> SUFFICES ASSUME ~NoMigration, AvailInv PROVE GiveUpInv'
    BY <1>2
  <1>3. CASE UNCHANGED <<exec, emit, unavailable, results, dbUnavailable, pc, todo, submitted>>
    BY <1>3 DEF GiveUpInv, Told, Silent
  <1>4. CASE \/ HandleUnavailable \/ HandlePermanentFailure \/ HandleRecovered
             \/ HandleProvisioned \/ HandleWriteCompleted
    <2>1. UNCHANGED <<exec, emit, unavailable>>
      BY <1>4 DEF HandleUnavailable, HandlePermanentFailure, HandleRecovered, HandleProvisioned,
                  HandleWriteCompleted, NextResult
    <2>2. unavailable /\ emit = NoResult /\ Told => Told'
      BY <1>1, <1>4, TakingTells
    <2> QED BY <2>1, <2>2 DEF GiveUpInv
  <1>5. CASE \/ LeaveResults \/ LeaveMessages \/ EndRound \/ CheckInput \/ DecideToLeave
             \/ \E d \in Devices : \/ \E reg \in Registration : HandleRegistration(d, reg)
                                   \/ \E l \in LabelOrNone : HandleTelemetry(d, l)
                                   \/ SubmitCandidate(d) \/ DispatchWrite(d) \/ NotYetDue(d)
             \/ \E S \in SUBSET Devices : ExpireInactive(S)
    <2>1. UNCHANGED <<exec, emit, unavailable, results>>
      BY <1>5 DEF LeaveResults, HandleRegistration, HandleTelemetry, AtMessages, SubmitCandidate,
                  DispatchWrite, NotYetDue, LeaveMessages, ExpireInactive, EndRound, CheckInput,
                  DecideToLeave
    <2>2. Silent => Silent'
      BY <1>1, <1>5, SilenceKept
    <2>3. Told => Told'
      BY <2>1, <2>2 DEF Told
    <2> QED BY <2>1, <2>3 DEF GiveUpInv
  <1>6. CASE DatabaseThread
    <2>1. CASE Emit
      <3>1. /\ UNCHANGED <<exec, unavailable>> /\ emit # NoResult /\ emit' = NoResult
            /\ results' = Append(results, emit) /\ results \in Seq(Result) /\ emit \in Result
        BY <1>1, <2>1 DEF Emit, DataTypes, TaskTypes
      <3>2. results' # <<>> /\ results'[Len(results')] = emit
        BY <3>1
      <3> QED BY <3>1, <3>2 DEF GiveUpInv, Told
    <2>2. CASE \E d \in Devices : TakeProvision(d) \/ TakeWrite(d)
      <3>1. exec'.kind # "give up"
        BY <2>2, IdleType DEF TakeProvision, TakeWrite, Idle
      <3> QED BY <3>1 DEF GiveUpInv
    <2>3. CASE \/ Provision \/ WriteState \/ LoseConnection \/ GiveUp
               \/ CommandLosesConnection \/ Reconnect \/ Finish(stopRequested)
      <3>1. exec' = Idle
        BY <2>3 DEF Provision, WriteState, LoseConnection, GiveUp, CommandLosesConnection,
                    Reconnect, Finish, AtLoop
      <3> QED BY <3>1, IdleType DEF GiveUpInv
    <2>4. CASE MigrationMismatch
      BY <2>4 DEF MigrationMismatch, GiveUpInv, GivenUp
    <2> QED BY <1>6, <2>1, <2>2, <2>3, <2>4 DEF DatabaseThread
  <1>7. CASE MainThread
    BY <1>3, <1>7, MainThreadUnchanged
  <1>8. CASE UNCHANGED deviceVars
    BY <1>3, <1>8, StutterUnchanged
  <1> QED BY <1>4, <1>5, <1>6, <1>7, <1>8 DEF Next, BusinessThread

LEMMA GiveUpHolds == NoMigration \/ NoCommandOutage => (Spec => []GiveUpInv)
  <1>1. Init => GiveUpInv
    BY IdleType DEF Init, GiveUpInv
  <1>2. CASE NoMigration
    <2>1. /\ DeviceTypes /\ TaskInv /\ TaskInv' /\ GiveUpInv /\ [Next]_deviceVars
          => GiveUpInv'
      BY <1>2, GiveUpNext
    <2> QED BY <1>1, <2>1, DeviceTypesHold, TaskHolds, PTL DEF Spec
  <1>3. CASE NoCommandOutage
    <2>1. /\ DeviceTypes /\ TaskInv /\ TaskInv' /\ AvailInv /\ GiveUpInv /\ [Next]_deviceVars
          => GiveUpInv'
      BY <1>3, GiveUpNext
    <2>2. Spec => []AvailInv
      BY <1>3, AvailHolds
    <2> QED BY <1>1, <2>1, <2>2, DeviceTypesHold, TaskHolds, PTL DEF Spec
  <1> QED BY <1>2, <1>3

LEMMA DispatchedIsWrite ==
  ASSUME DataTypes, TodoInv, NEW d \in Devices, DispatchWrite(d)
  PROVE  TakenWrite(ent[d]) \in Write /\ TakenWrite(ent[d]).groups # {}
  <1>1. ent[d] \in Entry /\ HasDirty(ent[d])
    BY DEF DataTypes, ServiceTypes, DispatchWrite, TodoInv
  <1>2. TakenWrite(ent[d]).groups # {}
    BY <1>1 DEF TakenWrite, HasDirty
  <1> QED BY <1>1, <1>2, TakeLeavesClean

LEMMA TakenIsAnswered ==
  ASSUME DataTypes, AnswerInv, NEW t \in Devices, TakeWrite(t), UNCHANGED <<results, submitted>>
  PROVE  AnswerInv'
  <1>1. /\ exec = Idle /\ exec'.kind = "write" /\ exec'.dev = t /\ exec'.write = writes[t]
        /\ \A d \in Devices \ {t} : writes'[d] = writes[d]
        /\ emit' = emit
    BY DEF TakeWrite, AtLoop, Idle, DataTypes, TaskTypes
  <1>2. exec.kind # "write"
    BY <1>1, IdleType
  <1>3. \A r \in Flight : r \in Flight'
    BY <1>1 DEF Flight
  <1> SUFFICES ASSUME NEW d \in Devices, submitted[d] # NoWrite, Answered(d)
               PROVE  Answered(d)'
    BY DEF AnswerInv
  <1>4. CASE d # t
    BY <1>1, <1>2, <1>3, <1>4, AnswerKept
  <1>5. CASE d = t
    BY <1>1, <1>2, <1>3, <1>5 DEF Answered
  <1> QED BY <1>4, <1>5

LEMMA WrittenIsAnswered ==
  ASSUME DataTypes, TaskInv, AnswerInv, WriteState, UNCHANGED <<results, submitted>>
  PROVE  AnswerInv'
  <1>1. exec.kind = "write" /\ emit = NoResult /\ writes' = writes
    BY DEF WriteState, TaskInv
  <1>2. /\ emit'.kind \in {"completed", "permanent"}
        /\ emit'.dev = exec.dev /\ emit'.rev = exec.write.record.rev
    BY DEF WriteState, ResultOf
  <1>3. emit' \in Flight' /\ \A r \in Flight : r.kind = "none" \/ r \in Flight'
    BY <1>1, FlightKept DEF Flight
  <1> SUFFICES ASSUME NEW d \in Devices, submitted[d] # NoWrite, Answered(d)
               PROVE  Answered(d)'
    BY DEF AnswerInv
  <1>4. CASE exec.dev = d /\ exec.write.record.rev >= submitted[d].record.rev
    BY <1>2, <1>3, <1>4 DEF Answered
  <1>5. CASE ~(exec.dev = d /\ exec.write.record.rev >= submitted[d].record.rev)
    BY <1>1, <1>3, <1>5 DEF Answered
  <1> QED BY <1>4, <1>5

LEMMA PutBackIsAnswered ==
  ASSUME DataTypes, TaskInv, WriteInv, AnswerInv, LoseConnection, UNCHANGED <<results, submitted>>
  PROVE  AnswerInv'
  <1>1. emit = NoResult
    BY DEF LoseConnection, TaskInv
  <1>2. \A r \in Flight : r.kind = "none" \/ r \in Flight'
    BY <1>1, FlightKept
  <1> SUFFICES ASSUME NEW d \in Devices, submitted[d] # NoWrite, Answered(d)
               PROVE  Answered(d)'
    BY DEF AnswerInv
  <1>3. CASE exec.kind = "write" /\ exec.dev = d
    <2>1. /\ writes[d] \in Write /\ exec.write \in Write /\ exec.write.groups # {}
          /\ writes'[d] = MergeWrite(writes[d], exec.write)
      BY <1>3, RecordsHaveVersions DEF LoseConnection, WriteInv, DataTypes, TaskTypes
    <2>7. writes'[d].groups # {}
      BY <2>1, MergeTakesOne
    <2>8. writes'[d].record.rev >= exec.write.record.rev
      BY <2>1, MergeIsNewer
    <2>9. writes[d].groups # {} => writes'[d].record.rev >= writes[d].record.rev
      BY <2>1, MergeIsNewer
    <2>2. /\ writes'[d].groups # {}
          /\ writes'[d].record.rev >= exec.write.record.rev
          /\ writes[d].groups # {} => writes'[d].record.rev >= writes[d].record.rev
      BY <2>7, <2>8, <2>9
    <2>3. /\ writes'[d].record.rev \in Nat /\ exec.write.record.rev \in Nat
          /\ writes[d].record.rev \in Nat /\ submitted[d].record.rev \in Nat
      BY <2>1, MergeTakesOne DEF Write, Record, DataTypes, ServiceTypes
    <2>4. CASE writes[d].groups # {} /\ writes[d].record.rev >= submitted[d].record.rev
      <3>1. writes'[d].record.rev >= submitted[d].record.rev
        BY <2>2, <2>3, <2>4
      <3> QED BY <2>2, <3>1 DEF Answered
    <2>5. CASE exec.write.record.rev >= submitted[d].record.rev
      <3>1. writes'[d].record.rev >= submitted[d].record.rev
        BY <2>2, <2>3, <2>5
      <3> QED BY <2>2, <3>1 DEF Answered
    <2>6. CASE \E r \in Flight : \/ r.kind = "completed" /\ r.dev = d /\ r.rev >= submitted[d].record.rev
                                 \/ r.kind = "permanent" /\ r.dev \in {d, NoDevice}
      BY <1>2, <2>6 DEF Answered
    <2> QED BY <2>4, <2>5, <2>6 DEF Answered
  <1>4. CASE ~(exec.kind = "write" /\ exec.dev = d)
    <2>1. writes'[d] = writes[d]
      BY <1>4 DEF LoseConnection, DataTypes, TaskTypes
    <2> QED BY <1>2, <1>4, <2>1 DEF Answered
  <1> QED BY <1>3, <1>4

LEMMA DatabaseAnswers ==
  ASSUME DataTypes, TaskInv, WriteInv, GiveUpInv, AnswerInv, DatabaseThread
  PROVE  AnswerInv'
  <1> USE DEF serviceVars
  <1>1. CASE Emit
    <2>1. UNCHANGED <<writes, exec, submitted>> /\ \A r \in Flight : r \in Flight'
      BY <1>1, FlightEmitted DEF Emit
    <2> QED BY <2>1, AnswerKept DEF AnswerInv
  <1> SUFFICES ASSUME ~Emit PROVE AnswerInv'
    BY <1>1
  <1>2. UNCHANGED <<results, submitted>>
    BY DEF DatabaseThread
  <1>3. CASE \E d \in Devices : TakeWrite(d)
    BY <1>2, <1>3, TakenIsAnswered
  <1>4. CASE WriteState
    BY <1>2, <1>4, WrittenIsAnswered
  <1>5. CASE LoseConnection
    BY <1>2, <1>5, PutBackIsAnswered
  <1>6. CASE GiveUp
    <2>1. emit' = emit /\ exec.kind = "give up" /\ emit = NoResult
      BY <1>6 DEF GiveUp
    <2>2. Told
      <3>1. emit # GivenUp
        BY <2>1 DEF GivenUp, NoResult, ResultOf
      <3> QED BY <2>1, <3>1 DEF GiveUpInv
    <2>3. CASE Silent
      BY <1>2, <2>3 DEF AnswerInv, Silent
    <2>4. CASE results # <<>> /\ results[Len(results)] = GivenUp
      <3>4. results \in Seq(Result) /\ results' = results
        BY <1>2 DEF DataTypes, TaskTypes
      <3>5. Len(results) \in Nat /\ Len(results) # 0
        BY <2>4, <3>4
      <3>1. Len(results') \in 1 .. Len(results')
        BY <3>4, <3>5
      <3>2. GivenUp \in Flight'
        BY <1>2, <2>4, <3>1 DEF Flight
      <3>3. GivenUp.kind = "permanent" /\ GivenUp.dev = NoDevice
        BY DEF GivenUp, ResultOf
      <3> QED BY <3>2, <3>3 DEF AnswerInv, Answered
    <2> QED BY <2>2, <2>3, <2>4 DEF Told
  <1>7. CASE \/ \E d \in Devices : TakeProvision(d)
             \/ Provision \/ CommandLosesConnection \/ Reconnect \/ MigrationMismatch
             \/ Finish(stopRequested)
    <2>1. writes' = writes
      BY <1>7 DEF TakeProvision, Provision, CommandLosesConnection, Reconnect, MigrationMismatch,
                  Finish
    <2>2. emit = NoResult
      BY <1>7 DEF TakeProvision, Provision, CommandLosesConnection, Reconnect, MigrationMismatch,
                  Finish, AtLoop, TaskInv
    <2>3. exec.kind # "write"
      BY <1>7, IdleType DEF TakeProvision, Provision, CommandLosesConnection, Reconnect,
                  MigrationMismatch, Finish, AtLoop
    <2>4. \A r \in Flight : r.kind \in {"completed", "permanent"} => r \in Flight'
      BY <1>2, <2>2, FlightKept
    <2> QED BY <1>2, <2>1, <2>3, <2>4, AnswerKept DEF AnswerInv
  <1> QED BY <1>3, <1>4, <1>5, <1>6, <1>7 DEF DatabaseThread

LEMMA AnswerNext ==
  ASSUME DeviceTypes, StorageInv, TaskInv, GiveUpInv, AnswerInv, [Next]_deviceVars
  PROVE  AnswerInv'
  <1> USE DEF registryVars, serviceVars, workerVars, threadVars
  <1>1. DataTypes
    BY DEF DeviceTypes
  <1>2. CASE UNCHANGED <<exec, emit, results, writes, submitted>>
    BY <1>2 DEF AnswerInv, Answered, Flight
  <1>3. CASE \/ HandleUnavailable \/ HandlePermanentFailure \/ HandleRecovered
             \/ HandleProvisioned \/ HandleWriteCompleted
    BY <1>1, <1>3, ResultsAnswer
  <1>4. CASE LeaveResults
    <2>1. UNCHANGED <<exec, emit, results, writes>>
      BY <1>4 DEF LeaveResults
    <2>2. submitted' = submitted \/ \A d \in Devices : submitted'[d] = NoWrite
      BY <1>4 DEF LeaveResults
    <2> QED BY <1>2, <2>1, <2>2 DEF AnswerInv
  <1>5. CASE \/ LeaveMessages \/ EndRound \/ CheckInput \/ DecideToLeave
             \/ \E d \in Devices : \/ \E reg \in Registration : HandleRegistration(d, reg)
                                   \/ \E l \in LabelOrNone : HandleTelemetry(d, l)
                                   \/ SubmitCandidate(d) \/ NotYetDue(d)
             \/ \E S \in SUBSET Devices : ExpireInactive(S)
    <2>1. UNCHANGED <<exec, emit, results, writes, submitted>>
      BY <1>5 DEF LeaveMessages, HandleRegistration, HandleTelemetry, AtMessages, SubmitCandidate,
                  NotYetDue, ExpireInactive, EndRound, CheckInput, DecideToLeave
    <2> QED BY <1>2, <2>1
  <1>6. ASSUME NEW d \in Devices, DispatchWrite(d)
        PROVE  AnswerInv'
    <2> DEFINE w == [e \in {d} |-> TakenWrite(ent[d])]
               entry == [ent EXCEPT ![d] = AfterTake(@)]
    <2>1. \A e \in {d} : w[e] \in Write /\ w[e].groups # {}
      BY <1>1, <1>6, DispatchedIsWrite DEF StorageInv
    <2>2. SubmitWrites({d}, w, entry) /\ UNCHANGED <<exec, emit, results>>
      BY <1>6 DEF DispatchWrite
    <2>3. \A r \in Flight : r \in Flight'
      BY <2>2 DEF Flight
    <2> HIDE DEF w, entry
    <2> QED BY <1>1, <2>1, <2>2, <2>3, SubmittedIsAnswered
  <1>7. CASE DatabaseThread
    BY <1>1, <1>7, DatabaseAnswers DEF StorageInv, OrderInv
  <1>8. CASE MainThread
    BY <1>2, <1>8, MainThreadUnchanged
  <1>9. CASE UNCHANGED deviceVars
    BY <1>2, <1>9, StutterUnchanged
  <1> QED BY <1>3, <1>4, <1>5, <1>6, <1>7, <1>8, <1>9 DEF Next, BusinessThread

LEMMA AnswersHold == NoMigration \/ NoCommandOutage => (Spec => []AnswerInv)
  <1> SUFFICES ASSUME NoMigration \/ NoCommandOutage PROVE Spec => []AnswerInv
    OBVIOUS
  <1>1. Init => AnswerInv
    BY DEF Init, AnswerInv
  <1>2. /\ DeviceTypes /\ StorageInv /\ TaskInv /\ GiveUpInv /\ AnswerInv /\ [Next]_deviceVars
        => AnswerInv'
    BY AnswerNext
  <1> QED BY <1>1, <1>2, DeviceTypesHold, StorageOrdered, TaskHolds, GiveUpHolds, PTL DEF Spec

(* Every submitted write is answered with its revision or a later one, or  *)
(* with a permanent failure, however the database thread merged it with    *)
(* earlier ones, put it back after an outage or gave up: the drain that    *)
(* waits for the answer (WaitForDatabaseIdle) waits for something.         *)
THEOREM SubmittedWritesAreAnswered ==
  NoMigration \/ NoCommandOutage => (Spec => []WriteIsAnswered)
  <1> SUFFICES ASSUME NoMigration \/ NoCommandOutage PROVE Spec => []WriteIsAnswered
    OBVIOUS
  <1>1. AnswerInv => WriteIsAnswered
    <2> SUFFICES ASSUME AnswerInv, NEW d \in Submitted, Answered(d)
                 PROVE  \/ writes[d].groups # {} /\ writes[d].record.rev >= submitted[d].record.rev
                        \/ exec.dev = d /\ exec.write.record.rev >= submitted[d].record.rev
                        \/ \E r \in ResultsOf({"completed"}) :
                               r.dev = d /\ r.rev >= submitted[d].record.rev
                        \/ \E r \in ResultsOf({"permanent"}) : r.dev \in {d, NoDevice}
      BY DEF AnswerInv, WriteIsAnswered, Submitted
    <2>1. \A r \in Flight : r \in ResultsOf({r.kind})
      BY DEF Flight, ResultsOf
    <2> QED BY <2>1 DEF Answered
  <1> QED BY <1>1, AnswersHold, PTL

-------------------------------------------------------------------------------
(* Changes on the way to the tables *)

(* The newest value of a group is dirty, queued or being written. *)
Executing(d, g) == exec.kind = "write" /\ exec.dev = d /\ Carries(exec.write, d, g)
Coming(d, g) == ent[d].dirty[g] # 0 \/ Carries(writes[d], d, g) \/ Executing(d, g)

(* It is stored or in the hands of the database thread. *)
Handed(d, g) == Saved(d, g) \/ Carries(writes[d], d, g) \/ Executing(d, g)

(* Only a thread that gave up, or an abandoned drain, forgets a change. *)
ChangeInv == ~Abandoned => \A d \in Devices, g \in Groups :
                              Saved(d, g) \/ Coming(d, g) \/ (stopped /\ unavailable)

(* A device with something to write was changed since it was loaded. *)
DirtyInv == \A d \in Devices : HasDirty(ent[d]) => rec[d].rev # 0

(* Work is cancelled and the threads are stopped only by an abandoned      *)
(* drain; a drained worker ends with the connection up.                    *)
EndInv ==
    /\ cancel => Abandoned
    /\ stopRequested => Abandoned
    /\ NoMigration /\ stopped /\ unavailable => Abandoned

LEMMA EndNext ==
  ASSUME DeviceTypes, TaskInv, EndInv, [Next]_deviceVars
  PROVE  EndInv' /\ (Abandoned => Abandoned')
  <1> USE DEF registryVars, serviceVars, workerVars, threadVars, drainVars, mainVars
  <1>1. Abandoned => Abandoned'
    <2>1. CASE MainThread
      BY <2>1 DEF MainThread, Close, WaitForInputDrained, WaitForDatabaseIdle, FlushAndStop,
                  WorkerStopped, Join, DrainTimesOut, Abandoned
    <2>2. CASE BusinessThread \/ DatabaseThread \/ UNCHANGED deviceVars
      <3>1. main' = main
        BY <2>2, StutterUnchanged, FlagsBusiness, FlagsDatabase
           DEF BusinessThread, HandleUnavailable, HandlePermanentFailure, HandleRecovered,
               HandleProvisioned, HandleWriteCompleted, NextResult, LeaveResults,
               HandleRegistration, HandleTelemetry, AtMessages, SubmitCandidate, DispatchWrite,
               NotYetDue, LeaveMessages, ExpireInactive, EndRound, CheckInput, DecideToLeave,
               DatabaseThread, Emit
      <3> QED BY <3>1 DEF Abandoned
    <2> QED BY <2>1, <2>2 DEF Next
  <1>2. CASE BusinessThread
    <2>1. UNCHANGED <<stopped, unavailable, stopRequested, main>>
      BY <1>2 DEF BusinessThread, HandleUnavailable, HandlePermanentFailure, HandleRecovered,
               HandleProvisioned, HandleWriteCompleted, NextResult, LeaveResults,
               HandleRegistration, HandleTelemetry, AtMessages, SubmitCandidate, DispatchWrite,
               NotYetDue, LeaveMessages, ExpireInactive, EndRound, CheckInput, DecideToLeave
    <2>2. cancel' = cancel \/ cancel' = FALSE
      BY <1>2 DEF BusinessThread, HandleUnavailable, HandlePermanentFailure, HandleRecovered,
               HandleProvisioned, HandleWriteCompleted, NextResult, LeaveResults,
               HandleRegistration, HandleTelemetry, AtMessages, SubmitCandidate, DispatchWrite,
               NotYetDue, LeaveMessages, ExpireInactive, EndRound, CheckInput, DecideToLeave
    <2> QED BY <1>1, <2>1, <2>2 DEF EndInv, Abandoned
  <1>3. CASE DatabaseThread
    <2>1. UNCHANGED <<cancel, stopRequested, main>>
      BY <1>3 DEF DatabaseThread, Emit
    <2>2. NoMigration /\ stopped' /\ unavailable' => Abandoned
      <3>1. CASE \/ Emit \/ Provision \/ WriteState \/ MigrationMismatch
                 \/ \E d \in Devices : TakeProvision(d) \/ TakeWrite(d)
        <4>1. UNCHANGED <<stopped, unavailable>>
          BY <3>1 DEF Emit, Provision, WriteState, MigrationMismatch, TakeProvision, TakeWrite
        <4> QED BY <4>1 DEF EndInv
      <3>2. CASE LoseConnection
        BY <3>2, IdleType DEF LoseConnection, TaskInv
      <3>3. CASE CommandLosesConnection \/ Reconnect
        BY <3>3 DEF CommandLosesConnection, Reconnect, AtLoop
      <3>4. CASE GiveUp
        BY <3>4 DEF GiveUp, TaskInv
      <3>5. CASE Finish(stopRequested)
        BY <3>5 DEF Finish, EndInv
      <3> QED BY <1>3, <3>1, <3>2, <3>3, <3>4, <3>5 DEF DatabaseThread
    <2> QED BY <1>1, <2>1, <2>2 DEF EndInv, Abandoned
  <1>4. CASE MainThread
    <2>1. UNCHANGED <<stopped, unavailable>>
      BY <1>4, MainThreadUnchanged
    <2>2. UNCHANGED <<cancel, stopRequested>> \/ Abandoned'
      BY <1>4 DEF MainThread, Close, WaitForInputDrained, WaitForDatabaseIdle, FlushAndStop,
                  WorkerStopped, Join, DrainTimesOut, Abandoned
    <2> QED BY <1>1, <2>1, <2>2 DEF EndInv
  <1>5. CASE UNCHANGED deviceVars
    BY <1>1, <1>5, StutterUnchanged DEF EndInv
  <1> QED BY <1>1, <1>2, <1>3, <1>4, <1>5 DEF Next

LEMMA EndHolds == Spec => []EndInv
  <1>1. Init => EndInv
    BY DEF Init, EndInv
  <1>2. DeviceTypes /\ TaskInv /\ EndInv /\ [Next]_deviceVars => EndInv'
    BY EndNext
  <1> QED BY <1>1, <1>2, DeviceTypesHold, TaskHolds, PTL DEF Spec

(* What marking, submitting, completing and restoring do to the dirty      *)
(* groups of an entry                                                      *)
LEMMA MarkDirties ==
  ASSUME NEW e \in Entry, NEW w \in Write, NEW g \in Groups
  PROVE  /\ g \in w.groups /\ w.record.rev # 0 => Mark(e, w).dirty[g] # 0
         /\ e.dirty[g] # 0 => Mark(e, w).dirty[g] # 0
         /\ Mark(e, w).dirty[g] # 0 => e.dirty[g] # 0 \/ w.record.rev # 0
  <1>1. e.dirty[g] \in Nat /\ w.record.rev \in Nat
    BY DEF Entry, Write, Record
  <1>2. Mark(e, w).dirty[g] = IF g \in w.groups THEN Larger(e.dirty[g], w.record.rev) ELSE e.dirty[g]
    BY DEF Mark
  <1> QED BY <1>1, <1>2 DEF Larger

LEMMA RestoreDirties ==
  ASSUME NEW e \in Entry, NEW w \in Write, NEW g \in Groups
  PROVE  Restore(e, w).dirty[g] = Mark(e, w).dirty[g]
  <1> DEFINE f == [h \in Groups |-> IF h \in w.groups /\ e.fly[h] <= w.record.rev
                                   THEN 0 ELSE e.fly[h]]
             m == Mark(e, w)
  <1>1. Restore(e, w) = [m EXCEPT !.fly = f]
    BY DEF Restore
  <1>2. m \in Entry
    BY MarkType
  <1> HIDE DEF m, f
  <1>3. [m EXCEPT !.fly = f].dirty = m.dirty
    BY <1>2 DEF Entry
  <1> QED BY <1>1, <1>3 DEF m

LEMMA CompleteDirties ==
  ASSUME NEW e \in Entry, NEW w, NEW g \in Groups
  PROVE  Complete(e, w).dirty[g] # 0 <=> e.dirty[g] # 0
  <1> DEFINE f == [h \in Groups |-> IF h \in w.groups /\ e.fly[h] <= w.record.rev
                                   THEN 0 ELSE e.fly[h]]
             done == [e EXCEPT !.fly = f]
  <1>1. f \in [Groups -> Nat]
    BY DEF Entry
  <1>2. done.dirty = e.dirty
    BY <1>1 DEF Entry
  <1>3. Complete(e, w) = IF HasWork(done) THEN done ELSE NoEntry
    BY DEF Complete
  <1>4. NoEntry.dirty[g] = 0
    BY DEF NoEntry, Clean
  <1> HIDE DEF done
  <1>5. e.dirty[g] # 0 => HasWork(done)
    BY <1>2 DEF HasWork, HasDirty
  <1> QED BY <1>2, <1>3, <1>4, <1>5

(* A device's newest values stay saved or on the way. *)
LEMMA ChangeKept ==
  ASSUME NEW d \in Devices, NEW g \in Groups, Saved(d, g) \/ Coming(d, g),
         rec'[d] = rec[d], row'[d] = row[d], ent[d].dirty[g] # 0 => ent'[d].dirty[g] # 0,
         writes'[d] = writes[d], exec' = exec \/ exec.kind # "write"
  PROVE  (Saved(d, g) \/ Coming(d, g))'
  BY DEF Saved, Coming, Executing, Carries

(* A marked device is dirty in the groups that changed. *)
LEMMA MarkedIsComing ==
  ASSUME DataTypes, NEW S \in SUBSET Devices, NEW w,
         \A d \in S : w[d] \in Write /\ w[d].record.rev # 0, MarkAll(S, w),
         UNCHANGED <<row, writes, exec>>, NEW d \in Devices, NEW g \in Groups,
         Saved(d, g) \/ Coming(d, g),
         d \in S => g \in w[d].groups \/ Version(w[d].record, g) = Version(rec[d], g)
  PROVE  (Saved(d, g) \/ Coming(d, g))'
  <1>1. CASE d \in S
    <2>1. rec'[d] = w[d].record /\ ent'[d] = Mark(ent[d], w[d]) /\ ent[d] \in Entry /\ w[d] \in Write
          /\ w[d].record.rev # 0
      BY <1>1 DEF MarkAll, DataTypes, ServiceTypes
    <2>2. CASE g \in w[d].groups
      <3>1. ent'[d].dirty[g] # 0
        BY <2>1, <2>2, MarkDirties
      <3> QED BY <3>1 DEF Coming
    <2>3. CASE Version(w[d].record, g) = Version(rec[d], g)
      <3>1. ent[d].dirty[g] # 0 => ent'[d].dirty[g] # 0
        BY <2>1, MarkDirties
      <3>2. Version(rec'[d], g) = Version(rec[d], g)
        BY <2>1, <2>3
      <3> QED BY <3>1, <3>2 DEF Saved, Coming, Executing, Carries
    <2> QED BY <1>1, <2>2, <2>3
  <1>2. CASE d \notin S
    <2>1. rec'[d] = rec[d] /\ ent'[d] = ent[d]
      BY <1>2 DEF MarkAll
    <2> QED BY <2>1, ChangeKept
  <1> QED BY <1>1, <1>2

LEMMA MarkedOneIsComing ==
  ASSUME DataTypes, NEW e \in Devices, NEW w \in Write, w.record.rev # 0, MarkOne(e, w),
         UNCHANGED <<row, writes, exec>>, NEW d \in Devices, NEW g \in Groups,
         Saved(d, g) \/ Coming(d, g),
         g \in w.groups \/ Version(w.record, g) = Version(rec[e], g)
  PROVE  (Saved(d, g) \/ Coming(d, g))'
  <1> DEFINE v == [c \in {e} |-> w]
             S == {e}
  <1>1. S \in SUBSET Devices /\ \A c \in S : c = e /\ v[c] = w
    OBVIOUS
  <1>2. MarkAll(S, v)
    BY DEF MarkOne
  <1> HIDE DEF v, S
  <1>3. \A c \in S : v[c] \in Write /\ v[c].record.rev # 0
    BY <1>1
  <1>4. d \in S => g \in v[d].groups \/ Version(v[d].record, g) = Version(rec[d], g)
    BY <1>1
  <1> QED BY <1>1, <1>2, <1>3, <1>4, MarkedIsComing

(* Merging a device's newest record into its queued write *)
LEMMA MergedIsNewest ==
  ASSUME DataTypes, QueueInv, NEW d \in Devices, NEW w \in Write, w.record = rec[d]
  PROVE  LET v == MergeWrite(writes[d], w) IN
         v.record = rec[d] /\ v.groups = writes[d].groups \cup w.groups
  <1>1. writes[d] \in Write
    BY RecordsHaveVersions
  <1>2. MergeWrite(writes[d], w).groups = writes[d].groups \cup w.groups
    BY <1>1, MergeTakesOne
  <1>3. CASE writes[d].groups = {}
    BY <1>1, <1>2, <1>3, MergeTakesOne
  <1>4. CASE writes[d].groups # {}
    <2>1. writes[d].record.rev <= rec[d].rev
      BY <1>4 DEF QueueInv, Older
    <2>2. w.record.rev >= writes[d].record.rev
      BY <1>1, <2>1, RecordsHaveVersions
    <2>3. MergeWrite(writes[d], w).record = w.record
      BY <1>1, <2>2, MergeTakesOne
    <2> QED BY <1>2, <2>3
  <1> QED BY <1>3, <1>4

LEMMA SubmittedKeepsHanded ==
  ASSUME DataTypes, QueueInv, NEW S \in SUBSET Devices, NEW w,
         \A d \in S : w[d] \in Write /\ w[d].record = rec[d],
         NEW entry, SubmitWrites(S, w, entry),
         UNCHANGED <<rec, row, exec>>, NEW d \in Devices, NEW g \in Groups, Handed(d, g)
  PROVE  Handed(d, g)'
  <1>1. CASE writes'[d] = writes[d]
    BY <1>1 DEF Handed, Saved, Carries, Executing
  <1>2. CASE d \in S /\ writes'[d] = MergeWrite(writes[d], w[d])
    <2>1. w[d] \in Write /\ w[d].record = rec[d]
      BY <1>2
    <2>2. writes'[d].record = rec[d] /\ writes[d].groups \subseteq writes'[d].groups
      BY <1>2, <2>1, MergedIsNewest
    <2> QED BY <2>2 DEF Handed, Saved, Carries, Executing
  <1> QED BY <1>1, <1>2 DEF SubmitWrites

(* The write that is submitted for a device has its newest record, and the *)
(* groups that its entry loses.                                            *)
LEMMA SubmittedIsComing ==
  ASSUME DataTypes, QueueInv, DirtyInv, NEW S \in SUBSET Devices, NEW w,
         \A d \in S : w[d] \in Write /\ w[d].record = rec[d],
         NEW entry \in [Devices -> Entry], SubmitWrites(S, w, entry),
         UNCHANGED <<rec, row, exec>>, NEW d \in Devices, NEW g \in Groups,
         ent[d].dirty[g] # 0 => entry[d].dirty[g] # 0 \/ (d \in S /\ g \in w[d].groups),
         Saved(d, g) \/ Coming(d, g)
  PROVE  (Saved(d, g) \/ Coming(d, g))'
  <1>1. CASE d \notin S
    <2>1. writes'[d] = writes[d] /\ ent'[d] = entry[d]
      BY <1>1 DEF SubmitWrites
    <2> QED BY <1>1, <2>1, ChangeKept
  <1>2. CASE d \in S /\ writes'[d] = MergeWrite(writes[d], w[d]) /\ ent'[d] = entry[d]
    <2>1. writes[d] \in Write /\ w[d] \in Write /\ w[d].record = rec[d]
      BY <1>2, RecordsHaveVersions
    <2>2. writes'[d].groups = writes[d].groups \cup w[d].groups
      BY <1>2, <2>1, MergedIsNewest
    <2>3. writes'[d].record = rec[d]
      BY <1>2, <2>1, MergedIsNewest
    <2>4. CASE g \in writes[d].groups \cup w[d].groups
      BY <2>2, <2>3, <2>4 DEF Coming, Carries
    <2>5. CASE g \notin writes[d].groups \cup w[d].groups
      BY <1>2, <2>5 DEF Saved, Coming, Executing, Carries
    <2> QED BY <2>4, <2>5
  <1>3. CASE d \in S /\ writes'[d] = writes[d] /\ ent'[d] = Restore(entry[d], w[d])
    <2>1. entry[d] \in Entry /\ w[d] \in Write /\ w[d].record = rec[d]
      BY <1>3
    <2>2. ent[d].dirty[g] # 0 => ent'[d].dirty[g] # 0
      <3> SUFFICES ASSUME ent[d].dirty[g] # 0 PROVE ent'[d].dirty[g] # 0
        OBVIOUS
      <3>1. rec[d].rev # 0
        BY DEF DirtyInv, HasDirty
      <3>2. Mark(entry[d], w[d]).dirty[g] # 0
        BY <2>1, <3>1, MarkDirties
      <3> QED BY <1>3, <2>1, <3>2, RestoreDirties
    <2> QED BY <1>3, <2>2, ChangeKept
  <1> QED BY <1>1, <1>2, <1>3 DEF SubmitWrites

LEMMA VersionsAreNumbers ==
  ASSUME NEW r, HasVersions(r), NEW g \in Groups
  PROVE  Version(r, g) \in Nat
  <1>1. g \in {"metadata", "status", "telemetry"}
    BY DEF Groups
  <1> QED BY <1>1, VersionOfGroup DEF HasVersions

LEMMA WrittenVersion ==
  ASSUME NEW d \in Devices, row[d] \in Row, NEW w \in Write, NEW g \in Groups
  PROVE  Version(RowAfterWrite(d, w), g)
           = IF g \in w.groups THEN Version(w.record, g) ELSE Version(row[d], g)
  <1> DEFINE r == RowAfterWrite(d, w)
  <1>1. /\ r.meta = IF "metadata" \in w.groups THEN w.record.meta ELSE row[d].meta
        /\ r.st = IF "status" \in w.groups THEN w.record.st ELSE row[d].st
        /\ r.tel = IF "telemetry" \in w.groups THEN w.record.tel ELSE row[d].tel
    BY DEF RowAfterWrite, TelemetryColumn, Row
  <1> HIDE DEF r
  <1>5. Version(r, g) = IF g \in w.groups THEN Version(w.record, g) ELSE Version(row[d], g)
    <2>2. CASE g = "metadata"
      BY <1>1, <2>2, VersionOfGroup
    <2>3. CASE g = "status"
      BY <1>1, <2>3, VersionOfGroup
    <2>4. CASE g = "telemetry"
      BY <1>1, <2>4, VersionOfGroup
    <2> QED BY <2>2, <2>3, <2>4 DEF Groups
  <1> QED BY <1>5 DEF r

(* A statement stores a group's newest value or leaves it stored. *)
LEMMA WrittenIsSaved ==
  ASSUME DataTypes, StorageInv, exec.kind = "write",
         row' = [row EXCEPT ![exec.dev] = RowAfterWrite(exec.dev, exec.write)],
         UNCHANGED <<rec>>, NEW d \in Devices, NEW g \in Groups
  PROVE  /\ Saved(d, g) => Saved(d, g)'
         /\ Executing(d, g) => Saved(d, g)'
  <1> DEFINE w == exec.write
             r == RowAfterWrite(exec.dev, w)
  <1>1. CASE exec.dev # d
    <2>1. row'[d] = row[d]
      BY <1>1 DEF DataTypes, TaskTypes
    <2> QED BY <1>1, <2>1 DEF Saved, Executing
  <1>2. CASE exec.dev = d
    <2>1. /\ row'[d] = r /\ row[d] \in Row /\ w \in Write /\ w.record \in Record
          /\ w.groups # {}
      BY <1>2, RecordsHaveVersions DEF DataTypes, TaskTypes, StorageInv, OrderInv, WriteInv
    <2>2. Behind(row[d], w.record) /\ Behind(w.record, rec[d])
      BY <1>2, <2>1 DEF StorageInv, OrderInv, ExecInv, Older
    <2>3. Version(r, g) = IF g \in w.groups THEN Version(w.record, g) ELSE Version(row[d], g)
      BY <1>2, <2>1, WrittenVersion
    <2>4. /\ Version(row[d], g) <= Version(w.record, g)
          /\ Version(w.record, g) <= Version(rec[d], g)
      BY <2>2, BehindVersions
    <2>5. /\ Version(row[d], g) \in Nat /\ Version(w.record, g) \in Nat
          /\ Version(rec[d], g) \in Nat
      BY <2>1, RecordsHaveVersions, VersionsAreNumbers
    <2> HIDE DEF r, w
    <2>6. Saved(d, g) => Version(row'[d], g) = Version(rec[d], g)
      BY <2>1, <2>3, <2>4, <2>5 DEF Saved
    <2>7. Executing(d, g) => Version(row'[d], g) = Version(rec[d], g)
      BY <2>1, <2>3 DEF Executing, Carries, w
    <2> QED BY <2>6, <2>7 DEF Saved
  <1> QED BY <1>1, <1>2

(* No step but the end of a thread that gave up, or of an abandoned drain, *)
(* forgets a change.                                                       *)
KeepsChanges ==
    \A d \in Devices, g \in Groups :
        Saved(d, g) \/ Coming(d, g) => (Saved(d, g) \/ Coming(d, g))'

LEMMA NothingForgotten ==
  ASSUME UNCHANGED <<rec, row, ent, writes, exec>>
  PROVE  KeepsChanges
  BY ChangeKept DEF KeepsChanges

LEMMA DirtyUnchanged ==
  ASSUME DirtyInv, UNCHANGED <<rec, ent>>
  PROVE  DirtyInv'
  BY DEF DirtyInv, HasDirty

LEMMA DirtyMarked ==
  ASSUME DirtyInv, NEW S \in SUBSET Devices, NEW w, \A d \in S : w[d].record.rev # 0,
         MarkAll(S, w)
  PROVE  DirtyInv'
  <1> SUFFICES ASSUME NEW d \in Devices PROVE HasDirty(ent'[d]) => rec'[d].rev # 0
    BY DEF DirtyInv, HasDirty
  <1>1. CASE d \in S
    BY <1>1 DEF MarkAll
  <1>2. CASE d \notin S
    BY <1>2 DEF MarkAll, DirtyInv
  <1> QED BY <1>1, <1>2

LEMMA DirtySubmitted ==
  ASSUME DataTypes, DirtyInv, NEW S \in SUBSET Devices, NEW w,
         \A d \in S : w[d] \in Write /\ w[d].record = rec[d],
         NEW entry \in [Devices -> Entry], SubmitWrites(S, w, entry), rec' = rec,
         \A d \in Devices : HasDirty(entry[d]) => HasDirty(ent[d])
  PROVE  DirtyInv'
  <1> SUFFICES ASSUME NEW d \in Devices, NEW g \in Groups, ent'[d].dirty[g] # 0
               PROVE  rec[d].rev # 0
    BY DEF DirtyInv, HasDirty
  <1>1. CASE ent'[d] = entry[d]
    BY <1>1 DEF DirtyInv, HasDirty
  <1>2. CASE d \in S /\ ent'[d] = Restore(entry[d], w[d])
    <2>1. entry[d] \in Entry /\ w[d] \in Write /\ w[d].record = rec[d]
      BY <1>2
    <2>2. Mark(entry[d], w[d]).dirty[g] # 0
      BY <1>2, <2>1, RestoreDirties
    <2>3. entry[d].dirty[g] # 0 \/ w[d].record.rev # 0
      BY <2>1, <2>2, MarkDirties
    <2> QED BY <2>1, <2>3 DEF DirtyInv, HasDirty
  <1> QED BY <1>1, <1>2 DEF SubmitWrites

LEMMA MarkedOne ==
  ASSUME DataTypes, DirtyInv, NEW e \in Devices, NEW w \in Write, w.record.rev # 0, MarkOne(e, w),
         UNCHANGED <<row, writes, exec>>,
         \A g \in Groups : g \in w.groups \/ Version(w.record, g) = Version(rec[e], g)
  PROVE  DirtyInv' /\ KeepsChanges
  <1>1. KeepsChanges
    <2> SUFFICES ASSUME NEW d \in Devices, NEW g \in Groups, Saved(d, g) \/ Coming(d, g)
                 PROVE  (Saved(d, g) \/ Coming(d, g))'
      BY DEF KeepsChanges
    <2>1. g \in w.groups \/ Version(w.record, g) = Version(rec[e], g)
      OBVIOUS
    <2> QED BY <2>1, MarkedOneIsComing
  <1> DEFINE v == [c \in {e} |-> w]
             S == {e}
  <1>2. S \in SUBSET Devices /\ \A c \in S : v[c].record.rev # 0
    OBVIOUS
  <1>3. MarkAll(S, v)
    BY DEF MarkOne
  <1> HIDE DEF v, S
  <1> QED BY <1>1, <1>2, <1>3, DirtyMarked

(* A registration writes metadata and status, telemetry the rest it sets. *)
LEMMA RegistrationGroups ==
  ASSUME NEW r \in Record, NEW d, NEW reg, NEW c, NEW g \in Groups
  PROVE  LET n == AfterRegistration(r, d, reg) IN
         /\ n.rev # 0
         /\ g \in WriteFor(n, FALSE, c).groups \/ Version(n, g) = Version(r, g)
  <1> DEFINE n == AfterRegistration(r, d, reg)
  <1>1. n.rev = r.rev + 1 /\ n.tel = r.tel /\ r.rev \in Nat
    BY DEF AfterRegistration, Record
  <1>2. WriteFor(n, FALSE, c).groups = {"metadata", "status"}
    BY DEF WriteFor, GroupsOf
  <1> HIDE DEF n
  <1>3. n.rev # 0
    BY <1>1
  <1>4. CASE g = "telemetry"
    BY <1>1, <1>3, <1>4, VersionOfGroup DEF n
  <1> QED BY <1>2, <1>3, <1>4 DEF Groups, n

LEMMA TelemetryGroups ==
  ASSUME NEW r \in Record, NEW d, NEW l, NEW g \in Groups
  PROVE  LET n == AfterTelemetry(r, d, l) IN
         /\ n.rev # 0
         /\ g \in WriteFor(n, TRUE, ~r.online).groups \/ Version(n, g) = Version(r, g)
  <1> DEFINE n == AfterTelemetry(r, d, l)
  <1>1. n.rev = r.rev + 1 /\ n.meta = r.meta /\ r.rev \in Nat
    BY DEF AfterTelemetry, Record
  <1>2. r.online => n.st = r.st
    BY DEF AfterTelemetry
  <1>3. /\ "telemetry" \in WriteFor(n, TRUE, ~r.online).groups
        /\ ~r.online => "status" \in WriteFor(n, TRUE, ~r.online).groups
    BY DEF WriteFor, GroupsOf
  <1>4. n.rev # 0
    BY <1>1
  <1> HIDE DEF n
  <1>5. g \in WriteFor(n, TRUE, ~r.online).groups \/ Version(n, g) = Version(r, g)
    <2>1. CASE g = "metadata"
      BY <1>1, <2>1, VersionOfGroup
    <2>2. CASE g = "status"
      BY <1>2, <1>3, <2>2, VersionOfGroup
    <2>3. CASE g = "telemetry"
      BY <1>3, <2>3
    <2> QED BY <2>1, <2>2, <2>3 DEF Groups
  <1> QED BY <1>4, <1>5 DEF n

LEMMA ExpiryGroups ==
  ASSUME NEW r \in Record, NEW g \in Groups
  PROVE  LET n == Expired(r) IN
         /\ n.rev # 0
         /\ g \in WriteFor(n, FALSE, TRUE).groups \/ Version(n, g) = Version(r, g)
  <1> DEFINE n == Expired(r)
  <1>1. n.rev = r.rev + 1 /\ n.tel = r.tel /\ r.rev \in Nat
    BY DEF Expired, Record
  <1>2. WriteFor(n, FALSE, TRUE).groups = {"metadata", "status"}
    BY DEF WriteFor, GroupsOf
  <1> HIDE DEF n
  <1>3. n.rev # 0
    BY <1>1
  <1>4. CASE g = "telemetry"
    BY <1>1, <1>3, <1>4, VersionOfGroup DEF n
  <1> QED BY <1>2, <1>3, <1>4 DEF Groups, n

LEMMA MessagesKeepChanges ==
  ASSUME DataTypes, DirtyInv, NEW d \in Devices,
         \/ \E reg \in Registration : HandleRegistration(d, reg)
         \/ \E l \in LabelOrNone : HandleTelemetry(d, l)
  PROVE  DirtyInv' /\ KeepsChanges
  <1>1. rec[d] \in Record /\ UNCHANGED <<row, writes, exec>>
    BY DEF DataTypes, RegistryTypes, HandleRegistration, HandleTelemetry, AtMessages, workerVars
  <1>2. ASSUME NEW reg \in Registration, HandleRegistration(d, reg)
        PROVE  DirtyInv' /\ KeepsChanges
    <2> DEFINE n == AfterRegistration(rec[d], d, reg)
               w == WriteFor(n, FALSE, rec[d].online # reg.online)
    <2>1. CASE UNCHANGED <<rec, ent>>
      BY <1>1, <2>1, DirtyUnchanged, NothingForgotten
    <2>2. CASE MarkOne(d, w)
      <3>1. n \in Record
        BY <1>1, AfterRegistrationType
      <3>2. w \in Write /\ w.record = n
        BY <3>1, WriteForIsWrite
      <3>3. n.rev # 0 /\ \A g \in Groups : g \in w.groups \/ Version(n, g) = Version(rec[d], g)
        <4>1. "status" \in Groups
          BY DEF Groups
        <4>2. ASSUME NEW g \in Groups
              PROVE  n.rev # 0 /\ (g \in w.groups \/ Version(n, g) = Version(rec[d], g))
          BY <1>1, RegistrationGroups
        <4> QED BY <4>1, <4>2
      <3> HIDE DEF n, w
      <3> QED BY <1>1, <2>2, <3>2, <3>3, MarkedOne
    <2> QED BY <1>2, <2>1, <2>2 DEF HandleRegistration
  <1>3. ASSUME NEW l \in LabelOrNone, HandleTelemetry(d, l)
        PROVE  DirtyInv' /\ KeepsChanges
    <2> DEFINE n == AfterTelemetry(rec[d], d, l)
               w == WriteFor(n, TRUE, ~rec[d].online)
    <2>1. MarkOne(d, w)
      BY <1>3 DEF HandleTelemetry
    <2>2. n \in Record
      BY <1>1, AfterTelemetryType
    <2>3. w \in Write /\ w.record = n
      BY <2>2, WriteForIsWrite
    <2>4. n.rev # 0 /\ \A g \in Groups : g \in w.groups \/ Version(n, g) = Version(rec[d], g)
      BY <1>1, TelemetryGroups DEF Groups
    <2> HIDE DEF n, w
    <2> QED BY <1>1, <2>1, <2>3, <2>4, MarkedOne
  <1> QED BY <1>2, <1>3

LEMMA ExpiryKeepsChanges ==
  ASSUME DataTypes, DirtyInv, NEW S \in SUBSET Devices, ExpireInactive(S)
  PROVE  DirtyInv' /\ KeepsChanges
  <1> DEFINE w == [d \in Devices |-> WriteFor(Expired(rec[d]), FALSE, TRUE)]
  <1>1. MarkAll(S, w) /\ UNCHANGED <<row, writes, exec>>
    BY DEF ExpireInactive, workerVars
  <1>2. \A d \in S : /\ w[d] \in Write /\ w[d].record.rev # 0
                     /\ \A g \in Groups : g \in w[d].groups
                                          \/ Version(w[d].record, g) = Version(rec[d], g)
    <2> TAKE d \in S
    <2>1. rec[d] \in Record
      BY DEF DataTypes, RegistryTypes
    <2>2. w[d] \in Write /\ w[d].record = Expired(rec[d]) /\ w[d] = WriteFor(Expired(rec[d]), FALSE, TRUE)
      BY <2>1, ExpiredType, WriteForIsWrite
    <2> QED BY <2>1, <2>2, ExpiryGroups DEF Groups
  <1> HIDE DEF w
  <1>3. DirtyInv'
    BY <1>1, <1>2, DirtyMarked
  <1>4. ASSUME NEW d \in Devices, NEW g \in Groups, Saved(d, g) \/ Coming(d, g)
        PROVE  (Saved(d, g) \/ Coming(d, g))'
    <2>1. \A e \in S : w[e] \in Write /\ w[e].record.rev # 0
      BY <1>2
    <2>2. d \in S => g \in w[d].groups \/ Version(w[d].record, g) = Version(rec[d], g)
      BY <1>2
    <2> QED BY <1>1, <1>4, <2>1, <2>2, MarkedIsComing
  <1> QED BY <1>3, <1>4 DEF KeepsChanges

LEMMA RecoveredKeepsChanges ==
  ASSUME DataTypes, StorageInv, DirtyInv, HandleRecovered
  PROVE  DirtyInv' /\ KeepsChanges
  <1> DEFINE S == {d \in known : degraded[d] # 0}
             w == [d \in Devices |-> RecoveryWrite(d)]
  <1>1. UNCHANGED <<rec, row, exec>> /\ ent \in [Devices -> Entry] /\ QueueInv
    BY DEF HandleRecovered, registryVars, NextResult, DataTypes, ServiceTypes, StorageInv, OrderInv
  <1>2. S \in SUBSET Devices /\ \A d \in S : w[d] \in Write /\ w[d].record = rec[d]
    BY RecoveryWriteIsWrite DEF DataTypes, RegistryTypes
  <1>3. SubmitWrites(S, w, ent)
    BY DEF HandleRecovered
  <1> HIDE DEF S, w
  <1>4. DirtyInv'
    BY <1>1, <1>2, <1>3, DirtySubmitted
  <1>5. ASSUME NEW d \in Devices, NEW g \in Groups, Saved(d, g) \/ Coming(d, g)
        PROVE  (Saved(d, g) \/ Coming(d, g))'
    BY <1>1, <1>2, <1>3, <1>5, SubmittedIsComing
  <1> QED BY <1>4, <1>5 DEF KeepsChanges

LEMMA DispatchKeepsChanges ==
  ASSUME DataTypes, StorageInv, DirtyInv, NEW d \in Devices, DispatchWrite(d)
  PROVE  DirtyInv' /\ KeepsChanges
  <1> DEFINE w == [e \in {d} |-> TakenWrite(ent[d])]
             entry == [ent EXCEPT ![d] = AfterTake(@)]
             S == {d}
  <1>1. UNCHANGED <<rec, row, exec>> /\ QueueInv
    BY DEF DispatchWrite, registryVars, StorageInv, OrderInv
  <1>2. ent \in [Devices -> Entry] /\ ent[d] \in Entry /\ HasDirty(ent[d]) /\ ent[d].record = rec[d]
    BY DEF DataTypes, ServiceTypes, DispatchWrite, StorageInv, TodoInv, OrderInv, EntryInv
  <1>3. S \in SUBSET Devices /\ \A e \in S : w[e] \in Write /\ w[e].record = rec[e]
    BY <1>2, TakeLeavesClean
  <1>4. /\ entry \in [Devices -> Entry]
        /\ entry[d] = AfterTake(ent[d]) /\ \A e \in Devices \ {d} : entry[e] = ent[e]
    BY <1>2, TakeType
  <1>5. SubmitWrites(S, w, entry)
    BY DEF DispatchWrite
  <1>6. \A g \in Groups : ent[d].dirty[g] # 0 => g \in w[d].groups
    BY DEF TakenWrite
  <1>7. d \in S
    OBVIOUS
  <1> HIDE DEF S, w, entry
  <1>8. \A e \in Devices : HasDirty(entry[e]) => HasDirty(ent[e])
    BY <1>2, <1>4, TakeLeavesClean
  <1>9. DirtyInv'
    BY <1>1, <1>3, <1>4, <1>5, <1>8, DirtySubmitted
  <1>10. ASSUME NEW e \in Devices, NEW g \in Groups, Saved(e, g) \/ Coming(e, g)
         PROVE  (Saved(e, g) \/ Coming(e, g))'
    <2>1. ent[e].dirty[g] # 0 => entry[e].dirty[g] # 0 \/ (e \in S /\ g \in w[e].groups)
      BY <1>4, <1>6, <1>7
    <2> QED BY <1>1, <1>3, <1>4, <1>5, <1>10, <2>1, SubmittedIsComing
  <1> QED BY <1>9, <1>10 DEF KeepsChanges

LEMMA CompletedKeepsChanges ==
  ASSUME DataTypes, DirtyInv, HandleWriteCompleted
  PROVE  DirtyInv' /\ KeepsChanges
  <1>1. UNCHANGED <<rec, row, writes, exec>> /\ ent \in [Devices -> Entry]
    BY DEF HandleWriteCompleted, registryVars, NextResult, DataTypes, ServiceTypes
  <1>2. \A d \in Devices, g \in Groups : ent'[d].dirty[g] # 0 <=> ent[d].dirty[g] # 0
    <2>1. CASE ent' = ent
      BY <2>1
    <2>2. ASSUME NEW e \in Devices, NEW w, ent' = [ent EXCEPT ![e] = Complete(@, w)],
                 NEW d \in Devices, NEW g \in Groups
          PROVE  ent'[d].dirty[g] # 0 <=> ent[d].dirty[g] # 0
      <3>1. CASE d = e
        <4>1. ent'[d] = Complete(ent[d], w) /\ ent[d] \in Entry
          BY <1>1, <2>2, <3>1
        <4> QED BY <4>1, CompleteDirties
      <3>2. CASE d # e
        BY <1>1, <2>2, <3>2
      <3> QED BY <3>1, <3>2
    <2> QED BY <2>1, <2>2 DEF HandleWriteCompleted, Submitted
  <1>3. DirtyInv'
    BY <1>1, <1>2 DEF DirtyInv, HasDirty
  <1> QED BY <1>1, <1>2, <1>3, ChangeKept DEF KeepsChanges

LEMMA ProvisionedKeepsChanges ==
  ASSUME DataTypes, StorageInv, DirtyInv, HandleProvisioned
  PROVE  DirtyInv' /\ KeepsChanges
  <1> DEFINE r == Head(results)
             d == r.dev
             n == AfterRegistration(r.record, d, pend[d].reg)
             w == WriteFor(n, FALSE, TRUE)
  <1>1. UNCHANGED <<row, writes, exec>> /\ r \in Result /\ r.kind = "provisioned"
    BY NextResultTypes DEF HandleProvisioned, NextResult
  <1>2. CASE UNCHANGED <<rec, ent>>
    BY <1>1, <1>2, DirtyUnchanged, NothingForgotten
  <1>3. CASE d \in Pending /\ CanAdd(d, r.record) /\ MarkOne(d, w)
    <2>2. d \in Devices /\ d \notin known /\ r.record \in Record
      BY <1>1, <1>3 DEF Pending, CanAdd, Result
    <2>3. ProvisionedIsNew(r)
      <3>1. results # <<>> /\ results \in Seq(Result)
        BY DEF HandleProvisioned, NextResult, DataTypes, TaskTypes
      <3>2. 1 \in 1 .. Len(results) /\ r = results[1]
        BY <3>1
      <3> QED BY <3>2 DEF StorageInv, ResultInv
    <2>4. IsNew(r.record) /\ rec[d] = Blank
      BY <1>1, <2>2, <2>3 DEF ProvisionedIsNew, StorageInv, OrderInv, NewInv
    <2>5. pend[d].reg \in Registration /\ w \in Write /\ w.record = n
      BY <1>3, <2>2, ProvisionedWrite
    <2>6. \A g \in Groups : Version(r.record, g) = 0 /\ Version(rec[d], g) = 0
      BY <2>4, VersionOfGroup DEF Groups, IsNew, Blank
    <2>7. n.rev # 0 /\ \A g \in Groups : g \in w.groups \/ Version(n, g) = Version(rec[d], g)
      <3>1. "status" \in Groups
        BY DEF Groups
      <3>2. ASSUME NEW g \in Groups
            PROVE  n.rev # 0 /\ (g \in w.groups \/ Version(n, g) = Version(r.record, g))
        BY <2>2, RegistrationGroups
      <3> QED BY <2>6, <3>1, <3>2
    <2> HIDE DEF w, n, d
    <2> QED BY <1>1, <1>3, <2>2, <2>5, <2>7, MarkedOne
  <1> QED BY <1>2, <1>3 DEF HandleProvisioned, registryVars

LEMMA BusinessKeepsChanges ==
  ASSUME DataTypes, StorageInv, DirtyInv, EndInv, BusinessThread
  PROVE  DirtyInv' /\ (KeepsChanges \/ Abandoned)
  <1> USE DEF registryVars, serviceVars, workerVars, threadVars
  <1>1. CASE UNCHANGED <<rec, row, ent, writes, exec>>
    BY <1>1, DirtyUnchanged, NothingForgotten
  <1>2. CASE HandleUnavailable \/ HandlePermanentFailure
    BY <1>1, <1>2 DEF HandleUnavailable, HandlePermanentFailure, NextResult
  <1>3. CASE HandleRecovered \/ HandleProvisioned \/ HandleWriteCompleted
    BY <1>3, RecoveredKeepsChanges, ProvisionedKeepsChanges, CompletedKeepsChanges
  <1>4. CASE LeaveResults
    <2>1. CASE cancel
      <3>1. UNCHANGED rec /\ ent' = [d \in Devices |-> NoEntry]
        BY <1>4, <2>1 DEF LeaveResults
      <3>2. ~HasDirty(NoEntry)
        BY ConstantTypes
      <3> QED BY <2>1, <3>1, <3>2 DEF DirtyInv, HasDirty, EndInv
    <2>2. CASE ~cancel
      BY <1>1, <1>4, <2>2 DEF LeaveResults
    <2> QED BY <2>1, <2>2
  <1>5. CASE \E d \in Devices : \/ \E reg \in Registration : HandleRegistration(d, reg)
                                \/ \E l \in LabelOrNone : HandleTelemetry(d, l)
    BY <1>5, MessagesKeepChanges
  <1>6. CASE \E d \in Devices : DispatchWrite(d)
    BY <1>6, DispatchKeepsChanges
  <1>7. CASE \E S \in SUBSET Devices : ExpireInactive(S)
    BY <1>7, ExpiryKeepsChanges
  <1>8. CASE \/ LeaveMessages \/ EndRound \/ CheckInput \/ DecideToLeave
             \/ \E d \in Devices : SubmitCandidate(d) \/ NotYetDue(d)
    BY <1>1, <1>8 DEF LeaveMessages, SubmitCandidate, NotYetDue, EndRound, CheckInput, DecideToLeave
  <1> QED BY <1>2, <1>3, <1>4, <1>5, <1>6, <1>7, <1>8 DEF BusinessThread

KeepsHanded == \A d \in Devices, g \in Groups : Handed(d, g) => Handed(d, g)'

LEMMA HandedKeepsChanges ==
  ASSUME KeepsHanded, UNCHANGED ent
  PROVE  KeepsChanges
  BY DEF KeepsHanded, KeepsChanges, Handed, Coming

LEMMA HandedKept ==
  ASSUME UNCHANGED <<rec, row, writes>>, exec' = exec \/ exec.kind # "write"
  PROVE  KeepsHanded
  BY DEF KeepsHanded, Handed, Saved, Carries, Executing

LEMMA TakeKeepsHanded ==
  ASSUME DataTypes, NEW t \in Devices, TakeWrite(t), UNCHANGED rec
  PROVE  KeepsHanded
  <1>1. /\ exec.kind # "write" /\ exec'.kind = "write" /\ exec'.dev = t /\ exec'.write = writes[t]
        /\ \A d \in Devices \ {t} : writes'[d] = writes[d]
        /\ row' = row
    BY IdleType DEF TakeWrite, AtLoop, Idle, DataTypes, TaskTypes
  <1> SUFFICES ASSUME NEW d \in Devices, NEW g \in Groups, Handed(d, g)
               PROVE  Handed(d, g)'
    BY DEF KeepsHanded
  <1>2. CASE d # t
    BY <1>1, <1>2 DEF Handed, Saved, Executing, Carries
  <1>3. CASE d = t
    BY <1>1, <1>3 DEF Handed, Saved, Executing, Carries
  <1> QED BY <1>2, <1>3

(* The insertion of a device changes no group that has a value. *)
LEMMA ProvisionKeepsSaved ==
  ASSUME DataTypes, StorageInv, NEW t \in Devices, NEW reg \in Registration,
         row' = [row EXCEPT ![t] = RowAfterProvision(t, reg)], rec' = rec,
         NEW d \in Devices, NEW g \in Groups, Saved(d, g)
  PROVE  Saved(d, g)'
  <1>1. CASE d # t
    BY <1>1 DEF Saved, DataTypes, TaskTypes
  <1>2. CASE d = t
    <2> DEFINE r == RowAfterProvision(d, reg)
    <2>1. row'[d] = r /\ (d \in known => r = row[d]) /\ (d \notin known => IsNew(r))
      BY <1>2, ProvisionIsNew DEF DataTypes, TaskTypes, StorageInv
    <2> HIDE DEF r
    <2>2. CASE d \in known
      BY <2>1, <2>2 DEF Saved
    <2>3. CASE d \notin known
      <3>1. rec[d] = Blank /\ IsNew(r)
        BY <2>1, <2>3 DEF StorageInv, OrderInv, NewInv
      <3>2. Version(r, g) = 0 /\ Version(rec[d], g) = 0
        BY <3>1, VersionOfGroup DEF Groups, IsNew, Blank
      <3> QED BY <2>1, <3>2 DEF Saved
    <2> QED BY <2>2, <2>3
  <1> QED BY <1>1, <1>2

LEMMA ProvisionKeepsHanded ==
  ASSUME DataTypes, StorageInv, exec.kind = "provision", UNCHANGED <<rec, writes>>,
         row' = row \/ row' = [row EXCEPT ![exec.dev] = RowAfterProvision(exec.dev, exec.reg)]
  PROVE  KeepsHanded
  <1>1. exec.dev \in Devices /\ exec.reg \in Registration
    BY DEF DataTypes, CandidateInv
  <1> SUFFICES ASSUME NEW d \in Devices, NEW g \in Groups, Handed(d, g)
               PROVE  Handed(d, g)'
    BY DEF KeepsHanded
  <1>2. CASE Saved(d, g)
    BY <1>1, <1>2, ProvisionKeepsSaved DEF Handed, Saved
  <1>3. CASE Carries(writes[d], d, g)
    BY <1>3 DEF Handed, Carries
  <1> QED BY <1>2, <1>3 DEF Handed, Executing

LEMMA NoLabelStored ==
  ASSUME NoLabels, NEW d, NEW l \in LabelOrNone
  PROVE  ~LabelStored(d, l)
  BY DEF NoLabels, LabelOrNone, LabelStored

LEMMA WriteKeepsHanded ==
  ASSUME NoLabels, DataTypes, StorageInv, WriteState, UNCHANGED rec
  PROVE  KeepsHanded
  <1>1. exec.kind = "write" /\ writes' = writes
    BY DEF WriteState
  <1>2. exec.write.record.label \in LabelOrNone
    BY RecordsHaveVersions DEF Record
  <1>3. ~LabelStored(exec.dev, exec.write.record.label)
    BY <1>2, NoLabelStored
  <1>4. row' = [row EXCEPT ![exec.dev] = RowAfterWrite(exec.dev, exec.write)]
    BY <1>3 DEF WriteState
  <1> SUFFICES ASSUME NEW d \in Devices, NEW g \in Groups, Handed(d, g)
               PROVE  Handed(d, g)'
    BY DEF KeepsHanded
  <1>5. CASE Saved(d, g) \/ Executing(d, g)
    BY <1>1, <1>4, <1>5, WrittenIsSaved DEF Handed
  <1>6. CASE Carries(writes[d], d, g)
    BY <1>1, <1>6 DEF Handed, Carries
  <1> QED BY <1>5, <1>6 DEF Handed

(* A write that is put back is merged with the one submitted meanwhile,    *)
(* whose record is the same or newer.                                      *)
LEMMA PutBackIsComing ==
  ASSUME DataTypes, StorageInv, exec.kind = "write", NEW d \in Devices, d = exec.dev,
         writes'[d] = MergeWrite(writes[d], exec.write), rec' = rec, NEW g \in Groups,
         Carries(writes[d], d, g) \/ Executing(d, g)
  PROVE  Carries(writes[d], d, g)'
  <1> DEFINE v == writes[d]
             w == exec.write
  <1>1. v \in Write /\ w \in Write /\ v.record \in Record /\ w.record \in Record
    BY RecordsHaveVersions
  <1>2. MergeWrite(v, w).groups = v.groups \cup w.groups
    BY <1>1, MergeTakesOne
  <1>3. w.groups # {}
    BY DEF StorageInv, OrderInv, WriteInv
  <1>4. CASE v.groups = {}
    <2>1. writes'[d] = w
      BY <1>1, <1>4, MergeTakesOne
    <2> QED BY <1>4, <2>1 DEF Carries, Executing
  <1>5. CASE v.groups # {}
    <2>1. Older(w.record, v.record) /\ Behind(v.record, rec[d])
      BY <1>3, <1>5 DEF StorageInv, OrderInv, ExecInv, QueueInv, Older
    <2>2. MergeWrite(v, w).record = v.record
      <3>1. v.record.rev \in Nat /\ w.record.rev \in Nat
        BY <1>1 DEF Record
      <3>2. w.record.rev >= v.record.rev => w.record = v.record
        BY <2>1, <3>1 DEF Older
      <3> QED BY <1>5, <3>2 DEF MergeWrite
    <2>3. /\ Version(w.record, g) <= Version(v.record, g)
          /\ Version(v.record, g) <= Version(rec[d], g)
      BY <2>1, BehindVersions DEF Older
    <2>4. /\ Version(w.record, g) \in Nat /\ Version(v.record, g) \in Nat
          /\ Version(rec[d], g) \in Nat
      BY <1>1, RecordsHaveVersions, VersionsAreNumbers
    <2>5. g \in v.groups \cup w.groups
      BY DEF Carries, Executing
    <2>6. Version(v.record, g) = Version(rec[d], g)
      <3>1. Version(v.record, g) = Version(rec[d], g) \/ Version(w.record, g) = Version(rec[d], g)
        BY DEF Carries, Executing
      <3> QED BY <2>3, <2>4, <3>1
    <2>7. writes'[d].record = v.record /\ writes'[d].groups = v.groups \cup w.groups
      BY <1>2, <2>2
    <2> QED BY <2>5, <2>6, <2>7 DEF Carries
  <1> QED BY <1>4, <1>5

LEMMA LossKeepsHanded ==
  ASSUME DataTypes, StorageInv, LoseConnection, UNCHANGED rec
  PROVE  KeepsHanded
  <1>1. CASE exec.kind = "provision"
    <2>1. /\ writes' = writes
          /\ row' = row \/ row' = [row EXCEPT ![exec.dev] = RowAfterProvision(exec.dev, exec.reg)]
      BY <1>1 DEF LoseConnection
    <2> QED BY <1>1, <2>1, ProvisionKeepsHanded
  <1>2. CASE exec.kind = "write"
    <2>1. /\ writes' = [writes EXCEPT ![exec.dev] = MergeWrite(@, exec.write)]
          /\ row' = row \/ row' = [row EXCEPT ![exec.dev] = RowAfterWrite(exec.dev, exec.write)]
      BY <1>2 DEF LoseConnection
    <2> SUFFICES ASSUME NEW d \in Devices, NEW g \in Groups, Handed(d, g)
                 PROVE  Handed(d, g)'
      BY DEF KeepsHanded
    <2>2. CASE Saved(d, g)
      BY <1>2, <2>1, <2>2, WrittenIsSaved DEF Saved, Handed
    <2>4. CASE Carries(writes[d], d, g) \/ Executing(d, g)
      <3>1. CASE d = exec.dev
        <4>1. writes'[d] = MergeWrite(writes[d], exec.write)
          BY <2>1, <3>1 DEF DataTypes, TaskTypes
        <4> QED BY <1>2, <2>4, <3>1, <4>1, PutBackIsComing DEF Handed
      <3>2. CASE d # exec.dev
        <4>1. writes'[d] = writes[d]
          BY <2>1, <3>2 DEF DataTypes, TaskTypes
        <4> QED BY <2>4, <3>2, <4>1 DEF Handed, Carries, Executing
      <3> QED BY <3>1, <3>2
    <2> QED BY <2>2, <2>4 DEF Handed
  <1> QED BY <1>1, <1>2 DEF LoseConnection

LEMMA DatabaseKeepsHanded ==
  ASSUME NoLabels, DataTypes, StorageInv, DatabaseThread
  PROVE  KeepsHanded \/ GiveUp
  <1>1. UNCHANGED rec
    BY DEF DatabaseThread, Emit, registryVars
  <1>2. CASE \E d \in Devices : TakeWrite(d)
    BY <1>1, <1>2, TakeKeepsHanded
  <1>3. CASE Provision
    <2>1. /\ exec.kind = "provision" /\ writes' = writes
          /\ row' = row \/ row' = [row EXCEPT ![exec.dev] = RowAfterProvision(exec.dev, exec.reg)]
      BY <1>3 DEF Provision
    <2> QED BY <1>1, <2>1, ProvisionKeepsHanded
  <1>4. CASE WriteState
    BY <1>1, <1>4, WriteKeepsHanded
  <1>5. CASE LoseConnection
    BY <1>1, <1>5, LossKeepsHanded
  <1>6. CASE \/ Emit \/ CommandLosesConnection \/ Reconnect \/ MigrationMismatch
             \/ Finish(stopRequested) \/ \E d \in Devices : TakeProvision(d)
    <2>1. UNCHANGED <<row, writes>>
      BY <1>6 DEF Emit, CommandLosesConnection, Reconnect, MigrationMismatch, Finish, TakeProvision
    <2>2. exec' = exec \/ exec.kind # "write"
      BY <1>6, IdleType DEF Emit, CommandLosesConnection, Reconnect, MigrationMismatch, Finish,
                            TakeProvision, AtLoop
    <2> QED BY <1>1, <2>1, <2>2, HandedKept
  <1> QED BY <1>2, <1>3, <1>4, <1>5, <1>6 DEF DatabaseThread

LEMMA DatabaseKeepsChanges ==
  ASSUME NoLabels, DataTypes, StorageInv, GiveUpInv, DatabaseThread
  PROVE  KeepsChanges \/ (stopped' /\ unavailable')
  <1>1. UNCHANGED ent
    BY DEF DatabaseThread, Emit, serviceVars
  <1>2. CASE GiveUp
    BY <1>2 DEF GiveUp, GiveUpInv
  <1> QED BY <1>1, <1>2, DatabaseKeepsHanded, HandedKeepsChanges

(* A thread that ended while the connection was down stays so. *)
LEMMA EndIsFinal ==
  ASSUME DeviceTypes, TaskInv, [Next]_deviceVars, stopped, unavailable
  PROVE  stopped' /\ unavailable'
  <1> USE DEF registryVars, serviceVars, workerVars, threadVars, drainVars, mainVars
  <1>1. CASE BusinessThread
    BY <1>1 DEF BusinessThread, HandleUnavailable, HandlePermanentFailure, HandleRecovered,
               HandleProvisioned, HandleWriteCompleted, NextResult, LeaveResults,
               HandleRegistration, HandleTelemetry, AtMessages, SubmitCandidate, DispatchWrite,
               NotYetDue, LeaveMessages, ExpireInactive, EndRound, CheckInput, DecideToLeave
  <1>2. CASE DatabaseThread
    <2>1. exec = Idle /\ emit = NoResult
      BY DEF TaskInv
    <2>2. FALSE
      BY <1>2, <2>1, IdleType
         DEF DatabaseThread, Emit, TakeProvision, TakeWrite, Provision, WriteState,
             LoseConnection, CommandLosesConnection, Reconnect, MigrationMismatch, GiveUp, Finish,
             AtLoop
    <2> QED BY <2>2
  <1>3. CASE MainThread
    BY <1>3, MainThreadUnchanged
  <1>4. CASE UNCHANGED deviceVars
    BY <1>4, StutterUnchanged
  <1> QED BY <1>1, <1>2, <1>3, <1>4 DEF Next

LEMMA ChangeNext ==
  ASSUME NoLabels, DeviceTypes, StorageInv, TaskInv, GiveUpInv, EndInv, DirtyInv, ChangeInv,
         [Next]_deviceVars
  PROVE  DirtyInv' /\ ChangeInv'
  <1>1. DataTypes
    BY DEF DeviceTypes
  <1>2. (Abandoned => Abandoned') /\ EndInv'
    BY EndNext
  <1>3. stopped /\ unavailable => stopped' /\ unavailable'
    BY EndIsFinal
  <1>4. DirtyInv' /\ (KeepsChanges \/ Abandoned \/ (stopped' /\ unavailable'))
    <2>1. CASE BusinessThread
      BY <1>1, <2>1, BusinessKeepsChanges
    <2>2. CASE DatabaseThread
      <3>1. UNCHANGED <<rec, ent>>
        BY <2>2 DEF DatabaseThread, Emit, registryVars, serviceVars
      <3> QED BY <1>1, <2>2, <3>1, DatabaseKeepsChanges, DirtyUnchanged
    <2>3. CASE MainThread
      BY <2>3, MainThreadUnchanged, DirtyUnchanged, NothingForgotten
    <2>4. CASE UNCHANGED deviceVars
      BY <2>4, StutterUnchanged, DirtyUnchanged, NothingForgotten
    <2> QED BY <2>1, <2>2, <2>3, <2>4 DEF Next
  <1>5. ChangeInv'
    BY <1>2, <1>3, <1>4 DEF ChangeInv, KeepsChanges
  <1> QED BY <1>4, <1>5

LEMMA ChangeInit ==
  ASSUME Init
  PROVE  DirtyInv /\ ChangeInv
  <1>1. \A d \in Devices : StartOrder(row[d], rec[d], writes[d], d)
    BY InitIsOrdered
  <1>2. DirtyInv
    <2>1. ~HasDirty(NoEntry)
      BY ConstantTypes
    <2> QED BY <2>1 DEF Init, DirtyInv
  <1>3. ASSUME NEW d \in Devices, NEW g \in Groups
        PROVE  Saved(d, g) \/ Coming(d, g)
    <2>1. CASE g \in {"metadata", "telemetry"} \/ rec[d].st = 0
      BY <1>1, <2>1, VersionOfGroup DEF StartOrder, Saved, Groups
    <2>2. CASE g = "status" /\ rec[d].st # 0
      BY <1>1, <2>2, VersionOfGroup DEF StartOrder, Coming, Carries
    <2> QED BY <2>1, <2>2 DEF Groups
  <1> QED BY <1>2, <1>3 DEF ChangeInv

LEMMA ChangesHold ==
  NoLabels /\ (NoMigration \/ NoCommandOutage) => (Spec => []ChangeInv)
  <1> SUFFICES ASSUME NoLabels, NoMigration \/ NoCommandOutage PROVE Spec => []ChangeInv
    OBVIOUS
  <1>1. Init => DirtyInv /\ ChangeInv
    BY ChangeInit
  <1>2. /\ DeviceTypes /\ StorageInv /\ TaskInv /\ GiveUpInv /\ EndInv /\ DirtyInv /\ ChangeInv
        /\ [Next]_deviceVars
        => DirtyInv' /\ ChangeInv'
    BY ChangeNext
  <1> QED BY <1>1, <1>2, DeviceTypesHold, StorageOrdered, TaskHolds, GiveUpHolds, EndHolds, PTL
          DEF Spec

LEMMA ComingIsUnderWay ==
  ASSUME EntryInv, NEW d \in Devices, NEW g \in Groups, Coming(d, g)
  PROVE  UnderWay(d, g)
  <1>1. ent[d].dirty[g] # 0 => ent[d].record = rec[d]
    BY DEF EntryInv, HasDirty
  <1> QED BY <1>1 DEF Coming, Executing, UnderWay

(* While the table has an older value of a group, the newest one is dirty, *)
(* queued or being written, whatever was merged, restored, put back or     *)
(* completed on the way (DirtyState, MergeWrite, the handlers of results). *)
THEOREM ChangesAreUnderWay ==
  NoLabels /\ NoMigration => (Spec => []ChangeIsUnderWay)
  <1> SUFFICES ASSUME NoLabels, NoMigration PROVE Spec => []ChangeIsUnderWay
    OBVIOUS
  <1>1. DeviceTypes /\ StorageInv /\ EndInv /\ ChangeInv => ChangeIsUnderWay
    <2> SUFFICES ASSUME DeviceTypes, StorageInv, EndInv, ChangeInv, ~Abandoned,
                        NEW d \in known, NEW g \in Groups
                 PROVE  Saved(d, g) \/ UnderWay(d, g)
      BY DEF ChangeIsUnderWay
    <2>1. d \in Devices /\ EntryInv
      BY DEF DeviceTypes, DataTypes, RegistryTypes, StorageInv, OrderInv
    <2>2. Saved(d, g) \/ Coming(d, g)
      BY <2>1 DEF ChangeInv, EndInv
    <2> QED BY <2>1, <2>2, ComingIsUnderWay
  <1> QED BY <1>1, ChangesHold, DeviceTypesHold, StorageOrdered, EndHolds, PTL

(* A device that is reported as healthy is stored, or its newest values    *)
(* wait to be written, also when the database thread gives up after a      *)
(* reconnection finds a foreign schema and drops its queue.                *)
THEOREM HealthyIsStored ==
  NoLabels /\ (NoMigration \/ NoCommandOutage) => (Spec => []DegradedUntilSaved)
  <1> SUFFICES ASSUME NoLabels, NoMigration \/ NoCommandOutage
               PROVE  Spec => []DegradedUntilSaved
    OBVIOUS
  <1> DEFINE Fail(d) == \/ IsDegraded(d)
                        \/ \E r \in ResultsOf({"unavailable", "permanent"}) : r.dev \in {d, NoDevice}
                        \/ ResultsOf({"unavailable"}) # {}
  <1>1. DeviceTypes /\ AvailInv /\ unavailable => \A d \in Devices : Fail(d)
    <2> SUFFICES ASSUME DeviceTypes, AvailInv, unavailable, NEW d \in Devices PROVE Fail(d)
      OBVIOUS
    <2>1. CASE emit.kind = "unavailable"
      <3>1. emit \in ResultsOf({"unavailable"})
        BY <2>1 DEF ResultsOf
      <3> QED BY <3>1
    <2>2. CASE Down
      <3> PICK i \in 0 .. Len(results) : IF i = 0 THEN dbUnavailable ELSE results[i].kind = "unavailable"
        BY <2>2 DEF Down
      <3>1. CASE i = 0
        BY <3>1 DEF IsDegraded
      <3>2. CASE i # 0
        <4>3. results[i].kind = "unavailable"
          BY <3>2
        <4>5. results \in Seq(Result)
          BY DEF DeviceTypes, DataTypes, TaskTypes
        <4>4. Len(results) \in Nat
          BY <4>5
        <4>1. i \in 1 .. Len(results) /\ results[i].kind = "unavailable"
          BY <3>2, <4>3, <4>4
        <4>2. results[i] \in ResultsOf({"unavailable"})
          BY <4>1 DEF ResultsOf
        <4> QED BY <4>2
      <3> QED BY <3>1, <3>2
    <2> QED BY <2>1, <2>2 DEF AvailInv
  <1>2. ASSUME NEW d \in Devices, NEW g \in Groups, EntryInv, Saved(d, g) \/ Coming(d, g) \/ Fail(d)
        PROVE  Saved(d, g) \/ UnderWay(d, g) \/ Fail(d)
    BY <1>2, ComingIsUnderWay
  <1>3. CASE NoMigration
    <2>1. ChangeIsUnderWay => DegradedUntilSaved
      BY DEF ChangeIsUnderWay, DegradedUntilSaved
    <2> QED BY <1>3, <2>1, ChangesAreUnderWay, PTL
  <1>4. CASE NoCommandOutage
    <2>1. DeviceTypes /\ StorageInv /\ AvailInv /\ ChangeInv => DegradedUntilSaved
      <3> SUFFICES ASSUME DeviceTypes, StorageInv, AvailInv, ChangeInv, ~Abandoned,
                          NEW d \in known, NEW g \in Groups
                   PROVE  Saved(d, g) \/ UnderWay(d, g) \/ Fail(d)
        BY DEF DegradedUntilSaved
      <3>1. d \in Devices /\ EntryInv
        BY DEF DeviceTypes, DataTypes, RegistryTypes, StorageInv, OrderInv
      <3>2. Saved(d, g) \/ Coming(d, g) \/ unavailable
        BY <3>1 DEF ChangeInv
      <3>3. unavailable => Fail(d)
        BY <1>1, <3>1
      <3> HIDE DEF Fail
      <3> QED BY <1>2, <3>1, <3>2, <3>3
    <2> QED BY <1>4, <2>1, AvailHolds, ChangesHold, DeviceTypesHold, StorageOrdered, PTL
  <1> QED BY <1>3, <1>4

-------------------------------------------------------------------------------
(* Submitted candidates *)

(* A thread without a connection has dropped its provisions. *)
DroppedInv == unavailable => provisions = NoProvisions

Awaited(d) ==
    \/ provisions[d] # NoCandidate
    \/ exec.kind = "provision" /\ exec.dev = d
    \/ \E r \in Flight : r.kind \in {"provisioned", "permanent"} /\ r.dev \in {d, NoDevice}
    \/ \E r \in Flight : r.kind = "unavailable"
AwaitInv == \A d \in Devices : pend[d].sent => Awaited(d)

LEMMA AwaitKept ==
  ASSUME AwaitInv, NEW d \in Devices, pend'[d].sent => pend[d].sent,
         provisions[d] # NoCandidate => provisions'[d] # NoCandidate,
         exec' = exec \/ exec.kind # "provision",
         \A r \in Flight : r.kind \in {"provisioned", "permanent", "unavailable"} => r \in Flight'
  PROVE  pend'[d].sent => Awaited(d)'
  BY DEF AwaitInv, Awaited

LEMMA DroppedNext ==
  ASSUME DeviceTypes, DroppedInv, [Next]_deviceVars
  PROVE  DroppedInv'
  <1> USE DEF registryVars, serviceVars, workerVars, threadVars
  <1>1. CASE UNCHANGED <<unavailable, provisions>>
    BY <1>1 DEF DroppedInv, NoProvisions
  <1>2. ASSUME NEW d \in Devices, SubmitCandidate(d) PROVE DroppedInv'
    <2>1. unavailable' = unavailable /\ (unavailable => provisions' = provisions)
      BY <1>2 DEF SubmitCandidate
    <2> QED BY <2>1 DEF DroppedInv, NoProvisions
  <1>3. CASE \/ HandleUnavailable \/ HandlePermanentFailure \/ HandleRecovered
             \/ HandleProvisioned \/ HandleWriteCompleted
             \/ LeaveResults \/ LeaveMessages \/ EndRound \/ CheckInput \/ DecideToLeave
             \/ \E d \in Devices : \/ \E reg \in Registration : HandleRegistration(d, reg)
                                   \/ \E l \in LabelOrNone : HandleTelemetry(d, l)
                                   \/ DispatchWrite(d) \/ NotYetDue(d)
             \/ \E S \in SUBSET Devices : ExpireInactive(S)
    <2>1. UNCHANGED <<unavailable, provisions>>
      BY <1>3 DEF HandleUnavailable, HandlePermanentFailure, HandleRecovered, HandleProvisioned,
                  HandleWriteCompleted, NextResult, LeaveResults, HandleRegistration,
                  HandleTelemetry, AtMessages, DispatchWrite, NotYetDue, LeaveMessages,
                  ExpireInactive, EndRound, CheckInput, DecideToLeave
    <2> QED BY <1>1, <2>1
  <1>4. CASE DatabaseThread
    <2>1. CASE \/ Emit \/ WriteState \/ MigrationMismatch \/ Finish(stopRequested)
               \/ \E d \in Devices : TakeWrite(d)
      BY <1>1, <2>1 DEF Emit, WriteState, MigrationMismatch, Finish, TakeWrite
    <2>2. CASE Reconnect \/ \E d \in Devices : TakeProvision(d)
      BY <2>2 DEF Reconnect, TakeProvision, DroppedInv
    <2>3. CASE LoseConnection \/ CommandLosesConnection \/ GiveUp
      BY <2>3 DEF LoseConnection, CommandLosesConnection, GiveUp, DroppedInv, NoProvisions
    <2>4. CASE Provision
      <3>1. unavailable' = unavailable /\ provisions' = [provisions EXCEPT ![exec.dev] = NoCandidate]
        BY <2>4 DEF Provision
      <3>2. provisions = NoProvisions => provisions' = NoProvisions
        BY <3>1 DEF NoProvisions
      <3> QED BY <3>1, <3>2 DEF DroppedInv, NoProvisions
    <2> QED BY <1>4, <2>1, <2>2, <2>3, <2>4 DEF DatabaseThread
  <1>5. CASE MainThread
    BY <1>1, <1>5, MainThreadUnchanged
  <1>6. CASE UNCHANGED deviceVars
    BY <1>1, <1>6, StutterUnchanged
  <1> QED BY <1>2, <1>3, <1>4, <1>5, <1>6 DEF Next, BusinessThread

LEMMA DroppedHolds == Spec => []DroppedInv
  <1>1. Init => DroppedInv
    BY DEF Init, DroppedInv
  <1>2. DeviceTypes /\ DroppedInv /\ [Next]_deviceVars => DroppedInv'
    BY DroppedNext
  <1> QED BY <1>1, <1>2, DeviceTypesHold, PTL DEF Spec

LEMMA RegistrationIsSome ==
  ASSUME NEW reg \in Registration
  PROVE  reg # NoCandidate
  BY DEF Registration, NoCandidate

LEMMA ResultsAwait ==
  ASSUME NoLabels, DataTypes, StorageInv, CandidatesInv, AwaitInv,
         \/ HandleUnavailable \/ HandlePermanentFailure \/ HandleRecovered
         \/ HandleProvisioned \/ HandleWriteCompleted
  PROVE  AwaitInv'
  <1> DEFINE r == Head(results)
  <1>1. UNCHANGED <<provisions, exec>> /\ r \in Result /\ \A q \in Flight : q = r \/ q \in Flight'
    BY ResultTakenOff DEF HandleUnavailable, HandlePermanentFailure, HandleRecovered,
                          HandleProvisioned, HandleWriteCompleted, NextResult
  <1> SUFFICES ASSUME NEW d \in Devices PROVE pend'[d].sent => Awaited(d)'
    BY DEF AwaitInv
  <1>2. CASE HandleUnavailable
    BY <1>2, NotPendingFields DEF HandleUnavailable, CandidatesAfterOutage
  <1>3. CASE HandleRecovered \/ HandleWriteCompleted
    <2>1. r.kind \in {"recovered", "completed"} /\ pend' = pend
      BY <1>3 DEF HandleRecovered, HandleWriteCompleted, NextResult
    <2> HIDE DEF r
    <2> QED BY <1>1, <2>1, AwaitKept
  <1>4. CASE HandlePermanentFailure
    <2>1. r.kind = "permanent"
      BY <1>4 DEF HandlePermanentFailure, NextResult
    <2>2. CASE r.dev \in {d, NoDevice}
      BY <1>4, <2>2, NotPendingFields DEF HandlePermanentFailure
    <2>3. CASE r.dev \notin {d, NoDevice}
      <3>1. pend'[d] = pend[d]
        BY <1>4, <2>3 DEF HandlePermanentFailure
      <3> HIDE DEF r
      <3> QED BY <1>1, <2>1, <2>3, <3>1 DEF AwaitInv, Awaited
    <2> QED BY <2>2, <2>3
  <1>5. CASE HandleProvisioned
    <2>1. r.kind = "provisioned"
      BY <1>5 DEF HandleProvisioned, NextResult
    <2>2. r.dev \in Devices
      <3>1. results # <<>> /\ results \in Seq(Result)
        BY <1>5 DEF HandleProvisioned, NextResult, DataTypes, TaskTypes
      <3>2. 1 \in 1 .. Len(results) /\ r = results[1]
        BY <3>1
      <3> QED BY <2>1, <3>2 DEF StorageInv, ResultInv, ProvisionedIsNew
    <2>3. r.record.label = NoLabel
      BY <1>1 DEF NoLabels, Result, Record, LabelOrNone
    <2>4. pend'[r.dev].sent = FALSE /\ \A e \in Devices \ {r.dev} : pend'[e] = pend[e]
      <3>1. CASE r.dev \notin Pending
        BY <1>5, <2>2, <3>1, NotPendingFields DEF HandleProvisioned, Pending
      <3>2. CASE r.dev \in Pending
        <4>1. CanAdd(r.dev, r.record)
          BY <2>2, <2>3, <3>2 DEF CanAdd, Pending, CandidatesInv, NewcomerInv
        <4>2. pend' = [pend EXCEPT ![r.dev] = NotPending]
          BY <1>5, <3>2, <4>1 DEF HandleProvisioned
        <4> QED BY <2>2, <4>2, NotPendingFields DEF DataTypes, ServiceTypes
      <3> QED BY <3>1, <3>2
    <2>5. CASE d = r.dev
      BY <2>4, <2>5
    <2>6. CASE d # r.dev
      <3>1. r.dev # NoDevice
        BY <2>2, DatabaseAssumption
      <3>2. pend'[d] = pend[d]
        BY <2>4, <2>6
      <3> HIDE DEF r
      <3> QED BY <1>1, <2>1, <2>6, <3>1, <3>2 DEF AwaitInv, Awaited
    <2> QED BY <2>5, <2>6
  <1> QED BY <1>2, <1>3, <1>4, <1>5

LEMMA StepsAwait ==
  ASSUME DataTypes, AwaitInv, NEW d \in Devices,
         SubmitCandidate(d) \/ \E reg \in Registration : HandleRegistration(d, reg)
  PROVE  AwaitInv'
  <1>1. UNCHANGED <<exec, emit, results>>
    BY DEF SubmitCandidate, HandleRegistration, AtMessages, workerVars
  <1>2. Flight' = Flight
    BY <1>1 DEF Flight
  <1>3. ASSUME NEW reg \in Registration, HandleRegistration(d, reg)
        PROVE  AwaitInv'
    <2> DEFINE q == [pend[d] EXCEPT !.reg = reg]
    <2>1. q.sent = pend[d].sent
      BY DEF DataTypes, ServiceTypes, PendingState
    <2>2. (pend' = pend \/ pend' = [pend EXCEPT ![d] = q]) /\ provisions' = provisions
      BY <1>3 DEF HandleRegistration, AtMessages, workerVars
    <2> HIDE DEF q
    <2>3. \A e \in Devices : pend'[e].sent = pend[e].sent
      BY <2>1, <2>2 DEF DataTypes, ServiceTypes
    <2> QED BY <1>1, <1>2, <2>2, <2>3, AwaitKept DEF AwaitInv
  <1>4. CASE SubmitCandidate(d)
    <2>1. CASE UNCHANGED <<provisions, pend>>
      BY <1>1, <1>2, <2>1, AwaitKept DEF AwaitInv
    <2>2. CASE /\ provisions' = [provisions EXCEPT ![d] = pend[d].reg]
               /\ pend' = [pend EXCEPT ![d].sent = TRUE]
      <3>1. pend[d].reg \in Registration
        BY <1>4 DEF SubmitCandidate, DataTypes, CandidateInv
      <3>2. /\ provisions'[d] = pend[d].reg
            /\ \A e \in Devices \ {d} : pend'[e] = pend[e] /\ provisions'[e] = provisions[e]
        BY <2>2 DEF DataTypes, ServiceTypes, TaskTypes
      <3>3. provisions'[d] # NoCandidate
        BY <3>1, <3>2, RegistrationIsSome
      <3>4. ASSUME NEW e \in Devices PROVE pend'[e].sent => Awaited(e)'
        <4>1. CASE e = d
          BY <3>3, <4>1 DEF Awaited
        <4>2. CASE e # d
          BY <1>1, <1>2, <3>2, <4>2, AwaitKept
        <4> QED BY <4>1, <4>2
      <3> QED BY <3>4 DEF AwaitInv
    <2> QED BY <1>4, <2>1, <2>2 DEF SubmitCandidate
  <1> QED BY <1>3, <1>4

LEMMA DatabaseAwaits ==
  ASSUME NoCommandOutage, DataTypes, TaskInv, GiveUpInv, DroppedInv, AwaitInv, DatabaseThread
  PROVE  AwaitInv'
  <1>1. pend' = pend
    BY DEF DatabaseThread, Emit, serviceVars
  <1> SUFFICES ASSUME NEW d \in Devices, pend[d].sent, Awaited(d) PROVE Awaited(d)'
    BY <1>1 DEF AwaitInv
  <1>2. CASE Emit
    <2>1. UNCHANGED <<provisions, exec>> /\ \A r \in Flight : r \in Flight'
      BY <1>2, FlightEmitted DEF Emit
    <2> QED BY <2>1 DEF Awaited
  <1>3. CASE LoseConnection
    <2>1. emit'.kind = "unavailable" /\ emit' \in Flight'
      BY <1>3 DEF LoseConnection, ResultOf, Flight
    <2> QED BY <2>1 DEF Awaited
  <1>4. CASE GiveUp
    <2>1. provisions = NoProvisions /\ provisions' = NoProvisions /\ exec.kind # "provision"
      BY <1>4 DEF GiveUp, GiveUpInv, DroppedInv
    <2>2. UNCHANGED <<emit, results>>
      BY <1>4 DEF GiveUp, DatabaseThread, Emit
    <2> QED BY <2>1, <2>2 DEF Awaited, Flight
  <1>5. CASE Provision
    <2>1. exec.kind = "provision" /\ emit = NoResult /\ results' = results
      BY <1>5 DEF Provision, TaskInv, DatabaseThread, Emit
    <2>2. \A e \in Devices \ {exec.dev} : provisions'[e] = provisions[e]
      BY <1>5 DEF Provision, DataTypes, TaskTypes
    <2>3. emit'.kind \in {"provisioned", "permanent"} /\ emit'.dev = exec.dev /\ emit' \in Flight'
      BY <1>5 DEF Provision, ResultOf, Flight
    <2>4. \A r \in Flight : r.kind = "none" \/ r \in Flight'
      BY <2>1, FlightKept
    <2>5. CASE d = exec.dev
      BY <2>3, <2>5 DEF Awaited
    <2>6. CASE d # exec.dev
      BY <2>2, <2>4, <2>6 DEF Awaited
    <2> QED BY <2>5, <2>6
  <1>6. ASSUME NEW t \in Devices, TakeProvision(t)
        PROVE  Awaited(d)'
    <2>1. /\ exec.kind # "provision" /\ exec'.kind = "provision" /\ exec'.dev = t
          /\ \A e \in Devices \ {t} : provisions'[e] = provisions[e]
      BY <1>6, IdleType DEF TakeProvision, AtLoop, Idle, DataTypes, TaskTypes
    <2>2. UNCHANGED <<emit, results>>
      BY <1>6 DEF TakeProvision, AtLoop, DatabaseThread, Emit
    <2> QED BY <2>1, <2>2 DEF Awaited, Flight
  <1>7. CASE \/ WriteState \/ Reconnect \/ MigrationMismatch \/ Finish(stopRequested)
             \/ \E t \in Devices : TakeWrite(t)
    <2>1. provisions' = provisions
      BY <1>7 DEF WriteState, Reconnect, MigrationMismatch, Finish, TakeWrite
    <2>2. exec.kind # "provision"
      BY <1>7, IdleType DEF WriteState, Reconnect, MigrationMismatch, Finish, TakeWrite, AtLoop
    <2>3. emit = NoResult
      BY <1>7 DEF WriteState, Reconnect, MigrationMismatch, Finish, TakeWrite, AtLoop, TaskInv
    <2>4. results' = results
      BY <2>3 DEF DatabaseThread, Emit
    <2>5. \A r \in Flight : r.kind = "none" \/ r \in Flight'
      BY <2>3, <2>4, FlightKept
    <2> QED BY <2>1, <2>2, <2>5 DEF Awaited
  <1>8. ~CommandLosesConnection
    BY DEF CommandLosesConnection, NoCommandOutage
  <1> QED BY <1>2, <1>3, <1>4, <1>5, <1>6, <1>7, <1>8 DEF DatabaseThread

LEMMA AwaitNext ==
  ASSUME NoLabels, NoCommandOutage, DeviceTypes, StorageInv, CandidatesInv, TaskInv, GiveUpInv,
         DroppedInv, AwaitInv, [Next]_deviceVars
  PROVE  AwaitInv'
  <1> USE DEF registryVars, serviceVars, workerVars, threadVars
  <1>1. DataTypes
    BY DEF DeviceTypes
  <1>2. CASE UNCHANGED <<pend, provisions, exec, emit, results>>
    BY <1>2 DEF AwaitInv, Awaited, Flight
  <1>3. CASE \/ HandleUnavailable \/ HandlePermanentFailure \/ HandleRecovered
             \/ HandleProvisioned \/ HandleWriteCompleted
    BY <1>1, <1>3, ResultsAwait
  <1>4. CASE LeaveResults
    <2>1. UNCHANGED <<provisions, exec, emit, results>>
      BY <1>4 DEF LeaveResults
    <2>2. CASE pend' = pend
      BY <1>2, <2>1, <2>2
    <2>3. CASE pend' = [d \in Devices |-> [pend[d] EXCEPT !.sent = FALSE]]
      <3>1. \A d \in Devices : pend'[d].sent = FALSE
        BY <1>1, <2>3, SentField DEF DataTypes, ServiceTypes
      <3> QED BY <3>1 DEF AwaitInv
    <2> QED BY <1>4, <2>2, <2>3 DEF LeaveResults
  <1>5. CASE \E d \in Devices : \/ SubmitCandidate(d)
                                \/ \E reg \in Registration : HandleRegistration(d, reg)
    BY <1>1, <1>5, StepsAwait
  <1>6. CASE \/ LeaveMessages \/ EndRound \/ CheckInput \/ DecideToLeave
             \/ \E d \in Devices : \/ \E l \in LabelOrNone : HandleTelemetry(d, l)
                                   \/ DispatchWrite(d) \/ NotYetDue(d)
             \/ \E S \in SUBSET Devices : ExpireInactive(S)
    <2>1. UNCHANGED <<pend, provisions, exec, emit, results>>
      BY <1>6 DEF LeaveMessages, HandleTelemetry, AtMessages, DispatchWrite, NotYetDue,
                  ExpireInactive, EndRound, CheckInput, DecideToLeave
    <2> QED BY <1>2, <2>1
  <1>7. CASE DatabaseThread
    BY <1>1, <1>7, DatabaseAwaits
  <1>8. CASE MainThread
    BY <1>2, <1>8, MainThreadUnchanged
  <1>9. CASE UNCHANGED deviceVars
    BY <1>2, <1>9, StutterUnchanged
  <1> QED BY <1>3, <1>4, <1>5, <1>6, <1>7, <1>8, <1>9 DEF Next, BusinessThread

(* A candidate that was handed to the database thread is queued there, or  *)
(* its result, or one that drops all candidates, is on the way: no newly   *)
(* registered device keeps the drain waiting for nothing.                  *)
THEOREM CandidatesAreAnswered ==
  NoLabels /\ NoCommandOutage => (Spec => []CandidateIsAnswered)
  <1> SUFFICES ASSUME NoLabels, NoCommandOutage PROVE Spec => []CandidateIsAnswered
    OBVIOUS
  <1>1. Init => AwaitInv
    BY NotPendingFields DEF Init, AwaitInv
  <1>2. /\ DeviceTypes /\ StorageInv /\ CandidatesInv /\ TaskInv /\ GiveUpInv /\ DroppedInv
        /\ AwaitInv /\ [Next]_deviceVars
        => AwaitInv'
    BY AwaitNext
  <1>3. AwaitInv => CandidateIsAnswered
    <2> SUFFICES ASSUME AwaitInv, NEW d \in SentCandidates
                 PROVE  \/ d \in QueuedProvisions
                        \/ exec.kind = "provision" /\ exec.dev = d
                        \/ \E r \in ResultsOf({"provisioned", "permanent"}) : r.dev \in {d, NoDevice}
                        \/ ResultsOf({"unavailable"}) # {}
      BY DEF CandidateIsAnswered
    <2>1. d \in Devices /\ Awaited(d)
      BY DEF AwaitInv, SentCandidates
    <2>2. \A r \in Flight : r.kind \in {"provisioned", "permanent"}
                            => r \in ResultsOf({"provisioned", "permanent"})
      BY DEF Flight, ResultsOf
    <2>3. \A r \in Flight : r.kind = "unavailable" => r \in ResultsOf({"unavailable"})
      BY DEF Flight, ResultsOf
    <2> QED BY <2>1, <2>2, <2>3 DEF Awaited, QueuedProvisions
  <1> QED BY <1>1, <1>2, <1>3, DeviceTypesHold, StorageOrdered, CandidatesHold, TaskHolds,
             GiveUpHolds, DroppedHolds, PTL DEF Spec

-------------------------------------------------------------------------------
(* The drain *)

(* DispatchWrites of a drained service leaves no dirty entry behind unless *)
(* the database is unavailable or the worker refuses writes.               *)
DispatchInv ==
    pc = "dispatch" /\ inputDrained /\ ~dbUnavailable /\ ~blocked =>
        \A d \in Devices : HasDirty(ent[d]) => d \in todo

(* The main thread flushes only when the dispatch of the drain is done,    *)
(* and joins when the database thread has ended.                           *)
MainInv ==
    /\ main \in {"flush", "wait stopped", "join", "clean"} => ~drainPending
    /\ main \in {"join", "clean"} => stopped

(* A drained thread ends with an empty queue and takes no more. *)
StoppedInv ==
    stopped /\ ~Abandoned => ~accepting /\ \A d \in Devices : writes[d] = NoWrite

(* After the dispatch of the drain nothing that devices reported is left   *)
(* on the business thread; only the activity scan still changes statuses.  *)
Reported == {"metadata", "telemetry"}
DrainInv ==
    main \notin {"running", "abandoned"} /\ ~drainPending =>
        inputDrained /\ \A d \in Registered, g \in Reported : Handed(d, g)
KnownInv == Registered \subseteq known

LEMMA KnownHolds == Spec => []KnownInv
  <1>1. Init => KnownInv
    BY DEF Init, KnownInv
  <1>2. KnownInv /\ [Next]_deviceVars => KnownInv'
    <2> SUFFICES ASSUME KnownInv, [Next]_deviceVars PROVE known \subseteq known'
      BY DEF KnownInv
    <2>1. CASE BusinessThread
      BY <2>1 DEF BusinessThread, HandleUnavailable, HandlePermanentFailure, HandleRecovered,
           HandleProvisioned, HandleWriteCompleted, LeaveResults, HandleRegistration,
           HandleTelemetry, SubmitCandidate, DispatchWrite, NotYetDue, LeaveMessages,
           ExpireInactive, EndRound, CheckInput, DecideToLeave, registryVars
    <2>2. CASE DatabaseThread
      BY <2>2 DEF DatabaseThread, Emit, registryVars
    <2> QED BY <2>1, <2>2, MainThreadUnchanged, StutterUnchanged DEF Next
  <1> QED BY <1>1, <1>2, PTL DEF Spec

LEMMA DispatchNext ==
  ASSUME DeviceTypes, StorageInv, DispatchInv, [Next]_deviceVars
  PROVE  DispatchInv'
  <1> USE DEF registryVars, serviceVars, workerVars, threadVars, drainVars
  <1>1. CASE UNCHANGED <<pc, inputDrained, dbUnavailable, blocked, ent, todo>>
    BY <1>1 DEF DispatchInv
  <1>2. CASE pc' # "dispatch"
    BY <1>2 DEF DispatchInv
  <1>3. CASE \/ HandleUnavailable \/ HandlePermanentFailure \/ HandleRecovered
             \/ HandleProvisioned \/ HandleWriteCompleted \/ LeaveResults \/ LeaveMessages
             \/ CheckInput \/ DecideToLeave
             \/ \E d \in Devices : \/ \E reg \in Registration : HandleRegistration(d, reg)
                                   \/ \E l \in LabelOrNone : HandleTelemetry(d, l)
                                   \/ SubmitCandidate(d)
    <2>1. pc' # "dispatch"
      BY <1>3 DEF HandleUnavailable, HandlePermanentFailure, HandleRecovered, HandleProvisioned,
                  HandleWriteCompleted, NextResult, LeaveResults, LeaveMessages, CheckInput,
                  DecideToLeave, HandleRegistration, HandleTelemetry, AtMessages, SubmitCandidate
    <2> QED BY <1>2, <2>1
  <1>4. CASE EndRound
    <2>1. pc' # "dispatch"
      BY <1>4 DEF EndRound, DeviceTypes, PositionTypes
    <2> QED BY <1>2, <2>1
  <1>5. ASSUME NEW S \in SUBSET Devices, ExpireInactive(S)
        PROVE  DispatchInv'
    <2>1. UNCHANGED <<inputDrained, dbUnavailable, blocked>>
      BY <1>5 DEF ExpireInactive
    <2>2. ~dbUnavailable /\ ~blocked => todo' = {d \in Devices : HasDirty(ent'[d])}
      BY <1>5 DEF ExpireInactive
    <2> QED BY <2>1, <2>2 DEF DispatchInv, HasDirty
  <1>6. ASSUME NEW d \in Devices, DispatchWrite(d)
        PROVE  DispatchInv'
    <2> SUFFICES ASSUME inputDrained', ~dbUnavailable', ~blocked', NEW e \in Devices,
                        HasDirty(ent'[e])
                 PROVE  e \in todo'
      BY DEF DispatchInv, HasDirty
    <2>1. UNCHANGED <<inputDrained, dbUnavailable>> /\ todo' = todo \ {d} /\ pc = "dispatch"
      BY <1>6 DEF DispatchWrite
    <2>6. blocked' = (blocked \/ (inputDrained /\ ~accepting))
      BY <1>6 DEF DispatchWrite
    <2>7. inputDrained
      BY <2>1
    <2>2. ~blocked /\ accepting
      BY <2>6, <2>7
    <2>3. ent' = [ent EXCEPT ![d] = AfterTake(@)]
      BY <1>6, <2>2 DEF DispatchWrite, SubmitWrites
    <2>4. ent \in [Devices -> Entry] /\ ~HasDirty(AfterTake(ent[d]))
      BY TakeLeavesClean DEF DeviceTypes, DataTypes, ServiceTypes
    <2>5. e # d /\ ent'[e] = ent[e]
      BY <2>3, <2>4
    <2> QED BY <2>1, <2>2, <2>5 DEF DispatchInv
  <1>7. ASSUME NEW d \in Devices, NotYetDue(d)
        PROVE  DispatchInv'
    BY <1>7 DEF NotYetDue, DispatchInv
  <1>8. CASE DatabaseThread
    BY <1>1, <1>8 DEF DatabaseThread, Emit
  <1>9. CASE MainThread
    BY <1>1, <1>9, MainThreadUnchanged
  <1>10. CASE UNCHANGED deviceVars
    BY <1>1, <1>10, StutterUnchanged
  <1> QED BY <1>3, <1>4, <1>5, <1>6, <1>7, <1>8, <1>9, <1>10 DEF Next, BusinessThread

LEMMA DispatchHolds == Spec => []DispatchInv
  <1>1. Init => DispatchInv
    BY DEF Init, DispatchInv
  <1>2. DeviceTypes /\ StorageInv /\ DispatchInv /\ [Next]_deviceVars => DispatchInv'
    BY DispatchNext
  <1> QED BY <1>1, <1>2, DeviceTypesHold, StorageOrdered, PTL DEF Spec

(* What the business thread leaves alone *)
LEMMA BusinessLeaves ==
  ASSUME BusinessThread
  PROVE  /\ UNCHANGED <<main, stopped, accepting, exec, row>>
         /\ ~EndRound => drainPending' = drainPending
         /\ EndRound => drainPending' = (drainPending /\ ~(inputDrained /\ ~dbUnavailable /\ ~blocked))
         /\ inputDrained => inputDrained'
  <1> USE DEF registryVars, serviceVars, workerVars, threadVars, drainVars, mainVars
  <1>1. CASE \/ HandleUnavailable \/ HandlePermanentFailure \/ HandleRecovered
             \/ HandleProvisioned \/ HandleWriteCompleted \/ LeaveResults \/ LeaveMessages
    <2>1. UNCHANGED <<main, stopped, accepting, exec, row, drainPending, inputDrained>>
      BY <1>1 DEF HandleUnavailable, HandlePermanentFailure, HandleRecovered, HandleProvisioned,
                  HandleWriteCompleted, NextResult, LeaveResults, LeaveMessages
    <2>2. pc # "dispatch"
      BY <1>1 DEF HandleUnavailable, HandlePermanentFailure, HandleRecovered, HandleProvisioned,
                  HandleWriteCompleted, NextResult, LeaveResults, LeaveMessages
    <2>3. ~EndRound
      BY <2>2 DEF EndRound
    <2> QED BY <2>1, <2>3
  <1>2. CASE \E d \in Devices : \/ \E reg \in Registration : HandleRegistration(d, reg)
                                \/ \E l \in LabelOrNone : HandleTelemetry(d, l)
                                \/ SubmitCandidate(d) \/ DispatchWrite(d) \/ NotYetDue(d)
    <2>1. UNCHANGED <<main, stopped, accepting, exec, row, drainPending, inputDrained>>
      BY <1>2 DEF HandleRegistration, HandleTelemetry, AtMessages, SubmitCandidate, DispatchWrite,
                  NotYetDue
    <2>2. ~EndRound
      BY <1>2 DEF HandleRegistration, HandleTelemetry, AtMessages, SubmitCandidate, DispatchWrite,
                  NotYetDue, EndRound
    <2> QED BY <2>1, <2>2
  <1>3. CASE \/ CheckInput \/ DecideToLeave \/ \E S \in SUBSET Devices : ExpireInactive(S)
    <2>1. UNCHANGED <<main, stopped, accepting, exec, row, drainPending>>
      BY <1>3 DEF CheckInput, DecideToLeave, ExpireInactive
    <2>2. inputDrained' = inputDrained \/ inputDrained' = TRUE
      BY <1>3 DEF CheckInput, DecideToLeave, ExpireInactive
    <2>3. pc # "dispatch"
      BY <1>3 DEF CheckInput, DecideToLeave, ExpireInactive
    <2>4. ~EndRound
      BY <2>3 DEF EndRound
    <2> QED BY <2>1, <2>2, <2>4
  <1>4. CASE EndRound
    BY <1>4 DEF EndRound, DrainDispatched
  <1> QED BY <1>1, <1>2, <1>3, <1>4 DEF BusinessThread

LEMMA StoppedNext ==
  ASSUME DeviceTypes, TaskInv, EndInv, StoppedInv, MainInv, [Next]_deviceVars
  PROVE  StoppedInv' /\ MainInv'
  <1> USE DEF registryVars, serviceVars, workerVars, threadVars, drainVars, mainVars
  <1>1. CASE UNCHANGED <<stopped, accepting, writes, main, drainPending>>
    BY <1>1 DEF StoppedInv, MainInv, Abandoned
  <1>2. CASE BusinessThread
    <2>3. drainPending' => drainPending
      <3>1. ~EndRound => drainPending' = drainPending
        BY <1>2, BusinessLeaves
      <3>2. EndRound => drainPending' = (drainPending /\ ~(inputDrained /\ ~dbUnavailable /\ ~blocked))
        BY <1>2, BusinessLeaves
      <3>3. CASE EndRound
        BY <3>2, <3>3
      <3>4. CASE ~EndRound
        BY <3>1, <3>4
      <3> QED BY <3>3, <3>4
    <2>1. UNCHANGED <<stopped, accepting, main>>
      BY <1>2, BusinessLeaves
    <2>2. ~accepting => writes' = writes
      BY <1>2 DEF BusinessThread, HandleUnavailable, HandlePermanentFailure, HandleRecovered,
         HandleProvisioned, HandleWriteCompleted, LeaveResults, HandleRegistration, HandleTelemetry,
         AtMessages, SubmitCandidate, DispatchWrite, SubmitWrites, NotYetDue, LeaveMessages,
         ExpireInactive, EndRound, CheckInput, DecideToLeave
    <2>4. MainInv'
      BY <2>1, <2>3 DEF MainInv
    <2>5. StoppedInv'
      BY <2>1, <2>2 DEF StoppedInv, Abandoned
    <2> QED BY <2>4, <2>5
  <1>3. CASE DatabaseThread
    <2>1. UNCHANGED <<main, drainPending>>
      BY <1>3 DEF DatabaseThread, Emit
    <2>2. stopped => stopped'
      BY <1>3 DEF DatabaseThread, Emit, TakeProvision, TakeWrite, Provision, WriteState,
         LoseConnection, CommandLosesConnection, Reconnect, MigrationMismatch, GiveUp, Finish
    <2>3. MainInv'
      BY <2>1, <2>2 DEF MainInv
    <2>4. CASE GiveUp
      BY <2>3, <2>4 DEF GiveUp, StoppedInv
    <2>5. CASE Finish(stopRequested)
      <3>1. ~accepting' /\ writes' = writes /\ (stopRequested \/ QueuedWrites = {})
        BY <2>5 DEF Finish
      <3>2. ~Abandoned' => \A d \in Devices : writes[d] = NoWrite
        BY <2>1, <3>1 DEF EndInv, Abandoned, QueuedWrites
      <3> QED BY <2>3, <3>1, <3>2 DEF StoppedInv
    <2>6. CASE ~GiveUp /\ ~Finish(stopRequested)
      <3>1. stopped' = stopped
        BY <1>3, <2>6 DEF DatabaseThread, Emit, TakeProvision, TakeWrite, Provision, WriteState,
           LoseConnection, CommandLosesConnection, Reconnect, MigrationMismatch
      <3>2. ~stopped
        <4> SUFFICES ASSUME stopped PROVE FALSE
          OBVIOUS
        <4>1. exec = Idle /\ emit = NoResult
          BY DEF TaskInv
        <4> QED BY <1>3, <2>6, <4>1, IdleType
              DEF DatabaseThread, Emit, TakeProvision, TakeWrite, Provision, WriteState,
                  LoseConnection, CommandLosesConnection, Reconnect, MigrationMismatch, AtLoop
      <3> QED BY <2>3, <3>1, <3>2 DEF StoppedInv
    <2> QED BY <2>4, <2>5, <2>6
  <1>4. CASE MainThread
    <2>1. UNCHANGED <<stopped, writes>> /\ (accepting' => accepting) /\ (Abandoned => Abandoned')
      <3>1. accepting' => accepting
        BY <1>4 DEF MainThread, Close, WaitForInputDrained, WaitForDatabaseIdle, FlushAndStop,
                    WorkerStopped, Join, DrainTimesOut
      <3> QED BY <1>4, <3>1, MainThreadUnchanged, EndNext
    <2>2. StoppedInv'
      BY <2>1 DEF StoppedInv
    <2>3. MainInv'
      <3>1. CASE Close \/ WaitForInputDrained \/ DrainTimesOut
        BY <3>1 DEF Close, WaitForInputDrained, DrainTimesOut, MainInv
      <3>2. CASE WaitForDatabaseIdle
        BY <3>2 DEF WaitForDatabaseIdle, DatabaseIdle, MainInv
      <3>3. CASE FlushAndStop \/ WorkerStopped \/ Join
        <4>1. drainPending' = drainPending
          BY <3>3 DEF FlushAndStop, WorkerStopped, Join
        <4>2. main \in {"flush", "wait stopped", "join"} /\ (main' = "wait stopped" \/ stopped)
          BY <3>3 DEF FlushAndStop, WorkerStopped, Join, MainInv
        <4> QED BY <2>1, <4>1, <4>2 DEF MainInv
      <3> QED BY <1>4, <3>1, <3>2, <3>3 DEF MainThread
    <2> QED BY <2>2, <2>3
  <1>5. CASE UNCHANGED deviceVars
    BY <1>1, <1>5, StutterUnchanged
  <1> QED BY <1>2, <1>3, <1>4, <1>5 DEF Next

LEMMA StoppedHolds == Spec => [](StoppedInv /\ MainInv)
  <1>1. Init => StoppedInv /\ MainInv
    BY DEF Init, StoppedInv, MainInv
  <1>2. /\ DeviceTypes /\ TaskInv /\ EndInv /\ StoppedInv /\ MainInv /\ [Next]_deviceVars
        => StoppedInv' /\ MainInv'
    BY StoppedNext
  <1> QED BY <1>1, <1>2, DeviceTypesHold, TaskHolds, EndHolds, PTL DEF Spec

(* Once the input is drained, what a registered device reported and the    *)
(* database thread has is not taken from it again.                         *)
LEMMA DrainedKeepsReported ==
  ASSUME DataTypes, StorageInv, KnownInv, inputDrained, BusinessThread,
         NEW d \in Registered, NEW g \in Reported, Handed(d, g)
  PROVE  Handed(d, g)'
  <1> USE DEF registryVars, serviceVars, workerVars, threadVars
  <1>1. d \in Devices /\ g \in Groups /\ d \in known
    BY RegistryAssumption DEF KnownInv, Reported, Groups
  <1>2. CASE UNCHANGED <<rec, row, writes, exec>>
    BY <1>1, <1>2, HandedKept DEF KeepsHanded
  <1>3. CASE \/ HandleUnavailable \/ HandlePermanentFailure \/ HandleWriteCompleted \/ LeaveResults
             \/ LeaveMessages \/ EndRound \/ CheckInput \/ DecideToLeave
             \/ \E e \in Devices : SubmitCandidate(e) \/ NotYetDue(e)
    BY <1>2, <1>3 DEF HandleUnavailable, HandlePermanentFailure, HandleWriteCompleted, NextResult,
         LeaveResults, LeaveMessages, SubmitCandidate, NotYetDue, EndRound, CheckInput, DecideToLeave
  <1>4. CASE HandleRecovered
    <2> DEFINE S == {e \in known : degraded[e] # 0}
               w == [e \in Devices |-> RecoveryWrite(e)]
    <2>1. UNCHANGED <<rec, row, exec>> /\ QueueInv
      BY <1>4 DEF HandleRecovered, NextResult, StorageInv, OrderInv
    <2>2. S \in SUBSET Devices /\ \A e \in S : w[e] \in Write /\ w[e].record = rec[e]
      BY RecoveryWriteIsWrite DEF DataTypes, RegistryTypes
    <2>3. SubmitWrites(S, w, ent)
      BY <1>4 DEF HandleRecovered
    <2> HIDE DEF S, w
    <2> QED BY <1>1, <2>1, <2>2, <2>3, SubmittedKeepsHanded
  <1>5. ASSUME NEW e \in Devices, DispatchWrite(e)
        PROVE  Handed(d, g)'
    <2> DEFINE w == [c \in {e} |-> TakenWrite(ent[e])]
               entry == [ent EXCEPT ![e] = AfterTake(@)]
               S == {e}
    <2>1. UNCHANGED <<rec, row, exec>> /\ QueueInv
      BY <1>5 DEF DispatchWrite, StorageInv, OrderInv
    <2>2. ent[e] \in Entry /\ HasDirty(ent[e]) /\ ent[e].record = rec[e]
      BY <1>5 DEF DataTypes, ServiceTypes, DispatchWrite, StorageInv, TodoInv, OrderInv, EntryInv
    <2>3. S \in SUBSET Devices /\ \A c \in S : w[c] \in Write /\ w[c].record = rec[c]
      BY <2>2, TakeLeavesClean
    <2>4. SubmitWrites(S, w, entry)
      BY <1>5 DEF DispatchWrite
    <2> HIDE DEF S, w, entry
    <2> QED BY <1>1, <2>1, <2>3, <2>4, SubmittedKeepsHanded
  <1>6. CASE HandleProvisioned
    <2>1. UNCHANGED <<row, writes, exec>>
      BY <1>6 DEF HandleProvisioned, NextResult
    <2>2. rec'[d] = rec[d]
      <3> DEFINE e == Head(results).dev
                 w == WriteFor(AfterRegistration(Head(results).record, e, pend[e].reg), FALSE, TRUE)
      <3>1. CASE UNCHANGED rec
        BY <3>1
      <3>2. CASE e \notin known /\ MarkOne(e, w)
        BY <1>1, <3>2 DEF MarkOne, MarkAll
      <3> QED BY <1>6, <3>1, <3>2 DEF HandleProvisioned, CanAdd
    <2> QED BY <2>1, <2>2 DEF Handed, Saved, Carries, Executing
  <1>7. ASSUME NEW S \in SUBSET Devices, ExpireInactive(S)
        PROVE  Handed(d, g)'
    <2>1. UNCHANGED <<row, writes, exec>>
      BY <1>7 DEF ExpireInactive
    <2>2. rec'[d] = rec[d] \/ rec'[d] = Expired(rec[d])
      BY <1>1, <1>7 DEF ExpireInactive, MarkAll, WriteFor
    <2>3. Version(Expired(rec[d]), g) = Version(rec[d], g)
      BY VersionOfGroup DEF Expired, Reported
    <2>4. Version(rec'[d], g) = Version(rec[d], g)
      BY <2>2, <2>3
    <2> QED BY <2>1, <2>4 DEF Handed, Saved, Carries, Executing
  <1>8. ~ \E e \in Devices : \/ \E reg \in Registration : HandleRegistration(e, reg)
                             \/ \E l \in LabelOrNone : HandleTelemetry(e, l)
    BY DEF HandleRegistration, HandleTelemetry, AtMessages
  <1> QED BY <1>3, <1>4, <1>5, <1>6, <1>7, <1>8 DEF BusinessThread

(* The dispatch that ends the drain left nothing dirty. *)
LEMMA DispatchedIsHanded ==
  ASSUME NoMigration, EndInv, ChangeInv, DispatchInv, EndRound, ~Abandoned,
         inputDrained, ~dbUnavailable, ~blocked, NEW d \in Devices, NEW g \in Groups
  PROVE  Handed(d, g)
  <1>1. pc = "dispatch" /\ todo = {}
    BY DEF EndRound
  <1>2. ~HasDirty(ent[d])
    BY <1>1 DEF DispatchInv
  <1>3. ent[d].dirty[g] = 0
    BY <1>2 DEF HasDirty
  <1>4. Saved(d, g) \/ Coming(d, g)
    BY DEF ChangeInv, EndInv
  <1> QED BY <1>3, <1>4 DEF Coming, Handed

LEMMA DrainNext ==
  ASSUME NoLabels, NoMigration, DeviceTypes, StorageInv, TaskInv, EndInv, ChangeInv, DispatchInv,
         KnownInv, DrainInv, [Next]_deviceVars
  PROVE  DrainInv'
  <1> USE DEF registryVars, serviceVars, workerVars, threadVars, drainVars, mainVars
  <1>1. DataTypes
    BY DEF DeviceTypes
  <1>2. \A d \in Registered, g \in Reported : d \in Devices /\ g \in Groups
    BY RegistryAssumption DEF Reported, Groups
  <1> SUFFICES ASSUME main' \notin {"running", "abandoned"}, ~drainPending'
               PROVE  inputDrained' /\ \A d \in Registered, g \in Reported : Handed(d, g)'
    BY DEF DrainInv, Handed, Saved, Carries, Executing
  <1>3. CASE BusinessThread
    <2>1. main' = main /\ (inputDrained => inputDrained')
      BY <1>3, BusinessLeaves
    <2>2. main \notin {"running", "abandoned"}
      BY <2>1
    <2>3. CASE ~drainPending
      <3>1. inputDrained /\ \A d \in Registered, g \in Reported : Handed(d, g)
        BY <2>2, <2>3 DEF DrainInv
      <3> QED BY <1>1, <1>3, <2>1, <3>1, DrainedKeepsReported
    <2>4. CASE drainPending
      <3>1. ~EndRound => drainPending' = drainPending
        BY <1>3, BusinessLeaves
      <3>2. EndRound
        BY <2>4, <3>1
      <3>3. drainPending' = (drainPending /\ ~(inputDrained /\ ~dbUnavailable /\ ~blocked))
        BY <3>2 DEF EndRound, DrainDispatched
      <3>4. inputDrained /\ ~dbUnavailable /\ ~blocked
        BY <2>4, <3>3
      <3>5. ~Abandoned
        BY <2>2 DEF Abandoned
      <3>6. \A d \in Registered, g \in Reported : Handed(d, g)
        BY <1>2, <3>2, <3>4, <3>5, DispatchedIsHanded
      <3>7. inputDrained'
        BY <2>1, <3>4
      <3> QED BY <1>1, <1>3, <3>4, <3>6, <3>7, DrainedKeepsReported
    <2> QED BY <2>3, <2>4
  <1>4. CASE DatabaseThread
    <2>1. main' = main /\ drainPending' = drainPending /\ inputDrained' = inputDrained
      BY <1>4 DEF DatabaseThread, Emit
    <2>2. inputDrained /\ \A d \in Registered, g \in Reported : Handed(d, g)
      BY <2>1 DEF DrainInv
    <2>3. KeepsHanded
      BY <1>1, <1>4, DatabaseKeepsHanded DEF TaskInv, GiveUp
    <2>4. inputDrained'
      BY <2>1, <2>2
    <2> QED BY <1>2, <2>2, <2>3, <2>4 DEF KeepsHanded
  <1>5. CASE MainThread
    <2>1. UNCHANGED <<rec, row, writes, exec, inputDrained>>
      BY <1>5, MainThreadUnchanged
    <2>2. ~Close /\ ~DrainTimesOut
      BY DEF Close, DrainTimesOut
    <2>3. drainPending' = drainPending
      BY <1>5, <2>2 DEF MainThread, WaitForInputDrained, WaitForDatabaseIdle, FlushAndStop,
           WorkerStopped, Join
    <2>4. main \notin {"running", "abandoned"}
      BY <1>5, <2>2 DEF MainThread, WaitForInputDrained, WaitForDatabaseIdle, FlushAndStop,
           WorkerStopped, Join
    <2>5. inputDrained /\ \A d \in Registered, g \in Reported : Handed(d, g)
      BY <2>3, <2>4 DEF DrainInv
    <2>6. KeepsHanded
      BY <2>1, HandedKept
    <2>7. inputDrained'
      BY <2>1, <2>5
    <2> QED BY <1>2, <2>5, <2>6, <2>7 DEF KeepsHanded
  <1>6. CASE UNCHANGED deviceVars
    <2>1. UNCHANGED <<rec, row, writes, exec>>
      BY <1>6, StutterUnchanged
    <2>2. UNCHANGED <<main, drainPending, inputDrained>>
      BY <1>6 DEF deviceVars
    <2>3. inputDrained /\ \A d \in Registered, g \in Reported : Handed(d, g)
      BY <2>2 DEF DrainInv
    <2>4. KeepsHanded
      BY <2>1, HandedKept
    <2>5. inputDrained'
      BY <2>2, <2>3
    <2> QED BY <1>2, <2>3, <2>4, <2>5 DEF KeepsHanded
  <1> QED BY <1>3, <1>4, <1>5, <1>6 DEF Next

LEMMA DrainHolds == NoLabels /\ NoMigration => (Spec => []DrainInv)
  <1> SUFFICES ASSUME NoLabels, NoMigration PROVE Spec => []DrainInv
    OBVIOUS
  <1>1. Init => DrainInv
    BY DEF Init, DrainInv
  <1>2. /\ DeviceTypes /\ StorageInv /\ TaskInv /\ EndInv /\ ChangeInv /\ DispatchInv /\ KnownInv
        /\ DrainInv /\ [Next]_deviceVars
        => DrainInv'
    BY DrainNext
  <1> QED BY <1>1, <1>2, DeviceTypesHold, StorageOrdered, TaskHolds, EndHolds, ChangesHold,
          DispatchHolds, KnownHolds, PTL DEF Spec

(* A clean shutdown has stored the newest metadata and telemetry of every  *)
(* device registered at the start.  It follows from what the dispatch of   *)
(* the drain handed over (DrainInv) and from the worker's empty queue when *)
(* it ends (StoppedInv).                                                   *)
THEOREM RegisteredAreDrained ==
  NoLabels /\ NoMigration => (Spec => []DrainedIsStored)
  <1> SUFFICES ASSUME NoLabels, NoMigration PROVE Spec => []DrainedIsStored
    OBVIOUS
  <1>1. TaskInv /\ StoppedInv /\ MainInv /\ DrainInv => DrainedIsStored
    <2> SUFFICES ASSUME TaskInv, StoppedInv, MainInv, DrainInv, main = "clean",
                        NEW d \in Registered, NEW g \in Reported
                 PROVE  Saved(d, g)
      BY DEF DrainedIsStored, Reported
    <2>1. ~drainPending
      BY DEF MainInv
    <2>2. stopped /\ ~Abandoned
      BY DEF MainInv, Abandoned
    <2>3. Handed(d, g)
      BY <2>1 DEF DrainInv
    <2>4. writes[d] = NoWrite
      BY <2>2, RegistryAssumption DEF StoppedInv
    <2>5. exec.kind # "write"
      BY <2>2, IdleType DEF TaskInv
    <2>6. NoWrite.groups = {}
      BY DEF NoWrite
    <2> QED BY <2>3, <2>4, <2>5, <2>6 DEF Handed, Carries, Executing
  <1> QED BY <1>1, TaskHolds, StoppedHolds, DrainHolds, PTL
===============================================================================
