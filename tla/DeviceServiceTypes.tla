-------------------------- MODULE DeviceServiceTypes --------------------------
(***************************************************************************)
(* The types of device persistence, for every number of devices,           *)
(* revisions and outages, and the lemmas about records, entries and writes *)
(* that the other proofs about DeviceService use.                          *)
(*                                                                         *)
(* DeviceTypes is DeviceTypeOK without the counter of outstanding work,    *)
(* whose type is not a matter of types alone (DeviceAnswerProofs).         *)
(***************************************************************************)
EXTENDS DeviceService, TLAPS

-------------------------------------------------------------------------------
(* The invariant *)

FlagTypes ==
    /\ unavailable \in BOOLEAN /\ accepting \in BOOLEAN
    /\ draining \in BOOLEAN /\ stopped \in BOOLEAN
    /\ dbUnavailable \in BOOLEAN
    /\ noResults \in BOOLEAN /\ closed \in BOOLEAN /\ inputDrained \in BOOLEAN
    /\ drainPending \in BOOLEAN /\ blocked \in BOOLEAN /\ cancel \in BOOLEAN
    /\ stopRequested \in BOOLEAN

PositionTypes ==
    /\ outages \in 0..MaxOutages
    /\ pc \in {"results", "messages", "provision", "dispatch", "check", "decide", "exited"}
    /\ round \in {"first", "second", "final"}
    /\ main \in {"running", "wait input", "wait idle", "flush", "wait stopped",
                 "join", "clean", "abandoned"}

RegistryTypes ==
    /\ known \subseteq Devices
    /\ rec \in [Devices -> Record]

TaskTypes ==
    /\ row \in [Devices -> Row]
    /\ writes \in [Devices -> Write]
    /\ provisions \in [Devices -> Registration \cup {NoCandidate}]
    /\ exec \in [kind : {"idle", "provision", "write", "give up"},
                 dev : Devices \cup {NoDevice},
                 reg : Registration \cup {NoCandidate}, write : Write]
    /\ emit \in Result
    /\ results \in Seq(Result)

ServiceTypes ==
    /\ ent \in [Devices -> Entry]
    /\ pend \in [Devices -> PendingState]
    /\ submitted \in [Devices -> Write]
    /\ degraded \in [Devices -> Nat]
    /\ todo \subseteq Devices

(* A candidate that was or will be submitted has a registration; a task is *)
(* about a device.                                                         *)
CandidateInv ==
    /\ \A d \in Devices : pend[d].sent => pend[d].reg \in Registration
    /\ pc = "provision" => \A d \in todo : pend[d].reg \in Registration
    /\ exec.kind = "provision" => exec.dev \in Devices /\ exec.reg \in Registration
    /\ exec.kind = "write" => exec.dev \in Devices

DataTypes == RegistryTypes /\ TaskTypes /\ ServiceTypes /\ CandidateInv

DeviceTypes == FlagTypes /\ PositionTypes /\ DataTypes

-------------------------------------------------------------------------------
(* Records, entries and writes *)

LEMMA ConstantTypes ==
  /\ Blank \in Record
  /\ NoWrite \in Write
  /\ NoEntry \in Entry
  /\ ~HasDirty(NoEntry)
  /\ NoRow \in Row
  BY DEF Blank, Record, NoWrite, Write, NoEntry, Entry, Clean, HasDirty,
         LabelOrNone, NoRow, Row

LEMMA ResultTypes ==
  /\ NoResult \in Result
  /\ \A kind \in ResultKinds, d \in Devices \cup {NoDevice}, n \in Nat :
        ResultOf(kind, d, n) \in Result
  BY ConstantTypes DEF NoResult, Result, ResultOf, ResultKinds

LEMMA RegistrationFields ==
  ASSUME NEW reg \in Registration
  PROVE  reg.online \in BOOLEAN /\ reg.label \in LabelOrNone
  BY RegistryAssumption DEF Registration

LEMMA SentField ==
  ASSUME NEW p \in PendingState, NEW b \in BOOLEAN
  PROVE  LET q == [p EXCEPT !.sent = b] IN
         q \in PendingState /\ q.reg = p.reg /\ q.sent = b
  BY DEF PendingState

LEMMA AfterRegistrationType ==
  ASSUME NEW r \in Record, NEW d, NEW reg \in Registration
  PROVE  AfterRegistration(r, d, reg) \in Record
  BY RegistrationFields DEF AfterRegistration, Record

LEMMA AfterTelemetryType ==
  ASSUME NEW r \in Record, NEW d, NEW l \in LabelOrNone
  PROVE  AfterTelemetry(r, d, l) \in Record
  BY DEF AfterTelemetry, Record

LEMMA ExpiredType ==
  ASSUME NEW r \in Record
  PROVE  Expired(r) \in Record
  BY DEF Expired, Record

LEMMA RecordOfType ==
  ASSUME NEW r \in Row
  PROVE  RecordOf(r) \in Record
  BY DEF RecordOf, Record, Row

LEMMA InsertedType ==
  ASSUME NEW reg \in Registration
  PROVE  Inserted(reg) \in Row
  BY RegistrationFields DEF Inserted, NoRow, Row

LEMMA WriteForIsWrite ==
  ASSUME NEW r \in Record, NEW t \in BOOLEAN, NEW c
  PROVE  /\ WriteFor(r, t, c) \in Write
         /\ WriteFor(r, t, c).record = r
         /\ WriteFor(r, t, c).groups # {}
  BY DEF WriteFor, Write, GroupsOf, Groups

LEMMA RecoveryWriteIsWrite ==
  ASSUME RegistryTypes, NEW d \in Devices
  PROVE  /\ RecoveryWrite(d) \in Write
         /\ RecoveryWrite(d).record = rec[d]
         /\ RecoveryWrite(d).groups # {}
  BY DEF RegistryTypes, RecoveryWrite, Write, Groups

LEMMA MarkType ==
  ASSUME NEW e \in Entry, NEW w \in Write
  PROVE  Mark(e, w) \in Entry
  BY DEF Mark, Entry, Write, Record, Larger

LEMMA TakeType ==
  ASSUME NEW e \in Entry
  PROVE  AfterTake(e) \in Entry /\ TakenWrite(e) \in Write
  BY DEF AfterTake, TakenWrite, Entry, Write, Clean, Larger

LEMMA CompleteType ==
  ASSUME NEW e \in Entry, NEW w
  PROVE  Complete(e, w) \in Entry
  <1> DEFINE f == [g \in Groups |-> IF g \in w.groups /\ e.fly[g] <= w.record.rev
                                   THEN 0 ELSE e.fly[g]]
             done == [e EXCEPT !.fly = f]
  <1>1. f \in [Groups -> Nat]
    BY DEF Entry
  <1>2. done \in Entry
    BY <1>1 DEF Entry
  <1>3. Complete(e, w) = IF HasWork(done) THEN done ELSE NoEntry
    BY DEF Complete
  <1> QED BY <1>2, <1>3, ConstantTypes

LEMMA RestoreType ==
  ASSUME NEW e \in Entry, NEW w \in Write
  PROVE  Restore(e, w) \in Entry
  <1> DEFINE f == [g \in Groups |-> IF g \in w.groups /\ e.fly[g] <= w.record.rev
                                   THEN 0 ELSE e.fly[g]]
  <1>1. f \in [Groups -> Nat]
    BY DEF Entry
  <1>2. Restore(e, w) = [Mark(e, w) EXCEPT !.fly = f]
    BY DEF Restore
  <1> HIDE DEF f
  <1> QED BY <1>1, <1>2, MarkType DEF Entry

LEMMA MergeType ==
  ASSUME NEW v \in Write, NEW w \in Write
  PROVE  MergeWrite(v, w) \in Write
  BY DEF MergeWrite, Write

LEMMA RowAfterWriteType ==
  ASSUME row \in [Devices -> Row], NEW d \in Devices, NEW w \in Write
  PROVE  RowAfterWrite(d, w) \in Row
  <1>1. row[d] \in Row /\ w.record \in Record
    BY DEF Write
  <1> QED BY <1>1 DEF RowAfterWrite, TelemetryColumn, Row, Record

LEMMA RowAfterProvisionType ==
  ASSUME row \in [Devices -> Row], NEW d \in Devices, NEW reg \in Registration
  PROVE  RowAfterProvision(d, reg) \in Row
  BY InsertedType DEF RowAfterProvision

(* Mark and SubmitWrites of a set of devices *)
LEMMA MarkAllTypes ==
  ASSUME RegistryTypes, ServiceTypes, NEW S \in SUBSET Devices,
         NEW w, \A d \in S : w[d] \in Write, MarkAll(S, w)
  PROVE  rec' \in [Devices -> Record] /\ ent' \in [Devices -> Entry]
         /\ degraded' \in [Devices -> Nat]
  <1>1. \A d \in S : w[d].record \in Record /\ w[d].record.rev \in Nat
                     /\ Mark(ent[d], w[d]) \in Entry
    BY MarkType DEF ServiceTypes, Write, Record
  <1> QED BY <1>1 DEF MarkAll, RegistryTypes, ServiceTypes

LEMMA MarkOneTypes ==
  ASSUME RegistryTypes, ServiceTypes, NEW d \in Devices, NEW w \in Write, MarkOne(d, w)
  PROVE  rec' \in [Devices -> Record] /\ ent' \in [Devices -> Entry]
         /\ degraded' \in [Devices -> Nat]
  BY MarkAllTypes DEF MarkOne

LEMMA SubmitWritesTypes ==
  ASSUME RegistryTypes, ServiceTypes, writes \in [Devices -> Write],
         NEW S \in SUBSET Devices, NEW w, \A d \in S : w[d] \in Write,
         NEW entry \in [Devices -> Entry], SubmitWrites(S, w, entry)
  PROVE  /\ writes' \in [Devices -> Write] /\ submitted' \in [Devices -> Write]
         /\ ent' \in [Devices -> Entry] /\ degraded' \in [Devices -> Nat]
  <1>1. \A d \in S : MergeWrite(writes[d], w[d]) \in Write
                     /\ Restore(entry[d], w[d]) \in Entry
    BY MergeType, RestoreType
  <1>2. \A d \in Devices : rec[d].rev \in Nat
    BY DEF RegistryTypes, Record
  <1> QED BY <1>1, <1>2 DEF SubmitWrites, RegistryTypes, ServiceTypes

-------------------------------------------------------------------------------
(* The handlers of the database thread's results *)

(* What all of them leave alone *)
LEMMA NextResultTypes ==
  ASSUME DataTypes, NEW kind, NextResult(kind)
  PROVE  /\ results' \in Seq(Result)
         /\ Head(results) \in Result
         /\ UNCHANGED <<row, provisions, exec, emit, todo, pc>>
         /\ pc # "provision"
  <1>1. results \in Seq(Result) /\ results # <<>>
    BY DEF DataTypes, TaskTypes, NextResult
  <1>2. results' \in Seq(Result) /\ Head(results) \in Result
    BY <1>1 DEF NextResult
  <1> QED BY <1>2 DEF NextResult, threadVars

LEMMA HandleUnavailableTypes ==
  ASSUME DataTypes, HandleUnavailable
  PROVE  DataTypes'
  <1> DEFINE r == Head(results)
  <1>1. /\ results' \in Seq(Result) /\ r \in Result /\ pc' # "provision"
        /\ UNCHANGED <<row, provisions, exec, emit, todo, pc, known, rec, writes, ent, submitted>>
    BY NextResultTypes DEF HandleUnavailable, registryVars
  <1>2. \A d \in Devices : rec[d].rev \in Nat
    BY DEF DataTypes, RegistryTypes, Record
  <1>3. degraded' \in [Devices -> Nat]
    BY <1>1, <1>2 DEF DataTypes, RegistryTypes, ServiceTypes, HandleUnavailable, Larger, Result
  <1>4. pend' = [d \in Devices |-> NotPending] /\ NotPending \in PendingState
    BY DEF HandleUnavailable, CandidatesAfterOutage, NotPending, PendingState
  <1>5. CandidateInv'
    BY <1>1, <1>4 DEF DataTypes, CandidateInv, NotPending
  <1> QED BY <1>1, <1>3, <1>4, <1>5 DEF DataTypes, RegistryTypes, TaskTypes, ServiceTypes

LEMMA HandlePermanentFailureTypes ==
  ASSUME DataTypes, HandlePermanentFailure
  PROVE  DataTypes'
  <1> DEFINE r == Head(results)
             failed == IF r.dev = NoDevice THEN Devices ELSE {r.dev}
  <1>1. /\ results' \in Seq(Result) /\ r \in Result /\ pc' # "provision"
        /\ UNCHANGED <<row, provisions, exec, emit, todo, pc, known, rec, writes, ent>>
    BY NextResultTypes DEF HandlePermanentFailure, registryVars
  <1>2. \A d \in Devices : rec[d].rev \in Nat
    BY DEF DataTypes, RegistryTypes, Record
  <1>3. degraded' \in [Devices -> Nat]
    BY <1>1, <1>2 DEF DataTypes, RegistryTypes, ServiceTypes, HandlePermanentFailure,
                      Larger, Result
  <1>4. /\ pend' = [d \in Devices |-> IF d \in failed THEN NotPending ELSE pend[d]]
        /\ submitted' = [d \in Devices |-> IF d \in failed THEN NoWrite ELSE submitted[d]]
        /\ NotPending \in PendingState
    BY DEF HandlePermanentFailure, NotPending, PendingState
  <1> HIDE DEF failed
  <1>5. CandidateInv'
    BY <1>1, <1>4 DEF DataTypes, CandidateInv, NotPending
  <1>6. pend' \in [Devices -> PendingState] /\ submitted' \in [Devices -> Write]
    BY <1>4, ConstantTypes DEF DataTypes, ServiceTypes
  <1> QED BY <1>1, <1>3, <1>5, <1>6 DEF DataTypes, RegistryTypes, TaskTypes, ServiceTypes

LEMMA HandleRecoveredTypes ==
  ASSUME DataTypes, HandleRecovered
  PROVE  DataTypes'
  <1> DEFINE S == {d \in known : degraded[d] # 0}
             w == [d \in Devices |-> RecoveryWrite(d)]
  <1>1. /\ results' \in Seq(Result)
        /\ UNCHANGED <<row, provisions, exec, emit, todo, pc, known, rec, pend>>
    BY NextResultTypes DEF HandleRecovered, registryVars
  <1>2. S \in SUBSET Devices /\ \A d \in S : w[d] \in Write
    BY RecoveryWriteIsWrite DEF DataTypes, RegistryTypes
  <1>3. SubmitWrites(S, w, ent)
    BY DEF HandleRecovered
  <1> HIDE DEF S, w
  <1>4. /\ writes' \in [Devices -> Write] /\ submitted' \in [Devices -> Write]
        /\ ent' \in [Devices -> Entry] /\ degraded' \in [Devices -> Nat]
    BY <1>2, <1>3, SubmitWritesTypes DEF DataTypes, ServiceTypes, TaskTypes
  <1>5. CandidateInv'
    BY <1>1 DEF DataTypes, CandidateInv
  <1> QED BY <1>1, <1>4, <1>5 DEF DataTypes, RegistryTypes, TaskTypes, ServiceTypes

(* The record of the table and the latest registration of a candidate *)
LEMMA ProvisionedWrite ==
  ASSUME DataTypes, NEW d \in Pending, NEW r \in Record
  PROVE  /\ pend[d].reg \in Registration
         /\ AfterRegistration(r, d, pend[d].reg) \in Record
         /\ WriteFor(AfterRegistration(r, d, pend[d].reg), FALSE, TRUE) \in Write
         /\ WriteFor(AfterRegistration(r, d, pend[d].reg), FALSE, TRUE).record
              = AfterRegistration(r, d, pend[d].reg)
  <1>1. d \in Devices /\ pend[d] \in PendingState /\ pend[d] # NotPending
    BY DEF Pending, DataTypes, ServiceTypes
  <1>2. pend[d].reg \in Registration
    <2>1. CASE pend[d].sent
      BY <1>1, <2>1 DEF DataTypes, CandidateInv
    <2>2. CASE ~pend[d].sent
      <3>1. pend[d] = [reg |-> pend[d].reg, sent |-> FALSE]
        BY <1>1, <2>2 DEF PendingState
      <3>2. pend[d].reg # NoCandidate
        BY <1>1, <3>1 DEF NotPending
      <3> QED BY <1>1, <3>2 DEF PendingState
    <2> QED BY <2>1, <2>2
  <1> QED BY <1>2, AfterRegistrationType, WriteForIsWrite

LEMMA HandleProvisionedTypes ==
  ASSUME DataTypes, HandleProvisioned
  PROVE  DataTypes'
  <1> DEFINE r == Head(results)
             d == r.dev
             w == WriteFor(AfterRegistration(r.record, d, pend[d].reg), FALSE, TRUE)
  <1>1. /\ results' \in Seq(Result) /\ r \in Result /\ r.record \in Record
        /\ UNCHANGED <<row, provisions, exec, emit, todo, pc, writes, submitted>>
        /\ pc' # "provision"
    BY NextResultTypes DEF HandleProvisioned, Result
  <1>2. CASE UNCHANGED <<known, rec, ent, pend, degraded>>
    <2>1. CandidateInv'
      BY <1>1, <1>2 DEF DataTypes, CandidateInv
    <2> QED BY <1>1, <1>2, <2>1 DEF DataTypes, RegistryTypes, TaskTypes, ServiceTypes
  <1>3. CASE /\ d \in Pending /\ known' = known \cup {d} /\ MarkOne(d, w)
             /\ pend' = [pend EXCEPT ![d] = NotPending]
    <2>1. d \in Devices
      BY <1>3 DEF Pending
    <2>2. w \in Write
      BY <1>1, <1>3, ProvisionedWrite
    <2> HIDE DEF w, d
    <2>3. rec' \in [Devices -> Record] /\ ent' \in [Devices -> Entry]
          /\ degraded' \in [Devices -> Nat]
      BY <1>3, <2>1, <2>2, MarkOneTypes DEF DataTypes
    <2>4. NotPending \in PendingState /\ ~NotPending.sent
      BY DEF NotPending, PendingState
    <2>5. CandidateInv'
      BY <1>1, <1>3, <2>1, <2>4 DEF DataTypes, CandidateInv, ServiceTypes
    <2> QED BY <1>1, <1>3, <2>1, <2>3, <2>4, <2>5
            DEF DataTypes, RegistryTypes, TaskTypes, ServiceTypes
  <1> QED BY <1>2, <1>3 DEF HandleProvisioned, registryVars

LEMMA HandleWriteCompletedTypes ==
  ASSUME DataTypes, HandleWriteCompleted
  PROVE  DataTypes'
  <1>1. /\ results' \in Seq(Result)
        /\ UNCHANGED <<row, provisions, exec, emit, todo, pc, known, rec, writes, pend>>
    BY NextResultTypes DEF HandleWriteCompleted, registryVars
  <1>2. degraded' \in [Devices -> Nat]
    BY DEF HandleWriteCompleted, DataTypes, ServiceTypes
  <1>3. ent' \in [Devices -> Entry] /\ submitted' \in [Devices -> Write]
    BY CompleteType, ConstantTypes DEF HandleWriteCompleted, DataTypes, ServiceTypes
  <1>4. CandidateInv'
    BY <1>1 DEF DataTypes, CandidateInv
  <1> QED BY <1>1, <1>2, <1>3, <1>4 DEF DataTypes, RegistryTypes, TaskTypes, ServiceTypes

LEMMA LeaveResultsTypes ==
  ASSUME DataTypes, LeaveResults
  PROVE  DataTypes'
  <1>1. /\ UNCHANGED <<row, provisions, exec, emit, results, todo, known, rec, writes, degraded>>
        /\ pc' # "provision"
    BY DEF LeaveResults, registryVars, workerVars
  <1>2. ent' \in [Devices -> Entry] /\ submitted' \in [Devices -> Write]
    BY ConstantTypes DEF LeaveResults, DataTypes, ServiceTypes
  <1>3. /\ pend' \in [Devices -> PendingState]
        /\ \A d \in Devices : pend'[d].sent => pend'[d] = pend[d]
    <2>1. \A d \in Devices : pend[d] \in PendingState
      BY DEF DataTypes, ServiceTypes
    <2>2. CASE pend' = [d \in Devices |-> [pend[d] EXCEPT !.sent = FALSE]]
      BY <2>1, <2>2, SentField
    <2>3. CASE pend' = pend
      BY <2>3 DEF DataTypes, ServiceTypes
    <2> QED BY <2>2, <2>3 DEF LeaveResults
  <1>4. CandidateInv'
    BY <1>1, <1>3 DEF DataTypes, CandidateInv
  <1> QED BY <1>1, <1>2, <1>3, <1>4 DEF DataTypes, RegistryTypes, TaskTypes, ServiceTypes

-------------------------------------------------------------------------------
(* Messages, the activity scan and the dispatch *)

LEMMA HandleRegistrationTypes ==
  ASSUME DataTypes, NEW d \in Devices, NEW reg \in Registration, HandleRegistration(d, reg)
  PROVE  DataTypes'
  <1>1. /\ pc' # "provision"
        /\ UNCHANGED <<row, provisions, exec, emit, results, todo, known, writes, submitted>>
    BY DEF HandleRegistration, AtMessages, workerVars, threadVars
  <1>2. CASE d \in known
    <2> DEFINE w == WriteFor(AfterRegistration(rec[d], d, reg), FALSE, rec[d].online # reg.online)
    <2>1. w \in Write
      BY AfterRegistrationType, WriteForIsWrite DEF DataTypes, RegistryTypes
    <2>2. MarkOne(d, w) /\ pend' = pend
      BY <1>2 DEF HandleRegistration
    <2> HIDE DEF w
    <2>3. rec' \in [Devices -> Record] /\ ent' \in [Devices -> Entry]
          /\ degraded' \in [Devices -> Nat]
      BY <2>1, <2>2, MarkOneTypes DEF DataTypes
    <2>4. CandidateInv'
      BY <1>1, <2>2 DEF DataTypes, CandidateInv
    <2> QED BY <1>1, <2>2, <2>3, <2>4 DEF DataTypes, RegistryTypes, TaskTypes, ServiceTypes
  <1>3. CASE d \notin known
    <2>1. UNCHANGED <<rec, ent, degraded>>
      BY <1>3 DEF HandleRegistration
    <2>2. /\ pend' \in [Devices -> PendingState]
          /\ \A e \in Devices : pend'[e] = pend[e] \/ pend'[e].reg = reg
      BY <1>3 DEF HandleRegistration, DataTypes, ServiceTypes, PendingState
    <2>3. CandidateInv'
      BY <1>1, <2>2 DEF DataTypes, CandidateInv
    <2> QED BY <1>1, <2>1, <2>2, <2>3 DEF DataTypes, RegistryTypes, TaskTypes, ServiceTypes
  <1> QED BY <1>2, <1>3

LEMMA HandleTelemetryTypes ==
  ASSUME DataTypes, NEW d \in Devices, NEW l \in LabelOrNone, HandleTelemetry(d, l)
  PROVE  DataTypes'
  <1>1. /\ pc' # "provision"
        /\ UNCHANGED <<row, provisions, exec, emit, results, todo, known, writes, submitted, pend>>
    BY DEF HandleTelemetry, AtMessages, workerVars, threadVars
  <1> DEFINE w == WriteFor(AfterTelemetry(rec[d], d, l), TRUE, ~rec[d].online)
  <1>2. w \in Write
    BY AfterTelemetryType, WriteForIsWrite DEF DataTypes, RegistryTypes
  <1>3. MarkOne(d, w)
    BY DEF HandleTelemetry
  <1> HIDE DEF w
  <1>4. rec' \in [Devices -> Record] /\ ent' \in [Devices -> Entry]
        /\ degraded' \in [Devices -> Nat]
    BY <1>2, <1>3, MarkOneTypes DEF DataTypes
  <1>5. CandidateInv'
    BY <1>1 DEF DataTypes, CandidateInv
  <1> QED BY <1>1, <1>4, <1>5 DEF DataTypes, RegistryTypes, TaskTypes, ServiceTypes

LEMMA LeaveMessagesTypes ==
  ASSUME DataTypes, LeaveMessages
  PROVE  DataTypes'
  <1>1. UNCHANGED <<row, provisions, exec, emit, results, known, rec, writes, degraded,
                    submitted, pend, ent>>
    BY DEF LeaveMessages, registryVars, workerVars, serviceVars
  <1>2. todo' \subseteq Pending
    BY DEF LeaveMessages
  <1>3. \A d \in Pending : d \in Devices /\ pend[d].reg \in Registration
    BY ProvisionedWrite, ConstantTypes DEF Pending
  <1>4. CandidateInv'
    BY <1>1, <1>2, <1>3 DEF DataTypes, CandidateInv
  <1> QED BY <1>1, <1>2, <1>3, <1>4 DEF DataTypes, RegistryTypes, TaskTypes, ServiceTypes

LEMMA SubmitCandidateTypes ==
  ASSUME DataTypes, NEW d \in Devices, SubmitCandidate(d)
  PROVE  DataTypes'
  <1>1. /\ todo' \subseteq todo
        /\ UNCHANGED <<row, exec, emit, results, known, rec, writes, degraded,
                       submitted, ent, pc>>
    BY DEF SubmitCandidate, registryVars
  <1>2. pend[d].reg \in Registration
    BY DEF SubmitCandidate, DataTypes, CandidateInv
  <1>3. provisions' \in [Devices -> Registration \cup {NoCandidate}]
    BY <1>2 DEF SubmitCandidate, DataTypes, TaskTypes
  <1>4. /\ pend' \in [Devices -> PendingState]
        /\ \A e \in Devices : pend'[e].reg = pend[e].reg
        /\ \A e \in Devices \ {d} : pend'[e] = pend[e]
    <2>1. pend \in [Devices -> PendingState] /\ pend[d] \in PendingState
      BY DEF DataTypes, ServiceTypes
    <2>2. CASE pend' = [pend EXCEPT ![d].sent = TRUE]
      BY <2>1, <2>2, SentField
    <2> QED BY <2>1, <2>2 DEF SubmitCandidate
  <1>5. CandidateInv'
    BY <1>1, <1>2, <1>4 DEF DataTypes, CandidateInv, ServiceTypes
  <1> QED BY <1>1, <1>3, <1>4, <1>5 DEF DataTypes, RegistryTypes, TaskTypes, ServiceTypes

LEMMA ExpireInactiveTypes ==
  ASSUME DataTypes, NEW S \in SUBSET Devices, ExpireInactive(S)
  PROVE  DataTypes'
  <1>1. /\ todo' \subseteq Devices /\ pc' # "provision"
        /\ UNCHANGED <<row, provisions, exec, emit, results, known, writes, submitted, pend>>
    BY DEF ExpireInactive, workerVars
  <1> DEFINE w == [d \in Devices |-> WriteFor(Expired(rec[d]), FALSE, TRUE)]
  <1>2. \A d \in S : w[d] \in Write
    BY ExpiredType, WriteForIsWrite DEF DataTypes, RegistryTypes
  <1>3. MarkAll(S, w)
    BY DEF ExpireInactive
  <1> HIDE DEF w
  <1>4. rec' \in [Devices -> Record] /\ ent' \in [Devices -> Entry]
        /\ degraded' \in [Devices -> Nat]
    BY <1>2, <1>3, MarkAllTypes DEF DataTypes
  <1>5. CandidateInv'
    BY <1>1 DEF DataTypes, CandidateInv
  <1> QED BY <1>1, <1>4, <1>5 DEF DataTypes, RegistryTypes, TaskTypes, ServiceTypes

LEMMA DispatchWriteTypes ==
  ASSUME DataTypes, NEW d \in Devices, DispatchWrite(d)
  PROVE  DataTypes'
  <1>1. /\ todo' \subseteq todo /\ pc' # "provision"
        /\ UNCHANGED <<row, provisions, exec, emit, results, known, rec, pend>>
    BY DEF DispatchWrite, registryVars
  <1> DEFINE w == [e \in {d} |-> TakenWrite(ent[d])]
             entry == [ent EXCEPT ![d] = AfterTake(@)]
  <1>2. (\A e \in {d} : w[e] \in Write) /\ entry \in [Devices -> Entry]
    BY TakeType DEF DataTypes, ServiceTypes
  <1>3. SubmitWrites({d}, w, entry)
    BY DEF DispatchWrite
  <1> HIDE DEF w, entry
  <1>4. /\ writes' \in [Devices -> Write] /\ submitted' \in [Devices -> Write]
        /\ ent' \in [Devices -> Entry] /\ degraded' \in [Devices -> Nat]
    BY <1>2, <1>3, SubmitWritesTypes DEF DataTypes, TaskTypes
  <1>5. CandidateInv'
    BY <1>1 DEF DataTypes, CandidateInv
  <1> QED BY <1>1, <1>4, <1>5 DEF DataTypes, RegistryTypes, TaskTypes, ServiceTypes

(* The steps of the business thread that only move it on *)
LEMMA ThreadStepTypes ==
  ASSUME DataTypes, PositionTypes,
         (\E d \in Devices : NotYetDue(d)) \/ EndRound \/ CheckInput \/ DecideToLeave
  PROVE  DataTypes'
  <1>1. UNCHANGED <<row, provisions, exec, emit, results, known, rec, writes, degraded,
                    submitted, pend, ent>>
    BY DEF NotYetDue, EndRound, CheckInput, DecideToLeave, registryVars, workerVars,
           serviceVars
  <1>2. todo' \subseteq todo /\ pc' # "provision"
    BY DEF NotYetDue, EndRound, CheckInput, DecideToLeave, PositionTypes
  <1>3. CandidateInv'
    BY <1>1, <1>2 DEF DataTypes, CandidateInv
  <1> QED BY <1>1, <1>2, <1>3 DEF DataTypes, RegistryTypes, TaskTypes, ServiceTypes

LEMMA BusinessThreadTypes ==
  ASSUME DataTypes, PositionTypes, BusinessThread
  PROVE  DataTypes'
  BY HandleUnavailableTypes, HandlePermanentFailureTypes, HandleRecoveredTypes,
     HandleProvisionedTypes, HandleWriteCompletedTypes, LeaveResultsTypes,
     HandleRegistrationTypes, HandleTelemetryTypes, LeaveMessagesTypes,
     SubmitCandidateTypes, ExpireInactiveTypes, DispatchWriteTypes, ThreadStepTypes
  DEF BusinessThread

-------------------------------------------------------------------------------
(* The database thread.  Its tasks leave the other threads alone. *)

OutsideWorker == <<registryVars, serviceVars, results, threadVars, drainVars, mainVars>>

LEMMA TakeProvisionTypes ==
  ASSUME DataTypes, NEW d \in Devices, TakeProvision(d), UNCHANGED OutsideWorker
  PROVE  DataTypes'
  <1>1. /\ provisions[d] \in Registration
        /\ NoWrite \in Write
    BY ConstantTypes DEF TakeProvision, QueuedProvisions, DataTypes, TaskTypes
  <1>2. /\ exec' = [kind |-> "provision", dev |-> d, reg |-> provisions[d], write |-> NoWrite]
        /\ provisions' = [provisions EXCEPT ![d] = NoCandidate]
    BY DEF TakeProvision, Idle
  <1>3. UNCHANGED <<row, writes, emit, results, known, rec, degraded, submitted, pend, ent,
                    todo, pc>>
    BY DEF TakeProvision, OutsideWorker, registryVars, serviceVars, threadVars
  <1>4. CandidateInv'
    BY <1>1, <1>2, <1>3 DEF DataTypes, CandidateInv
  <1>5. TaskTypes'
    BY <1>1, <1>2, <1>3 DEF DataTypes, TaskTypes
  <1> QED BY <1>3, <1>4, <1>5 DEF DataTypes, RegistryTypes, ServiceTypes

LEMMA TakeWriteTypes ==
  ASSUME DataTypes, NEW d \in Devices, TakeWrite(d), UNCHANGED OutsideWorker
  PROVE  DataTypes'
  <1>1. /\ exec' = [kind |-> "write", dev |-> d, reg |-> NoCandidate, write |-> writes[d]]
        /\ writes' = [writes EXCEPT ![d] = NoWrite]
    BY DEF TakeWrite, Idle
  <1>2. UNCHANGED <<row, provisions, emit, results, known, rec, degraded, submitted, pend, ent,
                    todo, pc>>
    BY DEF TakeWrite, OutsideWorker, registryVars, serviceVars, threadVars
  <1>3. CandidateInv'
    BY <1>1, <1>2 DEF DataTypes, CandidateInv
  <1>4. TaskTypes'
    BY <1>1, <1>2, ConstantTypes DEF DataTypes, TaskTypes
  <1> QED BY <1>2, <1>3, <1>4 DEF DataTypes, RegistryTypes, ServiceTypes

LEMMA IdleType ==
  /\ Idle \in [kind : {"idle", "provision", "write", "give up"},
               dev : Devices \cup {NoDevice},
               reg : Registration \cup {NoCandidate}, write : Write]
  /\ Idle.kind = "idle"
  BY ConstantTypes DEF Idle

LEMMA ProvisionTypes ==
  ASSUME DataTypes, Provision, UNCHANGED OutsideWorker
  PROVE  DataTypes'
  <1> DEFINE d == exec.dev
  <1>1. d \in Devices /\ exec.reg \in Registration
    BY DEF DataTypes, CandidateInv, Provision
  <1>2. /\ exec' = Idle
        /\ provisions' = [provisions EXCEPT ![d] = NoCandidate]
        /\ UNCHANGED writes
    BY DEF Provision
  <1>3. UNCHANGED <<results, known, rec, degraded, submitted, pend, ent, todo, pc>>
    BY DEF OutsideWorker, registryVars, serviceVars, threadVars
  <1>4. CandidateInv'
    BY <1>2, <1>3, IdleType DEF DataTypes, CandidateInv
  <1>5. RowAfterProvision(d, exec.reg) \in Row
    BY <1>1, RowAfterProvisionType DEF DataTypes, TaskTypes
  <1>6. row' \in [Devices -> Row]
    BY <1>1, <1>5 DEF Provision, DataTypes, TaskTypes
  <1>7. emit' \in Result
    <2>1. CASE emit' = ResultOf("permanent", d, 0)
      BY <1>1, <2>1, ResultTypes DEF ResultKinds
    <2>2. CASE emit' = [kind |-> "provisioned", dev |-> d, rev |-> 0,
                        record |-> RecordOf(RowAfterProvision(d, exec.reg))]
      <3>1. RecordOf(RowAfterProvision(d, exec.reg)) \in Record
        BY <1>5, RecordOfType
      <3> QED BY <1>1, <2>2, <3>1 DEF Result, ResultKinds
    <2> QED BY <2>1, <2>2 DEF Provision
  <1>8. provisions' \in [Devices -> Registration \cup {NoCandidate}]
    BY <1>2 DEF DataTypes, TaskTypes
  <1> QED BY <1>2, <1>3, <1>4, <1>6, <1>7, <1>8, IdleType
          DEF DataTypes, RegistryTypes, TaskTypes, ServiceTypes

LEMMA WriteStateTypes ==
  ASSUME DataTypes, WriteState, UNCHANGED OutsideWorker
  PROVE  DataTypes'
  <1> DEFINE d == exec.dev
  <1>1. /\ d \in Devices /\ exec.write \in Write /\ exec.write.record.rev \in Nat
    BY DEF DataTypes, CandidateInv, TaskTypes, WriteState, Write, Record
  <1>2. exec' = Idle /\ UNCHANGED <<writes, provisions>>
    BY DEF WriteState
  <1>3. UNCHANGED <<results, known, rec, degraded, submitted, pend, ent, todo, pc>>
    BY DEF OutsideWorker, registryVars, serviceVars, threadVars
  <1>4. CandidateInv'
    BY <1>2, <1>3, IdleType DEF DataTypes, CandidateInv
  <1>5. RowAfterWrite(d, exec.write) \in Row
    BY <1>1, RowAfterWriteType DEF DataTypes, TaskTypes
  <1>6. row' \in [Devices -> Row]
    BY <1>1, <1>5 DEF WriteState, DataTypes, TaskTypes
  <1>7. emit' \in Result
    BY <1>1, ResultTypes DEF WriteState, ResultKinds
  <1> QED BY <1>2, <1>3, <1>4, <1>6, <1>7, IdleType
          DEF DataTypes, RegistryTypes, TaskTypes, ServiceTypes

LEMMA LoseConnectionTypes ==
  ASSUME DataTypes, LoseConnection, UNCHANGED OutsideWorker
  PROVE  DataTypes'
  <1> DEFINE d == exec.dev
  <1>1. /\ d \in Devices /\ exec.write \in Write /\ exec.write.record.rev \in Nat
        /\ exec.kind = "provision" => exec.reg \in Registration
    BY DEF DataTypes, CandidateInv, TaskTypes, LoseConnection, Write, Record
  <1>2. exec' = Idle /\ provisions' = NoProvisions
    BY DEF LoseConnection
  <1>3. UNCHANGED <<results, known, rec, degraded, submitted, pend, ent, todo, pc>>
    BY DEF OutsideWorker, registryVars, serviceVars, threadVars
  <1>4. CandidateInv'
    BY <1>2, <1>3, IdleType DEF DataTypes, CandidateInv
  <1>5. /\ RowAfterWrite(d, exec.write) \in Row
        /\ exec.kind = "provision" => RowAfterProvision(d, exec.reg) \in Row
    BY <1>1, RowAfterWriteType, RowAfterProvisionType DEF DataTypes, TaskTypes
  <1>6. row' \in [Devices -> Row]
    BY <1>1, <1>5 DEF LoseConnection, DataTypes, TaskTypes
  <1>7. emit' \in Result
    BY <1>1, ResultTypes DEF LoseConnection, ResultKinds
  <1>8. MergeWrite(writes[d], exec.write) \in Write
    BY <1>1, MergeType DEF DataTypes, TaskTypes
  <1>9. writes' \in [Devices -> Write]
    BY <1>1, <1>8 DEF LoseConnection, DataTypes, TaskTypes
  <1>10. provisions' \in [Devices -> Registration \cup {NoCandidate}]
    BY <1>2 DEF NoProvisions
  <1> QED BY <1>2, <1>3, <1>4, <1>6, <1>7, <1>9, <1>10, IdleType
          DEF DataTypes, RegistryTypes, TaskTypes, ServiceTypes

(* Steps of the thread without a task *)
LEMMA WorkerStepTypes ==
  ASSUME DataTypes, UNCHANGED OutsideWorker,
         CommandLosesConnection \/ Reconnect \/ MigrationMismatch \/ GiveUp
           \/ Finish(stopRequested)
  PROVE  DataTypes'
  <1>1. UNCHANGED <<results, known, rec, degraded, submitted, pend, ent, todo, pc>>
    BY DEF OutsideWorker, registryVars, serviceVars, threadVars
  <1>2. row' = row
    BY DEF CommandLosesConnection, Reconnect, MigrationMismatch, GiveUp, Finish
  <1>3. exec' \in {exec, Idle, [Idle EXCEPT !.kind = "give up"]}
    BY DEF CommandLosesConnection, Reconnect, MigrationMismatch, GiveUp, Finish
  <1>4. provisions' \in {provisions, NoProvisions} /\ writes' \in {writes, [d \in Devices |-> NoWrite]}
    BY DEF CommandLosesConnection, Reconnect, MigrationMismatch, GiveUp, Finish
  <1>5. emit' \in Result
    <2>1. emit' \in {emit, ResultOf("recovered", NoDevice, 0), ResultOf("permanent", NoDevice, 0)}
      BY DEF CommandLosesConnection, Reconnect, MigrationMismatch, GiveUp, Finish
    <2>2. /\ ResultOf("recovered", NoDevice, 0) \in Result
          /\ ResultOf("permanent", NoDevice, 0) \in Result
          /\ emit \in Result
      BY ResultTypes DEF ResultKinds, DataTypes, TaskTypes
    <2> QED BY <2>1, <2>2
  <1>6. CandidateInv'
    <2>1. exec' = exec \/ exec'.kind \in {"idle", "give up"}
      <3>1. [Idle EXCEPT !.kind = "give up"].kind = "give up" /\ Idle.kind = "idle"
        BY DEF Idle
      <3> QED BY <1>3, <3>1
    <2> QED BY <1>1, <2>1 DEF DataTypes, CandidateInv
  <1>7. exec' \in [kind : {"idle", "provision", "write", "give up"},
                   dev : Devices \cup {NoDevice},
                   reg : Registration \cup {NoCandidate}, write : Write]
    BY <1>3, IdleType DEF DataTypes, TaskTypes
  <1>8. /\ provisions' \in [Devices -> Registration \cup {NoCandidate}]
        /\ writes' \in [Devices -> Write]
    BY <1>4, ConstantTypes DEF DataTypes, TaskTypes, NoProvisions
  <1> QED BY <1>1, <1>2, <1>5, <1>6, <1>7, <1>8
          DEF DataTypes, RegistryTypes, TaskTypes, ServiceTypes

LEMMA EmitTypes ==
  ASSUME DataTypes, Emit
  PROVE  DataTypes'
  <1>1. UNCHANGED <<row, writes, provisions, exec, known, rec, degraded, submitted, pend, ent,
                    todo, pc>>
    BY DEF Emit, registryVars, serviceVars, threadVars
  <1>2. results' \in Seq(Result) /\ emit' \in Result
    <2>1. results \in Seq(Result) /\ emit \in Result
      BY DEF DataTypes, TaskTypes
    <2>2. Append(results, emit) \in Seq(Result)
      BY <2>1
    <2> QED BY <2>2, ResultTypes DEF Emit
  <1>3. CandidateInv'
    BY <1>1 DEF DataTypes, CandidateInv
  <1> QED BY <1>1, <1>2, <1>3 DEF DataTypes, RegistryTypes, TaskTypes, ServiceTypes

LEMMA DatabaseThreadTypes ==
  ASSUME DataTypes, DatabaseThread
  PROVE  DataTypes'
  BY EmitTypes, TakeProvisionTypes, TakeWriteTypes, ProvisionTypes, WriteStateTypes,
     LoseConnectionTypes, WorkerStepTypes
  DEF DatabaseThread, OutsideWorker

-------------------------------------------------------------------------------
(* The main thread leaves all of it alone. *)

LEMMA MainThreadUnchanged ==
  ASSUME MainThread
  PROVE  /\ UNCHANGED <<row, writes, provisions, exec, emit, results, known, rec, degraded,
                        submitted, pend, ent, todo, pc>>
         /\ UNCHANGED <<dbUnavailable, outstanding, unavailable, stopped, outages, round,
                        noResults, inputDrained, blocked>>
  BY DEF MainThread, Close, WaitForInputDrained, WaitForDatabaseIdle, FlushAndStop,
         WorkerStopped, Join, DrainTimesOut, registryVars, workerVars, serviceVars, threadVars,
         drainVars

LEMMA UnchangedTypes ==
  ASSUME DataTypes,
         UNCHANGED <<row, writes, provisions, exec, emit, results, known, rec, degraded,
                     submitted, pend, ent, todo, pc>>
  PROVE  DataTypes'
  <1>1. CandidateInv'
    BY DEF DataTypes, CandidateInv
  <1> QED BY <1>1 DEF DataTypes, RegistryTypes, TaskTypes, ServiceTypes

-------------------------------------------------------------------------------
(* Flags and positions *)

LEMMA FlagsBusiness ==
  ASSUME FlagTypes, BusinessThread
  PROVE  FlagTypes'
  <1> USE DEF registryVars, workerVars, serviceVars, threadVars, drainVars, mainVars
  <1>1. CASE HandleUnavailable \/ HandlePermanentFailure \/ HandleRecovered
             \/ HandleProvisioned \/ HandleWriteCompleted
    <2>1. UNCHANGED <<unavailable, accepting, draining, stopped, noResults, closed,
                      inputDrained, drainPending, blocked, cancel, stopRequested>>
      BY <1>1 DEF HandleUnavailable, HandlePermanentFailure, HandleRecovered,
                  HandleProvisioned, HandleWriteCompleted, NextResult
    <2>2. dbUnavailable' \in BOOLEAN
      BY <1>1 DEF HandleUnavailable, HandlePermanentFailure, HandleRecovered,
                  HandleProvisioned, HandleWriteCompleted, FlagTypes
    <2> QED BY <2>1, <2>2 DEF FlagTypes
  <1>2. CASE LeaveResults
    BY <1>2 DEF LeaveResults, FlagTypes
  <1>3. CASE \E d \in Devices : \/ \E reg \in Registration : HandleRegistration(d, reg)
                                \/ \E l \in LabelOrNone : HandleTelemetry(d, l)
    BY <1>3 DEF HandleRegistration, HandleTelemetry, AtMessages, FlagTypes
  <1>4. CASE LeaveMessages \/ \E d \in Devices : SubmitCandidate(d) \/ NotYetDue(d)
    BY <1>4 DEF LeaveMessages, SubmitCandidate, NotYetDue, FlagTypes
  <1>5. CASE \E d \in Devices : DispatchWrite(d)
    BY <1>5 DEF DispatchWrite, FlagTypes
  <1>6. CASE \E S \in SUBSET Devices : ExpireInactive(S)
    BY <1>6 DEF ExpireInactive, FlagTypes
  <1>7. CASE EndRound
    BY <1>7 DEF EndRound, FlagTypes
  <1>8. CASE CheckInput \/ DecideToLeave
    <2>1. UNCHANGED <<unavailable, accepting, draining, stopped, dbUnavailable, closed,
                      drainPending, blocked, cancel, stopRequested>>
      BY <1>8 DEF CheckInput, DecideToLeave
    <2>2. noResults' \in BOOLEAN
      BY <1>8 DEF CheckInput, DecideToLeave
    <2>3. inputDrained' \in BOOLEAN
      BY <1>8 DEF CheckInput, DecideToLeave, FlagTypes
    <2> QED BY <2>1, <2>2, <2>3 DEF FlagTypes
  <1> QED BY <1>1, <1>2, <1>3, <1>4, <1>5, <1>6, <1>7, <1>8 DEF BusinessThread

LEMMA FlagsDatabase ==
  ASSUME FlagTypes, DatabaseThread
  PROVE  FlagTypes'
  <1>1. UNCHANGED <<dbUnavailable, noResults, closed, inputDrained, drainPending, blocked,
                    cancel, stopRequested, draining>>
    BY DEF DatabaseThread, Emit, serviceVars, threadVars, drainVars, mainVars, TakeProvision,
           TakeWrite, Provision, WriteState, LoseConnection, CommandLosesConnection, Reconnect,
           MigrationMismatch, GiveUp, Finish
  <1>2. unavailable' \in BOOLEAN
    BY DEF DatabaseThread, Emit, TakeProvision, TakeWrite, Provision, WriteState,
           LoseConnection, CommandLosesConnection, Reconnect, MigrationMismatch, GiveUp, Finish,
           FlagTypes
  <1>3. accepting' \in BOOLEAN
    BY DEF DatabaseThread, Emit, TakeProvision, TakeWrite, Provision, WriteState,
           LoseConnection, CommandLosesConnection, Reconnect, MigrationMismatch, GiveUp, Finish,
           FlagTypes
  <1>4. stopped' \in BOOLEAN
    BY DEF DatabaseThread, Emit, TakeProvision, TakeWrite, Provision, WriteState,
           LoseConnection, CommandLosesConnection, Reconnect, MigrationMismatch, GiveUp, Finish,
           FlagTypes
  <1> QED BY <1>1, <1>2, <1>3, <1>4 DEF FlagTypes

LEMMA FlagsMain ==
  ASSUME FlagTypes, MainThread
  PROVE  FlagTypes'
  <1>1. UNCHANGED <<dbUnavailable, unavailable, stopped, noResults, inputDrained, blocked>>
    BY MainThreadUnchanged
  <1>2. /\ accepting' \in BOOLEAN /\ draining' \in BOOLEAN
        /\ closed' \in BOOLEAN /\ drainPending' \in BOOLEAN
        /\ cancel' \in BOOLEAN /\ stopRequested' \in BOOLEAN
    BY DEF MainThread, Close, WaitForInputDrained, WaitForDatabaseIdle, FlushAndStop,
           WorkerStopped, Join, DrainTimesOut, workerVars, drainVars, FlagTypes
  <1> QED BY <1>1, <1>2 DEF FlagTypes

LEMMA PositionsBusiness ==
  ASSUME PositionTypes, BusinessThread
  PROVE  PositionTypes'
  <1> USE DEF workerVars, threadVars, mainVars
  <1>1. CASE HandleUnavailable \/ HandlePermanentFailure \/ HandleRecovered
             \/ HandleProvisioned \/ HandleWriteCompleted
    BY <1>1 DEF HandleUnavailable, HandlePermanentFailure, HandleRecovered,
                HandleProvisioned, HandleWriteCompleted, NextResult, PositionTypes
  <1>2. CASE LeaveResults \/ LeaveMessages
    BY <1>2 DEF LeaveResults, LeaveMessages, PositionTypes
  <1>3. CASE \E d \in Devices : \/ \E reg \in Registration : HandleRegistration(d, reg)
                                \/ \E l \in LabelOrNone : HandleTelemetry(d, l)
    BY <1>3 DEF HandleRegistration, HandleTelemetry, AtMessages, PositionTypes
  <1>4. CASE \E d \in Devices : SubmitCandidate(d) \/ DispatchWrite(d) \/ NotYetDue(d)
    BY <1>4 DEF SubmitCandidate, DispatchWrite, NotYetDue, PositionTypes
  <1>5. CASE \E S \in SUBSET Devices : ExpireInactive(S)
    BY <1>5 DEF ExpireInactive, PositionTypes
  <1>6. CASE EndRound \/ CheckInput \/ DecideToLeave
    BY <1>6 DEF EndRound, CheckInput, DecideToLeave, PositionTypes
  <1> QED BY <1>1, <1>2, <1>3, <1>4, <1>5, <1>6 DEF BusinessThread

LEMMA PositionsDatabase ==
  ASSUME PositionTypes, DatabaseThread
  PROVE  PositionTypes'
  <1>1. UNCHANGED <<pc, round, main>>
    BY DEF DatabaseThread, Emit, threadVars, mainVars
  <1>2. outages' \in 0..MaxOutages
    <2>1. CASE LoseConnection \/ CommandLosesConnection
      <3>1. outages < MaxOutages /\ outages' = outages + 1
        BY <2>1 DEF LoseConnection, CommandLosesConnection
      <3>2. outages \in 0..MaxOutages
        BY DEF PositionTypes
      <3> QED BY <3>1, <3>2, DatabaseAssumption
    <2>2. outages' = outages \/ LoseConnection \/ CommandLosesConnection
      BY DEF DatabaseThread, Emit, TakeProvision, TakeWrite, Provision, WriteState,
             Reconnect, MigrationMismatch, GiveUp, Finish
    <2> QED BY <2>1, <2>2 DEF PositionTypes
  <1> QED BY <1>1, <1>2 DEF PositionTypes

LEMMA PositionsMain ==
  ASSUME PositionTypes, MainThread
  PROVE  PositionTypes'
  <1>1. UNCHANGED <<outages, pc, round>>
    BY MainThreadUnchanged
  <1>2. main' \in {"running", "wait input", "wait idle", "flush", "wait stopped",
                   "join", "clean", "abandoned"}
    BY DEF MainThread, Close, WaitForInputDrained, WaitForDatabaseIdle, FlushAndStop,
           WorkerStopped, Join, DrainTimesOut
  <1> QED BY <1>1, <1>2 DEF PositionTypes

-------------------------------------------------------------------------------
(* A stuttering step changes none of the variables the invariants name. *)
LEMMA StutterUnchanged ==
  ASSUME UNCHANGED deviceVars
  PROVE  /\ UNCHANGED <<row, writes, provisions, exec, emit, results, known, rec, degraded,
                        submitted, pend, ent, todo, pc>>
         /\ UNCHANGED <<dbUnavailable, outstanding, unavailable, stopped, outages, round,
                        noResults, inputDrained, blocked>>
         /\ UNCHANGED <<accepting, draining, closed, drainPending, cancel, main, stopRequested>>
  BY DEF deviceVars, registryVars, workerVars, serviceVars, threadVars, drainVars, mainVars

(* The tables, the registry and the first writes *)
LEMMA StartTypes ==
  ASSUME NEW up \in SUBSET Registered, NEW expired \in SUBSET up, NEW d \in Devices
  PROVE  /\ StartRow(d, up) \in Row
         /\ StartRecord(d, up, expired) \in Record
         /\ StartWrite(d, up, expired) \in Write
  <1>1. StartRow(d, up) \in Row
    <2>1. CASE d \in Registered
      <3>1. StartRow(d, up) = [there |-> TRUE, online |-> (d \in up), label |-> NoLabel,
                               meta |-> 0, st |-> 0, seen |-> 0, tel |-> 0]
        BY <2>1 DEF StartRow, NoRow
      <3>2. (d \in up) \in BOOLEAN
        OBVIOUS
      <3> QED BY <3>1, <3>2 DEF Row, LabelOrNone
    <2> QED BY <2>1, ConstantTypes DEF StartRow
  <1>2. RecordOf(StartRow(d, up)) \in Record
    BY <1>1, RecordOfType
  <1>3. Expired(RecordOf(StartRow(d, up))) \in Record
    BY <1>2, ExpiredType
  <1>4. StartRecord(d, up, expired) \in Record
    <2>1. CASE d \in expired
      BY <2>1, <1>3 DEF StartRecord
    <2>2. CASE d \in Registered \ expired
      BY <2>2, <1>2 DEF StartRecord
    <2>3. CASE d \notin expired /\ d \notin Registered
      BY <2>3, ConstantTypes DEF StartRecord
    <2> QED BY <2>1, <2>2, <2>3
  <1> QED BY <1>1, <1>4, ConstantTypes DEF StartWrite, Write, Groups

LEMMA DeviceTypesInit ==
  ASSUME Init
  PROVE  DeviceTypes
  <1>1. FlagTypes
    BY DEF Init, FlagTypes
  <1>2. PositionTypes
    BY DatabaseAssumption DEF Init, PositionTypes
  <1>3. /\ row \in [Devices -> Row] /\ rec \in [Devices -> Record]
        /\ writes \in [Devices -> Write]
    BY StartTypes DEF Init
  <1>4. RegistryTypes
    BY <1>3, RegistryAssumption DEF Init, RegistryTypes
  <1>5. <<>> \in Seq(Result)
    OBVIOUS
  <1>6. TaskTypes
    BY <1>3, <1>5, IdleType, ResultTypes DEF Init, TaskTypes, NoProvisions
  <1>7. NotPending \in PendingState /\ ~NotPending.sent
    BY DEF NotPending, PendingState
  <1>8. ServiceTypes
    BY <1>7, ConstantTypes DEF Init, ServiceTypes
  <1>9. CandidateInv
    BY <1>7, IdleType DEF Init, CandidateInv
  <1> QED BY <1>1, <1>2, <1>4, <1>6, <1>8, <1>9 DEF DeviceTypes, DataTypes

LEMMA DeviceTypesNext ==
  ASSUME DeviceTypes, [Next]_deviceVars
  PROVE  DeviceTypes'
  <1>1. CASE BusinessThread
    BY <1>1, BusinessThreadTypes, FlagsBusiness, PositionsBusiness DEF DeviceTypes
  <1>2. CASE DatabaseThread
    BY <1>2, DatabaseThreadTypes, FlagsDatabase, PositionsDatabase DEF DeviceTypes
  <1>3. CASE MainThread
    BY <1>3, MainThreadUnchanged, UnchangedTypes, FlagsMain, PositionsMain DEF DeviceTypes
  <1>4. CASE UNCHANGED deviceVars
    <2>1. DataTypes'
      BY <1>4, StutterUnchanged, UnchangedTypes DEF DeviceTypes
    <2>2. FlagTypes'
      BY <1>4, StutterUnchanged DEF DeviceTypes, FlagTypes
    <2>3. PositionTypes'
      BY <1>4, StutterUnchanged DEF DeviceTypes, PositionTypes
    <2> QED BY <2>1, <2>2, <2>3 DEF DeviceTypes
  <1> QED BY <1>1, <1>2, <1>3, <1>4 DEF Next

(* Every variable but the counter of outstanding work has its type, in     *)
(* every behaviour of the three threads; a task of the database thread is  *)
(* always about a device and, for a candidate, has a registration.         *)
THEOREM DeviceTypesHold == Spec => []DeviceTypes
  <1>1. Init => DeviceTypes
    BY DeviceTypesInit
  <1>2. DeviceTypes /\ [Next]_deviceVars => DeviceTypes'
    BY DeviceTypesNext
  <1> QED BY <1>1, <1>2, PTL DEF Spec
===============================================================================
