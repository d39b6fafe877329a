-------------------------- MODULE DeviceStorageProofs -------------------------
(***************************************************************************)
(* Device persistence implements DeviceStorage, for every number of        *)
(* devices, revisions and outages: what the tables hold never goes back    *)
(* and is never ahead of the device.  And no two devices in memory have    *)
(* the same label.                                                         *)
(*                                                                         *)
(* The argument: whatever travels to the tables is a copy of the device's  *)
(* record, and the copies are ordered.  A row is behind the write being    *)
(* executed, that is behind the queued one, that is behind the record in   *)
(* memory; a dirty entry always holds the record in memory.                *)
(***************************************************************************)
EXTENDS DeviceServiceTypes

-------------------------------------------------------------------------------
(* The invariant *)

(* The order of records and rows by what they hold *)
Behind(r, s) == r.meta <= s.meta /\ r.st <= s.st /\ r.tel <= s.tel
Older(r, s) == r.rev <= s.rev /\ Behind(r, s) /\ (r.rev = s.rev => r = s)
IsNew(r) == r.meta = 0 /\ r.st = 0 /\ r.tel = 0

(* A record holds nothing newer than its revision. *)
WithinRevision(r) == r.meta <= r.rev /\ r.st <= r.rev /\ r.tel <= r.rev
RecordInv == \A d \in Devices : WithinRevision(rec[d])

(* A dirty entry holds the record in memory. *)
EntryInv == \A d \in Devices :
    /\ ent[d].record.rev <= rec[d].rev
    /\ HasDirty(ent[d]) => d \in known /\ ent[d].record = rec[d]

(* row, executing write, queued write and record are in this order. *)
QueueInv == \A d \in Devices :
    /\ Behind(row[d], rec[d])
    /\ writes[d].groups # {} => /\ d \in known
                                /\ Behind(row[d], writes[d].record)
                                /\ Older(writes[d].record, rec[d])

(* A write that is queued or executed writes something. *)
WriteInv ==
    /\ \A d \in Devices : writes[d] = NoWrite \/ writes[d].groups # {}
    /\ exec.kind = "write" => exec.write.groups # {}

ExecInv ==
    (exec.kind = "write" /\ exec.write.groups # {}) =>
        /\ exec.dev \in known
        /\ Behind(row[exec.dev], exec.write.record)
        /\ Older(exec.write.record, rec[exec.dev])
        /\ writes[exec.dev].groups # {} => Older(exec.write.record, writes[exec.dev].record)

(* Nothing but the insertion is stored of a device before it is known, and *)
(* a known device is in the tables.                                        *)
NewInv ==
    /\ \A d \in Devices \ known : IsNew(row[d]) /\ rec[d] = Blank
    /\ \A d \in known : row[d].there

(* A record read from the table when the device was inserted is empty. *)
ProvisionedIsNew(r) ==
    r.kind = "provisioned" =>
        /\ r.dev \in Devices /\ row[r.dev].there
        /\ r.record.rev = 0
        /\ r.dev \notin known => IsNew(r.record)
ResultInv ==
    /\ ProvisionedIsNew(emit)
    /\ \A i \in 1 .. Len(results) : ProvisionedIsNew(results[i])

(* DispatchWrites only visits dirty entries. *)
TodoInv == pc = "dispatch" => \A d \in todo : HasDirty(ent[d])

OrderInv == RecordInv /\ EntryInv /\ QueueInv /\ WriteInv /\ ExecInv /\ NewInv
StorageInv == OrderInv /\ ResultInv /\ TodoInv

-------------------------------------------------------------------------------
(* Records, entries and writes *)

(* A registration makes a record newer. *)
LEMMA RegistrationIsNewer ==
  ASSUME NEW r \in Record, NEW d, NEW reg \in Registration,
         WithinRevision(r)
  PROVE  LET n == AfterRegistration(r, d, reg) IN
         /\ n \in Record
         /\ Older(r, n)
         /\ WithinRevision(n)
  <1> DEFINE n == AfterRegistration(r, d, reg)
  <1>1. /\ reg.online \in BOOLEAN /\ reg.label \in LabelOrNone
    BY RegistryAssumption DEF Registration
  <1>2. n \in Record
    BY <1>1 DEF AfterRegistration, Record
  <1>3. n.rev = r.rev + 1 /\ n.meta = r.rev + 1 /\ n.st = r.rev + 1 /\ n.tel = r.tel
    BY DEF AfterRegistration
  <1> QED BY <1>2, <1>3 DEF Older, Behind, Record, WithinRevision

(* So does telemetry. *)
LEMMA TelemetryIsNewer ==
  ASSUME NEW r \in Record, NEW d, NEW l \in LabelOrNone,
         WithinRevision(r)
  PROVE  LET n == AfterTelemetry(r, d, l) IN
         /\ n \in Record
         /\ Older(r, n)
         /\ WithinRevision(n)
  <1> DEFINE n == AfterTelemetry(r, d, l)
  <1>1. n \in Record
    BY DEF AfterTelemetry, Record
  <1>2. /\ n.rev = r.rev + 1 /\ n.meta = r.meta /\ n.tel = r.rev + 1
        /\ n.st \in {r.st, r.rev + 1}
    BY DEF AfterTelemetry, Record
  <1> QED BY <1>1, <1>2 DEF Older, Behind, Record, WithinRevision

(* So does the end of its activity. *)
LEMMA ExpiryIsNewer ==
  ASSUME NEW r \in Record, WithinRevision(r)
  PROVE  LET n == Expired(r) IN
         /\ n \in Record
         /\ Older(r, n)
         /\ WithinRevision(n)
  BY DEF Expired, Record, Older, Behind, WithinRevision

(* Mark keeps the newest record. *)
LEMMA MarkTakesNewer ==
  ASSUME NEW e \in Entry, NEW w \in Write, e.record.rev <= w.record.rev
  PROVE  Mark(e, w) \in Entry /\ Mark(e, w).record = w.record
  BY DEF Mark, Entry, Write, Record, Larger

LEMMA TakeLeavesClean ==
  ASSUME NEW e \in Entry
  PROVE  /\ AfterTake(e) \in Entry
         /\ ~HasDirty(AfterTake(e))
         /\ AfterTake(e).record = e.record
         /\ TakenWrite(e) \in Write
         /\ TakenWrite(e).record = e.record
  BY DEF AfterTake, TakenWrite, Entry, Write, HasDirty, Clean, Larger

(* Complete erases an entry or leaves its record and dirty groups alone. *)
LEMMA CompleteKeepsDirty ==
  ASSUME NEW e \in Entry, NEW w
  PROVE  /\ Complete(e, w) \in Entry
         /\ Complete(e, w).record.rev <= e.record.rev
         /\ HasDirty(Complete(e, w)) => HasDirty(e) /\ Complete(e, w).record = e.record
  <1> DEFINE f == [g \in Groups |-> IF g \in w.groups /\ e.fly[g] <= w.record.rev
                                   THEN 0 ELSE e.fly[g]]
             done == [e EXCEPT !.fly = f]
  <1>1. f \in [Groups -> Nat]
    BY DEF Entry
  <1>2. done \in Entry /\ done.record = e.record /\ done.dirty = e.dirty
    BY <1>1 DEF Entry
  <1>3. Complete(e, w) = IF HasWork(done) THEN done ELSE NoEntry
    BY DEF Complete
  <1>4. e.record.rev \in Nat /\ NoEntry.record.rev = 0
    BY DEF Entry, Record, NoEntry, Blank
  <1> HIDE DEF done
  <1>5. HasDirty(done) => HasDirty(e)
    BY <1>2 DEF HasDirty
  <1> QED BY <1>2, <1>3, <1>4, <1>5, ConstantTypes

LEMMA RestoreTakesNewer ==
  ASSUME NEW e \in Entry, NEW w \in Write, e.record.rev <= w.record.rev
  PROVE  Restore(e, w) \in Entry /\ Restore(e, w).record = w.record
  <1> DEFINE f == [g \in Groups |-> IF g \in w.groups /\ e.fly[g] <= w.record.rev
                                   THEN 0 ELSE e.fly[g]]
  <1>1. f \in [Groups -> Nat]
    BY DEF Entry
  <1>2. Restore(e, w) = [Mark(e, w) EXCEPT !.fly = f]
    BY DEF Restore
  <1> HIDE DEF f
  <1> QED BY <1>1, <1>2, MarkTakesNewer DEF Entry

(* Merging leaves one of the two writes, or the newer of their records. *)
LEMMA MergeTakesOne ==
  ASSUME NEW v \in Write, NEW w \in Write
  PROVE  /\ MergeWrite(v, w) \in Write
         /\ v.groups = {} => MergeWrite(v, w) = w
         /\ MergeWrite(v, w).record \in {v.record, w.record}
         /\ w.record.rev >= v.record.rev => MergeWrite(v, w).record = w.record
         /\ MergeWrite(v, w).groups = v.groups \cup w.groups
  BY DEF MergeWrite, Write

(* A statement writes some columns of the write's record. *)
LEMMA WriteIsBetween ==
  ASSUME row \in [Devices -> Row], NEW d \in Devices, NEW w \in Write,
         w.groups # {} => Behind(row[d], w.record)
  PROVE  /\ RowAfterWrite(d, w) \in Row
         /\ Behind(row[d], RowAfterWrite(d, w))
         /\ w.groups # {} => Behind(RowAfterWrite(d, w), w.record)
         /\ w.groups = {} => RowAfterWrite(d, w) = row[d]
  <1>1. row[d] \in Row /\ w.record \in Record
    BY DEF Write
  <1>2. RowAfterWrite(d, w) \in Row
    BY <1>1 DEF RowAfterWrite, TelemetryColumn, Row, Record
  <1>3. w.groups = {} => RowAfterWrite(d, w) = row[d]
    BY <1>1 DEF RowAfterWrite, TelemetryColumn, Row
  <1>4. /\ RowAfterWrite(d, w).meta \in {row[d].meta, w.record.meta}
        /\ RowAfterWrite(d, w).st \in {row[d].st, w.record.st}
        /\ RowAfterWrite(d, w).tel \in {row[d].tel, w.record.tel}
    BY <1>1 DEF RowAfterWrite, TelemetryColumn, Row
  <1>5. Behind(row[d], row[d])
    BY <1>1 DEF Behind, Row
  <1>6. ASSUME w.groups # {}
        PROVE  Behind(row[d], RowAfterWrite(d, w)) /\ Behind(RowAfterWrite(d, w), w.record)
    BY <1>1, <1>4, <1>6 DEF Behind, Row, Record
  <1> QED BY <1>2, <1>3, <1>5, <1>6

(* The order is one. *)
HasVersions(r) == r.meta \in Nat /\ r.st \in Nat /\ r.tel \in Nat

LEMMA BehindTransitive ==
  ASSUME NEW r, NEW s, NEW t, HasVersions(r), HasVersions(s), HasVersions(t),
         Behind(r, s), Behind(s, t)
  PROVE  Behind(r, t)
  BY DEF Behind, HasVersions

LEMMA OlderTransitive ==
  ASSUME NEW r \in Record, NEW s \in Record, NEW t \in Record, Older(r, s), Older(s, t)
  PROVE  Older(r, t)
  BY DEF Older, Behind, Record

LEMMA OlderReflexive ==
  ASSUME NEW r \in Record
  PROVE  Older(r, r)
  BY DEF Older, Behind, Record

LEMMA RecordsHaveVersions ==
  ASSUME DataTypes
  PROVE  /\ \A r \in Record : HasVersions(r) /\ r.rev \in Nat
         /\ \A d \in Devices : rec[d] \in Record /\ HasVersions(rec[d]) /\ rec[d].rev \in Nat
         /\ \A d \in Devices : row[d] \in Row /\ HasVersions(row[d])
         /\ \A d \in Devices : writes[d] \in Write /\ HasVersions(writes[d].record)
                               /\ writes[d].record \in Record
         /\ exec.write \in Write /\ exec.write.record \in Record
         /\ HasVersions(exec.write.record)
  <1>1. \A r \in Record : HasVersions(r) /\ r.rev \in Nat
    BY DEF Record, HasVersions
  <1>2. \A r \in Row : HasVersions(r)
    BY DEF Row, HasVersions
  <1>3. \A w \in Write : w.record \in Record
    BY DEF Write
  <1>4. exec.write \in Write
    BY DEF DataTypes, TaskTypes
  <1> QED BY <1>1, <1>2, <1>3, <1>4 DEF DataTypes, RegistryTypes, TaskTypes

-------------------------------------------------------------------------------
(* Frames *)

LEMMA OrderUnchanged ==
  ASSUME OrderInv, UNCHANGED <<known, rec, row, writes, exec, ent>>
  PROVE  OrderInv'
  BY DEF OrderInv, RecordInv, EntryInv, QueueInv, WriteInv, ExecInv, NewInv

LEMMA TailElement ==
  ASSUME NEW S, NEW s \in Seq(S), s # <<>>, NEW i \in 1 .. Len(Tail(s))
  PROVE  i + 1 \in 1 .. Len(s) /\ Tail(s)[i] = s[i + 1]
  OBVIOUS

LEMMA ResultsUnchanged ==
  ASSUME ResultInv, known \subseteq known', UNCHANGED <<row, emit, results>>
  PROVE  ResultInv'
  BY DEF ResultInv, ProvisionedIsNew

LEMMA ResultTaken ==
  ASSUME DataTypes, ResultInv, known \subseteq known', NEW kind, NextResult(kind)
  PROVE  ResultInv'
  <1>1. /\ emit' = emit /\ row' = row /\ results' = Tail(results)
        /\ results \in Seq(Result) /\ results # <<>>
    BY DEF NextResult, DataTypes, TaskTypes
  <1>2. \A i \in 1 .. Len(results') : \E j \in 1 .. Len(results) : results'[i] = results[j]
    BY <1>1, TailElement
  <1> QED BY <1>1, <1>2 DEF ResultInv, ProvisionedIsNew

-------------------------------------------------------------------------------
(* A newer record is marked: by a message, the activity scan or an added   *)
(* device.                                                                 *)
LEMMA MarkKeepsOrder ==
  ASSUME DataTypes, OrderInv, NEW S \in SUBSET Devices, NEW w,
         \A d \in S : /\ w[d] \in Write
                      /\ Older(rec[d], w[d].record)
                      /\ WithinRevision(w[d].record),
         MarkAll(S, w), known' = known \cup S, \A d \in S : row[d].there,
         UNCHANGED <<row, writes, exec>>
  PROVE  OrderInv' /\ \A d \in Devices : Behind(rec[d], rec'[d])
  <1>1. /\ \A d \in S : rec'[d] = w[d].record /\ ent'[d] = Mark(ent[d], w[d])
        /\ \A d \in Devices \ S : rec'[d] = rec[d] /\ ent'[d] = ent[d]
    BY DEF MarkAll
  <1>2. \A d \in S : w[d].record \in Record /\ HasVersions(w[d].record) /\ w[d].record.rev \in Nat
    BY RecordsHaveVersions DEF Write
  <1>3. \A d \in Devices : Older(rec[d], rec'[d]) /\ rec'[d] \in Record
    <2> TAKE d \in Devices
    <2>1. CASE d \in S
      BY <2>1, <1>1, <1>2
    <2>2. CASE d \notin S
      BY <2>2, <1>1, OlderReflexive, RecordsHaveVersions
    <2> QED BY <2>1, <2>2
  <1>4. RecordInv'
    BY <1>1 DEF OrderInv, RecordInv
  <1>5. EntryInv'
    <2> SUFFICES ASSUME NEW d \in Devices
                 PROVE  /\ ent'[d].record.rev <= rec'[d].rev
                        /\ HasDirty(ent'[d]) => d \in known' /\ ent'[d].record = rec'[d]
      BY DEF EntryInv, HasDirty
    <2>1. CASE d \in S
      <3>1. ent[d] \in Entry /\ ent[d].record.rev \in Nat
        BY DEF DataTypes, ServiceTypes, Entry, Record
      <3>2. ent[d].record.rev <= rec[d].rev
        BY DEF OrderInv, EntryInv
      <3>3. rec[d].rev <= w[d].record.rev
        BY <2>1 DEF Older
      <3>4. ent[d].record.rev <= w[d].record.rev
        BY <2>1, <3>1, <3>2, <3>3, <1>2, RecordsHaveVersions
      <3>5. ent'[d].record = w[d].record
        BY <2>1, <3>1, <3>4, <1>1, MarkTakesNewer
      <3> QED BY <2>1, <3>5, <1>1, <1>2
    <2>2. CASE d \notin S
      BY <2>2, <1>1 DEF OrderInv, EntryInv
    <2> QED BY <2>1, <2>2
  <1>6. \A d \in Devices : Behind(rec[d], rec'[d]) /\ HasVersions(rec'[d])
    BY <1>3, RecordsHaveVersions DEF Older
  <1>7. \A d \in Devices : Behind(row[d], rec'[d])
    BY <1>6, BehindTransitive, RecordsHaveVersions DEF OrderInv, QueueInv
  <1>8. QueueInv'
    <2>1. \A d \in Devices : writes[d].groups # {} => Older(writes[d].record, rec'[d])
      BY <1>3, OlderTransitive, RecordsHaveVersions DEF OrderInv, QueueInv
    <2> QED BY <1>7, <2>1 DEF OrderInv, QueueInv
  <1>9. ExecInv'
    <2>1. exec.kind = "write" => exec.dev \in Devices
      BY DEF DataTypes, CandidateInv
    <2>2. (exec.kind = "write" /\ exec.write.groups # {}) => Older(exec.write.record, rec'[exec.dev])
      BY <1>3, <2>1, OlderTransitive, RecordsHaveVersions DEF OrderInv, ExecInv
    <2> QED BY <2>2 DEF OrderInv, ExecInv
  <1>10. NewInv'
    BY <1>1 DEF OrderInv, NewInv
  <1>11. WriteInv'
    BY DEF OrderInv, WriteInv
  <1> QED BY <1>4, <1>5, <1>6, <1>8, <1>9, <1>10, <1>11 DEF OrderInv

LEMMA MarkOneKeepsOrder ==
  ASSUME DataTypes, OrderInv, NEW d \in Devices, NEW w \in Write,
         Older(rec[d], w.record), WithinRevision(w.record), MarkOne(d, w), row[d].there,
         known' = known \cup {d}, UNCHANGED <<row, writes, exec>>
  PROVE  OrderInv' /\ \A e \in Devices : Behind(rec[e], rec'[e])
  <1> DEFINE v == [e \in {d} |-> w]
             S == {d}
  <1>1. S \in SUBSET Devices /\ \A e \in S : e = d /\ v[e] = w
    OBVIOUS
  <1>2. MarkAll(S, v) /\ known' = known \cup S
    BY DEF MarkOne
  <1> HIDE DEF v, S
  <1> QED BY <1>1, <1>2, MarkKeepsOrder

(* The records of known devices are submitted to the database thread. *)
LEMMA SubmitKeepsOrder ==
  ASSUME DataTypes, OrderInv, NEW S \in SUBSET known, NEW w,
         \A d \in S : w[d] \in Write /\ w[d].record = rec[d] /\ w[d].groups # {},
         NEW entry \in [Devices -> Entry],
         \A d \in Devices : /\ entry[d].record.rev <= rec[d].rev
                            /\ HasDirty(entry[d]) => d \in known /\ entry[d].record = rec[d],
         SubmitWrites(S, w, entry), UNCHANGED <<known, rec, row, exec>>
  PROVE  OrderInv'
  <1>1. S \subseteq Devices
    BY DEF DataTypes, RegistryTypes
  <1>2. RecordInv' /\ NewInv'
    BY DEF OrderInv, RecordInv, NewInv
  <1>3. CASE /\ writes' = [d \in Devices |-> IF d \in S THEN MergeWrite(writes[d], w[d])
                                                        ELSE writes[d]]
             /\ ent' = entry
    <2>1. EntryInv'
      BY <1>3 DEF EntryInv
    <2>2. \A d \in S : MergeWrite(writes[d], w[d]).record = rec[d]
      <3> TAKE d \in S
      <3>1. CASE writes[d].groups = {}
        BY <3>1, <1>1, RecordsHaveVersions, MergeTakesOne
      <3>2. CASE writes[d].groups # {}
        <4>1. writes[d].record.rev <= rec[d].rev
          BY <3>2, <1>1 DEF OrderInv, QueueInv, Older
        <4>2. w[d].record.rev >= writes[d].record.rev
          BY <4>1, <1>1, RecordsHaveVersions
        <4>3. writes[d] \in Write /\ w[d] \in Write /\ w[d].record = rec[d]
          BY <1>1, RecordsHaveVersions
        <4> QED BY <4>2, <4>3, MergeTakesOne
      <3> QED BY <3>1, <3>2
    <2>3. \A d \in S : writes'[d].record = rec[d]
      BY <1>1, <1>3, <2>2
    <2>4. \A d \in Devices \ S : writes'[d] = writes[d]
      BY <1>3
    <2>5. \A d \in Devices : Older(rec[d], rec[d])
      BY OlderReflexive, RecordsHaveVersions
    <2>6. QueueInv'
      <3> SUFFICES ASSUME NEW d \in Devices
                   PROVE  /\ Behind(row[d], rec[d])
                          /\ writes'[d].groups # {} => /\ d \in known
                                                       /\ Behind(row[d], writes'[d].record)
                                                       /\ Older(writes'[d].record, rec[d])
        BY DEF QueueInv
      <3>1. CASE d \in S
        BY <3>1, <2>3, <2>5 DEF OrderInv, QueueInv
      <3>2. CASE d \notin S
        BY <3>2, <2>4 DEF OrderInv, QueueInv
      <3> QED BY <3>1, <3>2
    <2>7. ExecInv'
      <3> SUFFICES ASSUME exec.kind = "write", exec.write.groups # {}
                   PROVE  /\ exec.dev \in known
                          /\ Behind(row[exec.dev], exec.write.record)
                          /\ Older(exec.write.record, rec[exec.dev])
                          /\ writes'[exec.dev].groups # {} =>
                                Older(exec.write.record, writes'[exec.dev].record)
        BY DEF ExecInv
      <3>1. exec.dev \in Devices
        BY DEF DataTypes, CandidateInv
      <3>2. CASE exec.dev \in S
        BY <3>2, <2>3 DEF OrderInv, ExecInv
      <3>3. CASE exec.dev \notin S
        BY <3>1, <3>3, <2>4 DEF OrderInv, ExecInv
      <3> QED BY <3>2, <3>3
    <2>8. \A d \in S : writes'[d].groups # {}
      <3> TAKE d \in S
      <3>1. writes[d] \in Write /\ w[d] \in Write /\ w[d].groups # {}
        BY <1>1, RecordsHaveVersions
      <3>2. MergeWrite(writes[d], w[d]).groups = writes[d].groups \cup w[d].groups
        BY <3>1, MergeTakesOne
      <3>3. writes'[d] = MergeWrite(writes[d], w[d])
        BY <1>1, <1>3
      <3> QED BY <3>1, <3>2, <3>3
    <2>9. WriteInv'
      <3>1. \A d \in Devices : writes'[d] = NoWrite \/ writes'[d].groups # {}
        BY <2>4, <2>8 DEF OrderInv, WriteInv
      <3> QED BY <3>1 DEF OrderInv, WriteInv
    <2> QED BY <1>2, <2>1, <2>6, <2>7, <2>9 DEF OrderInv
  <1>4. CASE /\ ent' = [d \in Devices |-> IF d \in S THEN Restore(entry[d], w[d])
                                                     ELSE entry[d]]
             /\ writes' = writes
    <2>1. \A d \in S : Restore(entry[d], w[d]).record = rec[d]
      BY <1>1, RestoreTakesNewer
    <2>2. \A d \in Devices : rec[d].rev <= rec[d].rev
      BY RecordsHaveVersions
    <2>3. EntryInv'
      <3> SUFFICES ASSUME NEW d \in Devices
                   PROVE  /\ ent'[d].record.rev <= rec[d].rev
                          /\ HasDirty(ent'[d]) => d \in known /\ ent'[d].record = rec[d]
        BY DEF EntryInv, HasDirty
      <3>1. CASE d \in S
        BY <3>1, <1>4, <2>1, <2>2
      <3>2. CASE d \notin S
        BY <3>2, <1>4
      <3> QED BY <3>1, <3>2
    <2>4. QueueInv' /\ WriteInv' /\ ExecInv'
      BY <1>4 DEF OrderInv, QueueInv, WriteInv, ExecInv
    <2> QED BY <1>2, <2>3, <2>4 DEF OrderInv
  <1> QED BY <1>3, <1>4 DEF SubmitWrites

-------------------------------------------------------------------------------
(* The steps of the business thread.  What a step does to the tables and   *)
(* to the records:                                                         *)
OnlyNewer == row' = row /\ \A d \in Devices : Behind(rec[d], rec'[d])

LEMMA NothingNewer ==
  ASSUME DataTypes, UNCHANGED <<row, rec>>
  PROVE  OnlyNewer
  BY OlderReflexive, RecordsHaveVersions DEF OnlyNewer, Older

LEMMA ResultHandlersKeepStorage ==
  ASSUME DataTypes, StorageInv, HandleUnavailable \/ HandlePermanentFailure
  PROVE  StorageInv' /\ OnlyNewer
  <1>1. UNCHANGED <<known, rec, row, writes, exec, ent, pc>> /\ pc # "dispatch"
    BY NextResultTypes DEF HandleUnavailable, HandlePermanentFailure, registryVars, NextResult
  <1>2. ResultInv'
    BY <1>1, ResultTaken DEF StorageInv, HandleUnavailable, HandlePermanentFailure
  <1> QED BY <1>1, <1>2, OrderUnchanged, NothingNewer DEF StorageInv, TodoInv

LEMMA HandleRecoveredKeepsStorage ==
  ASSUME DataTypes, StorageInv, HandleRecovered
  PROVE  StorageInv' /\ OnlyNewer
  <1> DEFINE S == {d \in known : degraded[d] # 0}
             w == [d \in Devices |-> RecoveryWrite(d)]
  <1>1. UNCHANGED <<known, rec, row, exec, pc>> /\ pc # "dispatch"
    BY NextResultTypes DEF HandleRecovered, registryVars, NextResult
  <1>2. ResultInv'
    BY <1>1, ResultTaken DEF StorageInv, HandleRecovered
  <1>3. /\ S \in SUBSET known
        /\ \A d \in S : w[d] \in Write /\ w[d].record = rec[d] /\ w[d].groups # {}
    BY RecoveryWriteIsWrite DEF DataTypes, RegistryTypes
  <1>4. SubmitWrites(S, w, ent)
    BY DEF HandleRecovered
  <1> HIDE DEF S, w
  <1>5. OrderInv'
    BY <1>1, <1>3, <1>4, SubmitKeepsOrder DEF StorageInv, OrderInv, EntryInv, DataTypes, ServiceTypes
  <1> QED BY <1>1, <1>2, <1>5, NothingNewer DEF StorageInv, TodoInv

LEMMA HandleProvisionedKeepsStorage ==
  ASSUME DataTypes, StorageInv, HandleProvisioned
  PROVE  StorageInv' /\ OnlyNewer
  <1> DEFINE r == Head(results)
             d == r.dev
             n == AfterRegistration(r.record, d, pend[d].reg)
             w == WriteFor(n, FALSE, TRUE)
  <1>1. /\ UNCHANGED <<row, writes, exec, pc>> /\ pc # "dispatch" /\ r \in Result
        /\ r.kind = "provisioned"
    BY NextResultTypes DEF HandleProvisioned, NextResult
  <1>2. CASE UNCHANGED <<known, rec, ent>>
    <2>1. ResultInv'
      BY <1>2, ResultTaken DEF StorageInv, HandleProvisioned
    <2> QED BY <1>1, <1>2, <2>1, OrderUnchanged, NothingNewer DEF StorageInv, TodoInv
  <1>3. CASE /\ d \in Pending /\ CanAdd(d, r.record) /\ known' = known \cup {d} /\ MarkOne(d, w)
    <2>1. ResultInv'
      BY <1>3, ResultTaken DEF StorageInv, HandleProvisioned
    <2>2. d \in Devices /\ d \notin known /\ r.record \in Record
      BY <1>1, <1>3 DEF Pending, CanAdd, Result
    <2>3. ProvisionedIsNew(r)
      <3>1. results # <<>> /\ results \in Seq(Result)
        BY DEF HandleProvisioned, NextResult, DataTypes, TaskTypes
      <3>2. 1 \in 1 .. Len(results) /\ r = results[1]
        BY <3>1
      <3> QED BY <3>2 DEF StorageInv, ResultInv
    <2>4. r.record.rev = 0 /\ IsNew(r.record) /\ row[d].there
      BY <1>1, <2>2, <2>3 DEF ProvisionedIsNew
    <2>5. WithinRevision(r.record)
      BY <2>4 DEF WithinRevision, IsNew
    <2>6. pend[d].reg \in Registration /\ w \in Write /\ w.record = n
      BY <1>3, <2>2, ProvisionedWrite
    <2>7. n \in Record /\ WithinRevision(n)
      BY <2>2, <2>5, <2>6, RegistrationIsNewer
    <2>8. rec[d] = Blank
      BY <2>2 DEF StorageInv, OrderInv, NewInv
    <2>9. Older(rec[d], n)
      <3>1. n.rev = 1 /\ n.meta = 1 /\ n.st = 1 /\ n.tel = 0
        BY <2>4 DEF AfterRegistration, IsNew
      <3>2. rec[d].rev = 0 /\ rec[d].meta = 0 /\ rec[d].st = 0 /\ rec[d].tel = 0
        BY <2>8 DEF Blank
      <3> HIDE DEF n, d
      <3> QED BY <3>1, <3>2 DEF Older, Behind
    <2> HIDE DEF w, n, d
    <2>10. OrderInv' /\ \A e \in Devices : Behind(rec[e], rec'[e])
      BY <1>1, <1>3, <2>2, <2>4, <2>6, <2>7, <2>9, MarkOneKeepsOrder DEF StorageInv
    <2> QED BY <1>1, <2>1, <2>10 DEF StorageInv, TodoInv, OnlyNewer
  <1> QED BY <1>2, <1>3 DEF HandleProvisioned, registryVars

LEMMA HandleWriteCompletedKeepsStorage ==
  ASSUME DataTypes, StorageInv, HandleWriteCompleted
  PROVE  StorageInv' /\ OnlyNewer
  <1>1. UNCHANGED <<known, rec, row, writes, exec, pc>> /\ pc # "dispatch"
    BY NextResultTypes DEF HandleWriteCompleted, registryVars, NextResult
  <1>2. ResultInv'
    BY <1>1, ResultTaken DEF StorageInv, HandleWriteCompleted
  <1>3. EntryInv'
    <2>1. CASE ent' = ent
      BY <1>1, <2>1 DEF StorageInv, OrderInv, EntryInv
    <2>2. ASSUME NEW e \in Devices, NEW w, ent' = [ent EXCEPT ![e] = Complete(@, w)]
          PROVE  EntryInv'
      <3>1. \A d \in Devices : ent[d] \in Entry
        BY DEF DataTypes, ServiceTypes
      <3>2. ent'[e] = Complete(ent[e], w) /\ \A d \in Devices \ {e} : ent'[d] = ent[d]
        BY <2>2 DEF DataTypes, ServiceTypes
      <3>3. /\ ent'[e].record.rev <= ent[e].record.rev
            /\ HasDirty(ent'[e]) => HasDirty(ent[e]) /\ ent'[e].record = ent[e].record
        BY <3>1, <3>2, CompleteKeepsDirty
      <3>4. ent'[e].record.rev \in Nat /\ ent[e].record.rev \in Nat /\ rec[e].rev \in Nat
        BY <3>1, <3>2, CompleteType, RecordsHaveVersions DEF Entry, Record
      <3>5. ent[e].record.rev <= rec[e].rev
        BY DEF StorageInv, OrderInv, EntryInv
      <3>6. ent'[e].record.rev <= rec[e].rev
        BY <3>3, <3>4, <3>5
      <3> QED BY <1>1, <3>2, <3>3, <3>6 DEF StorageInv, OrderInv, EntryInv, HasDirty
    <2> QED BY <2>1, <2>2 DEF HandleWriteCompleted, Submitted
  <1> QED BY <1>1, <1>2, <1>3, NothingNewer
          DEF StorageInv, TodoInv, OrderInv, RecordInv, QueueInv, WriteInv, ExecInv, NewInv

LEMMA LeaveResultsKeepsStorage ==
  ASSUME DataTypes, StorageInv, LeaveResults
  PROVE  StorageInv' /\ OnlyNewer
  <1>1. UNCHANGED <<known, rec, row, writes, exec, emit, results>> /\ pc' # "dispatch"
    BY DEF LeaveResults, registryVars, workerVars
  <1>2. ResultInv'
    BY <1>1, ResultsUnchanged DEF StorageInv
  <1>3. EntryInv'
    <2>1. CASE ent' = ent
      BY <1>1, <2>1 DEF StorageInv, OrderInv, EntryInv
    <2>2. CASE ent' = [d \in Devices |-> NoEntry]
      <3>1. NoEntry.record.rev = 0 /\ ~HasDirty(NoEntry)
        BY ConstantTypes DEF NoEntry, Blank
      <3>2. \A d \in Devices : 0 <= rec[d].rev
        <4> TAKE d \in Devices
        <4>1. rec[d].rev \in Nat
          BY RecordsHaveVersions
        <4> QED BY <4>1
      <3>3. \A d \in Devices : ent'[d].record.rev = 0 /\ ~HasDirty(ent'[d])
        BY <2>2, <3>1
      <3> QED BY <1>1, <3>2, <3>3 DEF EntryInv, HasDirty
    <2> QED BY <2>1, <2>2 DEF LeaveResults
  <1> QED BY <1>1, <1>2, <1>3, NothingNewer
          DEF StorageInv, TodoInv, OrderInv, RecordInv, QueueInv, WriteInv, ExecInv, NewInv

LEMMA HandleRegistrationKeepsStorage ==
  ASSUME DataTypes, StorageInv, NEW d \in Devices, NEW reg \in Registration,
         HandleRegistration(d, reg)
  PROVE  StorageInv' /\ OnlyNewer
  <1>1. UNCHANGED <<known, row, writes, exec, emit, results>> /\ pc' # "dispatch"
    BY DEF HandleRegistration, AtMessages, workerVars, threadVars
  <1>2. ResultInv'
    BY <1>1, ResultsUnchanged DEF StorageInv
  <1>3. CASE d \in known
    <2> DEFINE n == AfterRegistration(rec[d], d, reg)
               w == WriteFor(n, FALSE, rec[d].online # reg.online)
    <2>1. n \in Record /\ Older(rec[d], n) /\ WithinRevision(n)
      BY RegistrationIsNewer DEF StorageInv, OrderInv, RecordInv, DataTypes, RegistryTypes
    <2>2. w \in Write /\ w.record = n
      BY <2>1, WriteForIsWrite
    <2>3. MarkOne(d, w) /\ known' = known \cup {d} /\ row[d].there
      BY <1>1, <1>3 DEF HandleRegistration, StorageInv, OrderInv, NewInv
    <2> HIDE DEF n, w
    <2>4. OrderInv' /\ \A e \in Devices : Behind(rec[e], rec'[e])
      BY <1>1, <2>1, <2>2, <2>3, MarkOneKeepsOrder DEF StorageInv
    <2> QED BY <1>1, <1>2, <2>4 DEF StorageInv, TodoInv, OnlyNewer
  <1>4. CASE d \notin known
    <2>1. UNCHANGED <<rec, ent>>
      BY <1>4 DEF HandleRegistration
    <2> QED BY <1>1, <1>2, <2>1, OrderUnchanged, NothingNewer DEF StorageInv, TodoInv
  <1> QED BY <1>3, <1>4

LEMMA HandleTelemetryKeepsStorage ==
  ASSUME DataTypes, StorageInv, NEW d \in Devices, NEW l \in LabelOrNone, HandleTelemetry(d, l)
  PROVE  StorageInv' /\ OnlyNewer
  <1>1. UNCHANGED <<known, row, writes, exec, emit, results>> /\ pc' # "dispatch" /\ d \in known
    BY DEF HandleTelemetry, AtMessages, workerVars, threadVars
  <1>2. ResultInv'
    BY <1>1, ResultsUnchanged DEF StorageInv
  <1> DEFINE n == AfterTelemetry(rec[d], d, l)
             w == WriteFor(n, TRUE, ~rec[d].online)
  <1>3. n \in Record /\ Older(rec[d], n) /\ WithinRevision(n)
    BY TelemetryIsNewer DEF StorageInv, OrderInv, RecordInv, DataTypes, RegistryTypes
  <1>4. w \in Write /\ w.record = n
    BY <1>3, WriteForIsWrite
  <1>5. MarkOne(d, w) /\ known' = known \cup {d} /\ row[d].there
    BY <1>1 DEF HandleTelemetry, StorageInv, OrderInv, NewInv
  <1> HIDE DEF n, w
  <1>6. OrderInv' /\ \A e \in Devices : Behind(rec[e], rec'[e])
    BY <1>1, <1>3, <1>4, <1>5, MarkOneKeepsOrder DEF StorageInv
  <1> QED BY <1>1, <1>2, <1>6 DEF StorageInv, TodoInv, OnlyNewer

LEMMA ExpireInactiveKeepsStorage ==
  ASSUME DataTypes, StorageInv, NEW S \in SUBSET Devices, ExpireInactive(S)
  PROVE  StorageInv' /\ OnlyNewer
  <1>1. UNCHANGED <<known, row, writes, exec, emit, results>> /\ S \subseteq known
    BY DEF ExpireInactive, workerVars
  <1>2. ResultInv'
    BY <1>1, ResultsUnchanged DEF StorageInv
  <1>3. TodoInv'
    BY DEF ExpireInactive, TodoInv, HasDirty
  <1> DEFINE w == [d \in Devices |-> WriteFor(Expired(rec[d]), FALSE, TRUE)]
  <1>4. \A d \in S : w[d] \in Write /\ Older(rec[d], w[d].record) /\ WithinRevision(w[d].record)
    <2> TAKE d \in S
    <2>1. /\ Expired(rec[d]) \in Record /\ Older(rec[d], Expired(rec[d]))
          /\ WithinRevision(Expired(rec[d]))
      BY ExpiryIsNewer DEF StorageInv, OrderInv, RecordInv, DataTypes, RegistryTypes
    <2> QED BY <2>1, WriteForIsWrite
  <1>5. MarkAll(S, w) /\ known' = known \cup S /\ \A d \in S : row[d].there
    BY <1>1 DEF ExpireInactive, StorageInv, OrderInv, NewInv
  <1> HIDE DEF w
  <1>6. OrderInv' /\ \A e \in Devices : Behind(rec[e], rec'[e])
    BY <1>1, <1>4, <1>5, MarkKeepsOrder DEF StorageInv
  <1> QED BY <1>1, <1>2, <1>3, <1>6 DEF StorageInv, OnlyNewer

LEMMA DispatchWriteKeepsStorage ==
  ASSUME DataTypes, StorageInv, NEW d \in Devices, DispatchWrite(d)
  PROVE  StorageInv' /\ OnlyNewer
  <1>1. /\ UNCHANGED <<known, rec, row, exec, emit, results>>
        /\ pc = "dispatch" /\ d \in todo /\ todo' = todo \ {d}
    BY DEF DispatchWrite, registryVars
  <1>2. ResultInv'
    BY <1>1, ResultsUnchanged DEF StorageInv
  <1> DEFINE w == [e \in {d} |-> TakenWrite(ent[d])]
             entry == [ent EXCEPT ![d] = AfterTake(@)]
             S == {d}
  <1>3. ent \in [Devices -> Entry] /\ ent[d] \in Entry
    BY DEF DataTypes, ServiceTypes
  <1>4. HasDirty(ent[d]) /\ d \in known /\ ent[d].record = rec[d]
    BY <1>1 DEF StorageInv, TodoInv, OrderInv, EntryInv
  <1>5. TakenWrite(ent[d]).groups # {}
    BY <1>4 DEF TakenWrite, HasDirty
  <1>6. /\ S \in SUBSET known
        /\ \A e \in S : w[e] \in Write /\ w[e].record = rec[e] /\ w[e].groups # {}
    BY <1>3, <1>4, <1>5, TakeLeavesClean
  <1>7. /\ entry \in [Devices -> Entry]
        /\ entry[d] = AfterTake(ent[d]) /\ \A e \in Devices \ {d} : entry[e] = ent[e]
    BY <1>3, TakeType
  <1>8. SubmitWrites(S, w, entry)
    BY DEF DispatchWrite
  <1> HIDE DEF w, entry
  <1>9. \A e \in Devices : /\ entry[e].record.rev <= rec[e].rev
                           /\ HasDirty(entry[e]) => e \in known /\ entry[e].record = rec[e]
    <2>1. ~HasDirty(entry[d]) /\ entry[d].record = rec[d]
      BY <1>3, <1>4, <1>7, TakeLeavesClean
    <2>2. rec[d].rev \in Nat
      BY RecordsHaveVersions
    <2>3. entry[d].record.rev <= rec[d].rev
      BY <2>1, <2>2
    <2> QED BY <1>7, <2>1, <2>3 DEF StorageInv, OrderInv, EntryInv
  <1>10. \A e \in Devices \ {d} : ent'[e] = ent[e]
    BY <1>7, <1>8 DEF SubmitWrites
  <1> HIDE DEF S
  <1>11. OrderInv'
    BY <1>1, <1>6, <1>7, <1>8, <1>9, SubmitKeepsOrder DEF StorageInv
  <1>12. TodoInv'
    BY <1>1, <1>10 DEF StorageInv, TodoInv, HasDirty, DataTypes, ServiceTypes
  <1> QED BY <1>1, <1>2, <1>11, <1>12, NothingNewer DEF StorageInv

LEMMA ThreadStepsKeepStorage ==
  ASSUME DataTypes, StorageInv, PositionTypes,
         \/ LeaveMessages \/ EndRound \/ CheckInput \/ DecideToLeave
         \/ \E d \in Devices : SubmitCandidate(d) \/ NotYetDue(d)
  PROVE  StorageInv' /\ OnlyNewer
  <1>1. UNCHANGED <<known, rec, row, writes, exec, ent, emit, results>>
    BY DEF LeaveMessages, EndRound, CheckInput, DecideToLeave, SubmitCandidate, NotYetDue,
           registryVars, workerVars, serviceVars
  <1>2. pc' # "dispatch" \/ (pc = "dispatch" /\ todo' \subseteq todo)
    BY DEF LeaveMessages, EndRound, CheckInput, DecideToLeave, SubmitCandidate, NotYetDue,
           PositionTypes
  <1>3. ResultInv'
    BY <1>1, ResultsUnchanged DEF StorageInv
  <1> QED BY <1>1, <1>2, <1>3, OrderUnchanged, NothingNewer DEF StorageInv, TodoInv

LEMMA BusinessThreadKeepsStorage ==
  ASSUME DataTypes, PositionTypes, StorageInv, BusinessThread
  PROVE  StorageInv' /\ OnlyNewer
  BY ResultHandlersKeepStorage, HandleRecoveredKeepsStorage, HandleProvisionedKeepsStorage,
     HandleWriteCompletedKeepsStorage, LeaveResultsKeepsStorage, HandleRegistrationKeepsStorage,
     HandleTelemetryKeepsStorage, ExpireInactiveKeepsStorage, DispatchWriteKeepsStorage,
     ThreadStepsKeepStorage
  DEF BusinessThread

-------------------------------------------------------------------------------
(* The steps of the database thread, and what they do to the tables *)
OnlyStores ==
    /\ rec' = rec
    /\ \/ row' = row
       \/ \E d \in Devices : /\ Behind(row[d], row'[d]) /\ Behind(row'[d], rec[d])
                             /\ \A e \in Devices \ {d} : row'[e] = row[e]

LEMMA EmitKeepsStorage ==
  ASSUME DataTypes, StorageInv, Emit
  PROVE  StorageInv' /\ OnlyStores
  <1>1. UNCHANGED <<known, rec, row, writes, exec, ent, pc, todo>>
    BY DEF Emit, registryVars, serviceVars, threadVars
  <1>2. ResultInv'
    <2>1. /\ results \in Seq(Result) /\ emit \in Result
          /\ results' = Append(results, emit) /\ emit' = NoResult
      BY DEF Emit, DataTypes, TaskTypes
    <2>2. \A i \in 1 .. Len(results') : \/ results'[i] = emit
                                        \/ i \in 1 .. Len(results) /\ results'[i] = results[i]
      BY <2>1
    <2>3. ProvisionedIsNew(NoResult)'
      BY DEF ProvisionedIsNew, NoResult, ResultOf
    <2> QED BY <1>1, <2>1, <2>2, <2>3 DEF StorageInv, ResultInv, ProvisionedIsNew
  <1> QED BY <1>1, <1>2, OrderUnchanged DEF StorageInv, TodoInv, OnlyStores

(* A task that is taken, or a step without one *)
LEMMA TakeWriteKeepsStorage ==
  ASSUME DataTypes, StorageInv, UNCHANGED OutsideWorker, NEW d \in Devices, TakeWrite(d)
  PROVE  StorageInv' /\ OnlyStores
  <1>1. UNCHANGED <<known, rec, row, ent, pc, todo, emit, results>>
    BY DEF TakeWrite, OutsideWorker, registryVars, serviceVars, threadVars
  <1>2. /\ exec'.dev = d /\ exec'.write = writes[d]
        /\ writes'[d] = NoWrite
        /\ \A e \in Devices \ {d} : writes'[e] = writes[e]
    BY DEF TakeWrite, Idle, DataTypes, TaskTypes
  <1>3. NoWrite.groups = {}
    BY DEF NoWrite
  <1>4. QueueInv'
    BY <1>1, <1>2, <1>3 DEF StorageInv, OrderInv, QueueInv
  <1>5. ExecInv'
    BY <1>1, <1>2, <1>3 DEF StorageInv, OrderInv, QueueInv, ExecInv
  <1>6. d \in QueuedWrites /\ exec'.kind = "write"
    BY DEF TakeWrite, Idle
  <1>7. WriteInv'
    BY <1>2, <1>6 DEF StorageInv, OrderInv, WriteInv, QueuedWrites
  <1> QED BY <1>1, <1>4, <1>5, <1>7, ResultsUnchanged
          DEF StorageInv, OrderInv, RecordInv, EntryInv, NewInv, TodoInv, OnlyStores

LEMMA WorkerStepsKeepStorage ==
  ASSUME DataTypes, StorageInv, UNCHANGED OutsideWorker,
         \/ \E d \in Devices : TakeProvision(d)
         \/ CommandLosesConnection \/ Reconnect \/ MigrationMismatch \/ GiveUp
         \/ Finish(stopRequested)
  PROVE  StorageInv' /\ OnlyStores
  <1>1. UNCHANGED <<known, rec, row, ent, pc, todo, results>>
    BY DEF TakeProvision, CommandLosesConnection, Reconnect, MigrationMismatch, GiveUp, Finish,
           OutsideWorker, registryVars, serviceVars, threadVars
  <1>2. writes' = writes \/ writes' = [d \in Devices |-> NoWrite]
    BY DEF TakeProvision, CommandLosesConnection, Reconnect, MigrationMismatch, GiveUp, Finish
  <1>3. exec' = exec \/ exec'.kind # "write"
    <2>1. \/ exec' = exec
          \/ exec' = Idle
          \/ exec' = [Idle EXCEPT !.kind = "give up"]
          \/ \E d \in Devices : exec' = [Idle EXCEPT !.kind = "provision", !.dev = d,
                                                      !.reg = provisions[d]]
      BY DEF TakeProvision, CommandLosesConnection, Reconnect, MigrationMismatch, GiveUp, Finish
    <2>2. Idle.kind = "idle" /\ [Idle EXCEPT !.kind = "give up"].kind = "give up"
      BY DEF Idle
    <2>3. \A d \in Devices : [Idle EXCEPT !.kind = "provision", !.dev = d,
                                          !.reg = provisions[d]].kind = "provision"
      BY DEF Idle
    <2> QED BY <2>1, <2>2, <2>3
  <1>4. ProvisionedIsNew(emit)'
    <2>1. \/ emit' = emit
          \/ emit' = ResultOf("recovered", NoDevice, 0)
          \/ emit' = ResultOf("permanent", NoDevice, 0)
      BY DEF TakeProvision, CommandLosesConnection, Reconnect, MigrationMismatch, GiveUp, Finish
    <2>2. emit' = emit \/ emit'.kind \in {"recovered", "permanent"}
      BY <2>1 DEF ResultOf
    <2> QED BY <1>1, <2>2 DEF StorageInv, ResultInv, ProvisionedIsNew
  <1>5. ResultInv'
    BY <1>1, <1>4 DEF StorageInv, ResultInv, ProvisionedIsNew
  <1>6. \A d \in Devices : writes'[d] = writes[d] \/ writes'[d].groups = {}
    BY <1>2 DEF NoWrite
  <1>7. QueueInv'
    BY <1>1, <1>6 DEF StorageInv, OrderInv, QueueInv
  <1>8. ExecInv'
    <2>1. exec.kind = "write" => exec.dev \in Devices
      BY DEF DataTypes, CandidateInv
    <2> QED BY <1>1, <1>3, <1>6, <2>1 DEF StorageInv, OrderInv, ExecInv
  <1>9. WriteInv'
    BY <1>2, <1>3 DEF StorageInv, OrderInv, WriteInv
  <1> QED BY <1>1, <1>5, <1>7, <1>8, <1>9
          DEF StorageInv, OrderInv, RecordInv, EntryInv, NewInv, TodoInv, OnlyStores

(* The row of a device that was inserted is still empty, the row of one    *)
(* that was there is left alone.                                           *)
LEMMA ProvisionIsNew ==
  ASSUME DataTypes, OrderInv, NEW d \in Devices, NEW reg \in Registration
  PROVE  LET r == RowAfterProvision(d, reg) IN
         /\ r \in Row /\ r.there
         /\ d \in known => r = row[d]
         /\ d \notin known => IsNew(r)
  <1>1. RowAfterProvision(d, reg) \in Row
    BY RowAfterProvisionType DEF DataTypes, TaskTypes
  <1>2. IsNew(Inserted(reg)) /\ Inserted(reg).there
    BY DEF IsNew, Inserted, NoRow
  <1> QED BY <1>1, <1>2 DEF RowAfterProvision, OrderInv, NewInv

(* A row that is inserted, or found *)
LEMMA RowProvisioned ==
  ASSUME DataTypes, StorageInv, NEW d \in Devices, NEW reg \in Registration,
         row' = [row EXCEPT ![d] = RowAfterProvision(d, reg)],
         UNCHANGED <<known, rec, ent, writes>>, exec' = Idle
  PROVE  /\ OrderInv' /\ OnlyStores
         /\ \A e \in Devices : row[e].there => row'[e].there
  <1> DEFINE r == RowAfterProvision(d, reg)
  <1>1. r \in Row /\ r.there /\ (d \in known => r = row[d]) /\ (d \notin known => IsNew(r))
    BY ProvisionIsNew DEF StorageInv
  <1>2. row'[d] = r /\ \A e \in Devices \ {d} : row'[e] = row[e]
    BY DEF DataTypes, TaskTypes
  <1> HIDE DEF r
  <1>3. CASE d \in known
    <2>1. \A e \in Devices : row'[e] = row[e]
      BY <1>1, <1>2, <1>3
    <2>2. row' = row
      BY <2>1 DEF DataTypes, TaskTypes
    <2>3. ExecInv' /\ WriteInv'
      BY IdleType DEF ExecInv, WriteInv, StorageInv, OrderInv
    <2> QED BY <2>2, <2>3 DEF StorageInv, OrderInv, RecordInv, EntryInv, QueueInv, NewInv, OnlyStores
  <1>4. CASE d \notin known
    <2>1. rec[d] = Blank /\ IsNew(row[d]) /\ IsNew(row'[d])
      BY <1>1, <1>2, <1>4 DEF StorageInv, OrderInv, NewInv
    <2>2. Behind(row[d], row'[d]) /\ Behind(row'[d], rec[d])
      BY <2>1 DEF Behind, IsNew, Blank
    <2>3. QueueInv'
      BY <1>2, <1>4, <2>2 DEF StorageInv, OrderInv, QueueInv
    <2>4. NewInv'
      BY <1>2, <1>4, <2>1 DEF StorageInv, OrderInv, NewInv
    <2>5. ExecInv' /\ WriteInv'
      BY IdleType DEF ExecInv, WriteInv, StorageInv, OrderInv
    <2>6. RecordInv' /\ EntryInv'
      BY DEF StorageInv, OrderInv, RecordInv, EntryInv
    <2> QED BY <1>1, <1>2, <2>2, <2>3, <2>4, <2>5, <2>6 DEF OrderInv, OnlyStores
  <1> QED BY <1>3, <1>4

(* The row of a known device changes, but stays there. *)
LEMMA NewKept ==
  ASSUME DataTypes, NewInv, NEW d \in known, UNCHANGED <<known, rec>>,
         \A e \in Devices \ {d} : row'[e] = row[e], row[d].there => row'[d].there
  PROVE  NewInv'
  <1>1. known \subseteq Devices
    BY DEF DataTypes, RegistryTypes
  <1>2. ASSUME NEW e \in Devices \ known PROVE (IsNew(row[e]) /\ rec[e] = Blank)'
    BY <1>2 DEF NewInv, IsNew
  <1>3. ASSUME NEW e \in known PROVE row'[e].there
    <2>1. row[e].there
      BY <1>3 DEF NewInv
    <2>2. CASE e = d
      BY <2>1, <2>2
    <2>3. CASE e # d
      <3>1. row'[e] = row[e]
        BY <1>1, <1>3, <2>3
      <3> QED BY <2>1, <3>1
    <2> QED BY <2>2, <2>3
  <1> QED BY <1>2, <1>3 DEF NewInv

(* A statement that stores the columns of a write *)
LEMMA RowWritten ==
  ASSUME DataTypes, StorageInv, exec.kind = "write",
         row' = [row EXCEPT ![exec.dev] = RowAfterWrite(exec.dev, exec.write)],
         UNCHANGED <<known, rec, ent>>
  PROVE  LET d == exec.dev IN
         /\ d \in Devices
         /\ \A e \in Devices \ {d} : row'[e] = row[e]
         /\ row'[d].there = row[d].there
         /\ Behind(row[d], row'[d]) /\ Behind(row'[d], rec[d])
         /\ HasVersions(row'[d])
         /\ exec.write.groups # {} => Behind(row'[d], exec.write.record)
         /\ exec.write.groups = {} => row'[d] = row[d]
         /\ writes[d].groups # {} => Behind(row'[d], writes[d].record)
         /\ OnlyStores
  <1> DEFINE d == exec.dev
             w == exec.write
             r == RowAfterWrite(d, w)
  <1>1. d \in Devices /\ w \in Write /\ w.record \in Record
    BY RecordsHaveVersions DEF DataTypes, CandidateInv
  <1>2. w.groups # {} => /\ d \in known /\ Behind(row[d], w.record) /\ Older(w.record, rec[d])
                         /\ writes[d].groups # {} => Older(w.record, writes[d].record)
    BY DEF StorageInv, OrderInv, ExecInv
  <1>3. /\ r \in Row
        /\ Behind(row[d], r)
        /\ w.groups # {} => Behind(r, w.record)
        /\ w.groups = {} => r = row[d]
    BY <1>1, <1>2, WriteIsBetween DEF DataTypes, TaskTypes
  <1>4. row'[d] = r /\ \A e \in Devices \ {d} : row'[e] = row[e]
    BY <1>1 DEF DataTypes, TaskTypes
  <1>5. r.there = row[d].there
    <2>1. row[d] \in Row
      BY <1>1, RecordsHaveVersions
    <2> QED BY <2>1 DEF RowAfterWrite, Row
  <1>6. HasVersions(r)
    BY <1>3 DEF HasVersions, Row
  <1> HIDE DEF r
  <1>7. Behind(r, rec[d]) /\ (writes[d].groups # {} => Behind(r, writes[d].record))
    <2>1. CASE w.groups = {}
      BY <1>1, <1>3, <2>1 DEF StorageInv, OrderInv, QueueInv
    <2>2. CASE w.groups # {}
      BY <1>1, <1>2, <1>3, <1>6, <2>2, BehindTransitive, RecordsHaveVersions DEF Older
    <2> QED BY <2>1, <2>2
  <1>8. OnlyStores
    BY <1>1, <1>3, <1>4, <1>7 DEF OnlyStores
  <1> QED BY <1>1, <1>3, <1>4, <1>5, <1>6, <1>7, <1>8

LEMMA ProvisionKeepsStorage ==
  ASSUME DataTypes, StorageInv, UNCHANGED OutsideWorker, Provision
  PROVE  StorageInv' /\ OnlyStores
  <1> DEFINE d == exec.dev
  <1>1. d \in Devices /\ exec.reg \in Registration
    BY DEF DataTypes, CandidateInv, Provision
  <1>2. UNCHANGED <<known, rec, ent, pc, todo, results, writes>> /\ exec' = Idle
    BY DEF Provision, OutsideWorker, registryVars, serviceVars, threadVars
  <1>3. CASE /\ row' = [row EXCEPT ![d] = RowAfterProvision(d, exec.reg)]
             /\ emit' = [kind |-> "provisioned", dev |-> d, rev |-> 0,
                         record |-> RecordOf(RowAfterProvision(d, exec.reg))]
    <2>1. OrderInv' /\ OnlyStores /\ \A e \in Devices : row[e].there => row'[e].there
      BY <1>1, <1>2, <1>3, RowProvisioned
    <2>2. LET r == RowAfterProvision(d, exec.reg) IN
          r \in Row /\ r.there /\ (d \notin known => IsNew(r))
      BY <1>1, ProvisionIsNew DEF StorageInv
    <2>3. row'[d] = RowAfterProvision(d, exec.reg)
      BY <1>1, <1>3 DEF DataTypes, TaskTypes
    <2>4. ProvisionedIsNew(emit)'
      BY <1>1, <1>2, <1>3, <2>2, <2>3 DEF ProvisionedIsNew, RecordOf, IsNew
    <2>5. ResultInv'
      BY <1>2, <2>1, <2>4 DEF StorageInv, ResultInv, ProvisionedIsNew
    <2> QED BY <1>2, <2>1, <2>5 DEF StorageInv, TodoInv
  <1>4. CASE row' = row /\ emit' = ResultOf("permanent", d, 0)
    <2>1. ResultInv'
      BY <1>2, <1>4 DEF StorageInv, ResultInv, ProvisionedIsNew, ResultOf
    <2>2. ExecInv' /\ WriteInv'
      BY <1>2, IdleType DEF ExecInv, WriteInv, StorageInv, OrderInv
    <2> QED BY <1>2, <1>4, <2>1, <2>2
            DEF StorageInv, OrderInv, RecordInv, EntryInv, QueueInv, NewInv, TodoInv, OnlyStores
  <1> QED BY <1>3, <1>4 DEF Provision

LEMMA WriteStateKeepsStorage ==
  ASSUME DataTypes, StorageInv, UNCHANGED OutsideWorker, WriteState
  PROVE  StorageInv' /\ OnlyStores
  <1> DEFINE d == exec.dev
  <1>1. UNCHANGED <<known, rec, ent, pc, todo, results, writes>> /\ exec' = Idle /\ exec.kind = "write"
    BY DEF WriteState, OutsideWorker, registryVars, serviceVars, threadVars
  <1>2. emit'.kind \in {"completed", "permanent"}
    BY DEF WriteState, ResultOf
  <1>3. ExecInv' /\ WriteInv'
    BY <1>1, IdleType DEF ExecInv, WriteInv, StorageInv, OrderInv
  <1>4. CASE row' = row
    <2>1. ResultInv'
      BY <1>1, <1>2, <1>4 DEF StorageInv, ResultInv, ProvisionedIsNew
    <2> QED BY <1>1, <1>3, <1>4, <2>1
            DEF StorageInv, OrderInv, RecordInv, EntryInv, QueueInv, NewInv, TodoInv, OnlyStores
  <1>5. CASE row' = [row EXCEPT ![d] = RowAfterWrite(d, exec.write)]
    <2>1. /\ d \in Devices
          /\ \A e \in Devices \ {d} : row'[e] = row[e]
          /\ row'[d].there = row[d].there
          /\ Behind(row'[d], rec[d])
          /\ exec.write.groups = {} => row'[d] = row[d]
          /\ writes[d].groups # {} => Behind(row'[d], writes[d].record)
          /\ OnlyStores
      BY <1>1, <1>5, RowWritten
    <2>2. QueueInv'
      BY <1>1, <2>1 DEF StorageInv, OrderInv, QueueInv
    <2>3. d \in known
      BY <1>1 DEF StorageInv, OrderInv, WriteInv, ExecInv
    <2>4. NewInv'
      <3>1. row[d].there => row'[d].there
        BY <2>1
      <3>2. NewInv
        BY DEF StorageInv, OrderInv
      <3> HIDE DEF d
      <3> QED BY <1>1, <2>1, <2>3, <3>1, <3>2, NewKept
    <2>5. ResultInv'
      BY <1>1, <1>2, <2>1 DEF StorageInv, ResultInv, ProvisionedIsNew
    <2> QED BY <1>1, <1>3, <2>1, <2>2, <2>4, <2>5
            DEF StorageInv, OrderInv, RecordInv, EntryInv, TodoInv
  <1> QED BY <1>4, <1>5 DEF WriteState

(* The connection is lost: the tables have or have not got the write, and  *)
(* it is put back under the newer one that may wait there.                 *)
LEMMA LoseConnectionKeepsStorage ==
  ASSUME DataTypes, StorageInv, UNCHANGED OutsideWorker, LoseConnection
  PROVE  StorageInv' /\ OnlyStores
  <1> DEFINE d == exec.dev
             w == exec.write
  <1>1. UNCHANGED <<known, rec, ent, pc, todo, results>> /\ exec' = Idle
    BY DEF LoseConnection, OutsideWorker, registryVars, serviceVars, threadVars
  <1>2. emit'.kind = "unavailable"
    BY DEF LoseConnection, ResultOf
  <1>3. ExecInv'
    BY <1>1, IdleType DEF ExecInv
  <1>4. CASE exec.kind = "provision"
    <2>1. writes' = writes /\ exec.kind # "write"
      BY <1>4 DEF LoseConnection
    <2>a. WriteInv'
      BY <1>1, <2>1, IdleType DEF WriteInv, StorageInv, OrderInv
    <2>2. CASE row' = row
      <3>1. ResultInv'
        BY <1>1, <1>2, <2>2 DEF StorageInv, ResultInv, ProvisionedIsNew
      <3> QED BY <1>1, <1>3, <2>1, <2>a, <2>2, <3>1
              DEF StorageInv, OrderInv, RecordInv, EntryInv, QueueInv, NewInv, TodoInv, OnlyStores
    <2>3. CASE row' = [row EXCEPT ![d] = RowAfterProvision(d, exec.reg)]
      <3>1. d \in Devices /\ exec.reg \in Registration
        BY <1>4 DEF DataTypes, CandidateInv
      <3>2. OrderInv' /\ OnlyStores /\ \A e \in Devices : row[e].there => row'[e].there
        BY <1>1, <2>1, <2>3, <3>1, RowProvisioned
      <3>3. ResultInv'
        BY <1>1, <1>2, <3>2 DEF StorageInv, ResultInv, ProvisionedIsNew
      <3> QED BY <1>1, <3>2, <3>3 DEF StorageInv, TodoInv
    <2> QED BY <2>1, <2>2, <2>3 DEF LoseConnection
  <1>5. CASE exec.kind = "write"
    <2>1. writes' = [writes EXCEPT ![d] = MergeWrite(@, w)]
      BY <1>5 DEF LoseConnection
    <2>2. d \in Devices /\ w \in Write /\ writes[d] \in Write
      BY <1>5, RecordsHaveVersions DEF DataTypes, CandidateInv
    <2>3. /\ writes'[d] = MergeWrite(writes[d], w)
          /\ \A e \in Devices \ {d} : writes'[e] = writes[e]
      BY <2>1, <2>2 DEF DataTypes, TaskTypes
    <2>4. w.groups # {} /\ d \in known /\ Older(w.record, rec[d]) /\ Behind(row[d], w.record)
      BY <1>5 DEF StorageInv, OrderInv, ExecInv, WriteInv
    <2>5. /\ \A e \in Devices \ {d} : row'[e] = row[e]
          /\ row'[d].there = row[d].there
          /\ Behind(row'[d], rec[d])
          /\ w.groups = {} => row'[d] = row[d]
          /\ w.groups # {} => Behind(row'[d], w.record)
          /\ writes[d].groups # {} => Behind(row'[d], writes[d].record)
          /\ OnlyStores
      <3>1. CASE row' = row
        BY <1>1, <2>2, <2>4, <3>1 DEF StorageInv, OrderInv, QueueInv, OnlyStores
      <3>2. CASE row' = [row EXCEPT ![d] = RowAfterWrite(d, w)]
        BY <1>1, <1>5, <3>2, RowWritten
      <3> QED BY <1>5, <3>1, <3>2 DEF LoseConnection
    <2>6. MergeWrite(writes[d], w).groups # {} =>
              \/ /\ writes[d].groups # {}
                 /\ MergeWrite(writes[d], w).record = writes[d].record
              \/ MergeWrite(writes[d], w).record = w.record
      <3>1. CASE writes[d].groups = {}
        BY <2>2, <3>1, MergeTakesOne
      <3>2. CASE writes[d].groups # {}
        BY <2>2, <3>2, MergeTakesOne
      <3> QED BY <3>1, <3>2
    <2>7. QueueInv'
      <3>1. writes'[d].groups # {} => /\ d \in known
                                      /\ Behind(row'[d], writes'[d].record)
                                      /\ Older(writes'[d].record, rec[d])
        BY <2>2, <2>3, <2>4, <2>5, <2>6 DEF StorageInv, OrderInv, QueueInv
      <3> QED BY <1>1, <2>2, <2>3, <2>5, <3>1 DEF StorageInv, OrderInv, QueueInv
    <2>8. NewInv'
      <3>1. row[d].there => row'[d].there
        BY <2>5
      <3>2. NewInv
        BY DEF StorageInv, OrderInv
      <3> HIDE DEF d
      <3> QED BY <1>1, <2>4, <2>5, <3>1, <3>2, NewKept
    <2>9. ResultInv'
      BY <1>1, <1>2, <2>5 DEF StorageInv, ResultInv, ProvisionedIsNew
    <2>10. WriteInv'
      <3>1. writes'[d].groups # {}
        BY <2>2, <2>3, <2>4, MergeTakesOne
      <3> QED BY <1>1, <2>3, <3>1, IdleType DEF StorageInv, OrderInv, WriteInv
    <2> QED BY <1>1, <1>3, <2>5, <2>7, <2>8, <2>9, <2>10
            DEF StorageInv, OrderInv, RecordInv, EntryInv, TodoInv
  <1> QED BY <1>4, <1>5 DEF LoseConnection

LEMMA DatabaseThreadKeepsStorage ==
  ASSUME DataTypes, StorageInv, DatabaseThread
  PROVE  StorageInv' /\ OnlyStores
  BY EmitKeepsStorage, TakeWriteKeepsStorage, WorkerStepsKeepStorage, ProvisionKeepsStorage,
     WriteStateKeepsStorage, LoseConnectionKeepsStorage
  DEF DatabaseThread, OutsideWorker

-------------------------------------------------------------------------------
(* The start: what the tables hold is what the devices have, except the    *)
(* status of the devices that expired while the service was down.          *)
StartOrder(n, r, w, d) ==
    /\ n.meta = 0 /\ n.st = 0 /\ n.tel = 0
    /\ d \in Registered => n.there
    /\ r.meta = 0 /\ r.st \in {0, 1} /\ r.tel = 0 /\ r.rev = r.st
    /\ d \notin Registered => r = Blank
    /\ w = NoWrite \/ (w.record = r /\ w.groups # {} /\ d \in Registered)
    /\ r.st # 0 => w.record = r /\ "status" \in w.groups

LEMMA StartIsOrdered ==
  ASSUME NEW up \in SUBSET Registered, NEW expired \in SUBSET up, NEW d \in Devices
  PROVE  /\ StartOrder(StartRow(d, up), StartRecord(d, up, expired),
                       StartWrite(d, up, expired), d)
         /\ StartRecord(d, up, expired).label = NoLabel
  <1> DEFINE n == StartRow(d, up)
             r == StartRecord(d, up, expired)
             w == StartWrite(d, up, expired)
  <1>1. /\ n.meta = 0 /\ n.st = 0 /\ n.tel = 0 /\ n.label = NoLabel
        /\ d \in Registered => n.there
    BY DEF StartRow, NoRow
  <1>2. r \in {Expired(RecordOf(n)), RecordOf(n), Blank}
    BY DEF StartRecord
  <1>3. d \notin Registered => r = Blank
    BY DEF StartRecord
  <1>4. /\ r.meta = 0 /\ r.st \in {0, 1} /\ r.tel = 0 /\ r.rev = r.st /\ r.label = NoLabel
    <2>1. CASE r = Blank
      BY <2>1 DEF Blank
    <2>2. CASE r = RecordOf(n)
      BY <1>1, <2>2 DEF RecordOf
    <2>3. CASE r = Expired(RecordOf(n))
      BY <1>1, <2>3 DEF RecordOf, Expired
    <2> QED BY <1>2, <2>1, <2>2, <2>3
  <1>5. w = NoWrite \/ (w.record = r /\ w.groups # {} /\ d \in Registered)
    BY DEF StartWrite
  <1>6. d \notin expired => r.st = 0
    BY <1>1 DEF StartRecord, RecordOf, Blank
  <1>7. d \in expired => w.record = r /\ "status" \in w.groups
    BY DEF StartWrite
  <1> QED BY <1>1, <1>3, <1>4, <1>5, <1>6, <1>7 DEF StartOrder

LEMMA InitIsOrdered ==
  ASSUME Init, NEW d \in Devices
  PROVE  StartOrder(row[d], rec[d], writes[d], d) /\ rec[d].label = NoLabel
  <1> PICK up \in SUBSET Registered : \E expired \in SUBSET up :
             /\ row = [e \in Devices |-> StartRow(e, up)]
             /\ rec = [e \in Devices |-> StartRecord(e, up, expired)]
             /\ writes = [e \in Devices |-> StartWrite(e, up, expired)]
    BY DEF Init
  <1> PICK expired \in SUBSET up :
             /\ row = [e \in Devices |-> StartRow(e, up)]
             /\ rec = [e \in Devices |-> StartRecord(e, up, expired)]
             /\ writes = [e \in Devices |-> StartWrite(e, up, expired)]
    OBVIOUS
  <1>1. row[d] = StartRow(d, up) /\ rec[d] = StartRecord(d, up, expired)
        /\ writes[d] = StartWrite(d, up, expired)
    OBVIOUS
  <1> QED BY <1>1, StartIsOrdered

LEMMA StartFacts ==
  ASSUME NEW n, NEW r, NEW w, NEW d, StartOrder(n, r, w, d)
  PROVE  WithinRevision(r) /\ 0 <= r.rev /\ Behind(n, r) /\ Older(r, r)
  <1>1. /\ n.meta = 0 /\ n.st = 0 /\ n.tel = 0
        /\ r.meta = 0 /\ r.tel = 0 /\ r.rev = r.st
        /\ r.st = 0 \/ r.st = 1
    BY DEF StartOrder
  <1> QED BY <1>1 DEF WithinRevision, Behind, Older

LEMMA StorageInit ==
  ASSUME Init
  PROVE  StorageInv
  <1>1. /\ known = Registered /\ exec = Idle /\ emit = NoResult /\ results = <<>>
        /\ pc = "results" /\ ent = [d \in Devices |-> NoEntry]
    BY DEF Init
  <1>2. \A d \in Devices : StartOrder(row[d], rec[d], writes[d], d)
    BY InitIsOrdered
  <1>3. RecordInv
    BY <1>2, StartFacts DEF RecordInv
  <1>4. EntryInv
    <2>1. NoEntry.record.rev = 0 /\ ~HasDirty(NoEntry)
      BY ConstantTypes DEF NoEntry, Blank
    <2>2. \A d \in Devices : 0 <= rec[d].rev
      BY <1>2, StartFacts
    <2> QED BY <1>1, <2>1, <2>2 DEF EntryInv
  <1>5. \A d \in Devices : Behind(row[d], rec[d]) /\ Older(rec[d], rec[d])
    BY <1>2, StartFacts
  <1>6. NoWrite.groups = {}
    BY DEF NoWrite
  <1>7. QueueInv
    BY <1>1, <1>2, <1>5, <1>6 DEF QueueInv, StartOrder
  <1>8. WriteInv /\ ExecInv
    BY <1>1, <1>2, IdleType DEF WriteInv, ExecInv, StartOrder
  <1>9. NewInv
    BY <1>1, <1>2, RegistryAssumption DEF NewInv, IsNew, StartOrder
  <1>10. ResultInv
    BY <1>1 DEF ResultInv, ProvisionedIsNew, NoResult, ResultOf
  <1>11. TodoInv
    BY <1>1 DEF TodoInv
  <1> QED BY <1>3, <1>4, <1>7, <1>8, <1>9, <1>10, <1>11 DEF StorageInv, OrderInv

LEMMA StorageUnchanged ==
  ASSUME DataTypes, StorageInv,
         UNCHANGED <<row, writes, exec, emit, results, known, rec, ent, todo, pc>>
  PROVE  StorageInv' /\ OnlyNewer
  <1>1. ResultInv' /\ OrderInv'
    BY ResultsUnchanged, OrderUnchanged DEF StorageInv
  <1>2. TodoInv'
    BY DEF StorageInv, TodoInv
  <1> QED BY <1>1, <1>2, NothingNewer DEF StorageInv

LEMMA StorageNext ==
  ASSUME DeviceTypes, StorageInv, [Next]_deviceVars
  PROVE  StorageInv' /\ (OnlyNewer \/ OnlyStores)
  <1>1. DataTypes /\ PositionTypes
    BY DEF DeviceTypes
  <1>2. CASE BusinessThread
    BY <1>1, <1>2, BusinessThreadKeepsStorage
  <1>3. CASE DatabaseThread
    BY <1>1, <1>3, DatabaseThreadKeepsStorage
  <1>4. CASE MainThread
    BY <1>1, <1>4, MainThreadUnchanged, StorageUnchanged
  <1>5. CASE UNCHANGED deviceVars
    BY <1>1, <1>5, StutterUnchanged, StorageUnchanged
  <1> QED BY <1>2, <1>3, <1>4, <1>5 DEF Next

(* Rows, executing writes, queued writes and records stay ordered: this is *)
(* the invariant that the theorems below rest on.                          *)
THEOREM StorageOrdered == Spec => []StorageInv
  <1>1. Init => StorageInv
    BY StorageInit
  <1>2. DeviceTypes /\ StorageInv /\ [Next]_deviceVars => StorageInv'
    BY StorageNext
  <1> QED BY <1>1, <1>2, DeviceTypesHold, PTL DEF Spec

-------------------------------------------------------------------------------
(* The refinement *)

LEMMA VersionOfGroup ==
  ASSUME NEW r
  PROVE  /\ Version(r, "metadata") = r.meta
         /\ Version(r, "status") = r.st
         /\ Version(r, "telemetry") = r.tel
  BY DEF Version

LEMMA BehindVersions ==
  ASSUME NEW r, NEW s, Behind(r, s), NEW g \in Groups
  PROVE  Version(r, g) <= Version(s, g)
  <1>1. g \in {"metadata", "status", "telemetry"}
    BY DEF Groups
  <1> QED BY <1>1, VersionOfGroup DEF Behind

LEMMA StorageStart ==
  ASSUME Init
  PROVE  Storage!Init
  <1>2. \A d \in Devices : StartOrder(row[d], rec[d], writes[d], d)
    BY InitIsOrdered
  <1>3. \A d \in Devices, g \in Groups : Version(row[d], g) = 0 /\ Version(rec[d], g) \in {0, 1}
    <2> TAKE d \in Devices, g \in Groups
    <2>1. g \in {"metadata", "status", "telemetry"}
      BY DEF Groups
    <2> QED BY <1>2, <2>1, VersionOfGroup DEF StartOrder
  <1> QED BY <1>3 DEF Storage!Init

LEMMA StorageStep ==
  ASSUME OnlyNewer \/ OnlyStores
  PROVE  Storage!Next \/ (UNCHANGED <<row, rec>>)
  <1>1. CASE OnlyNewer
    <2>1. \A d \in Devices, g \in Groups : Version(rec'[d], g) >= Version(rec[d], g)
      <3> TAKE d \in Devices, g \in Groups
      <3>1. g \in {"metadata", "status", "telemetry"}
        BY DEF Groups
      <3> QED BY <1>1, <3>1, VersionOfGroup DEF OnlyNewer, Behind
    <2>2. row' = row
      BY <1>1 DEF OnlyNewer
    <2> QED BY <2>1, <2>2 DEF Storage!Next, Storage!Change
  <1>2. CASE OnlyStores
    <2>1. CASE row' = row
      BY <1>2, <2>1 DEF OnlyStores
    <2>2. CASE row' # row
      <3> PICK d \in Devices : /\ Behind(row[d], row'[d]) /\ Behind(row'[d], rec[d])
                               /\ \A e \in Devices \ {d} : row'[e] = row[e]
        BY <1>2, <2>2 DEF OnlyStores
      <3>1. rec' = rec
        BY <1>2 DEF OnlyStores
      <3>2. \A g \in Groups : /\ Version(row[d], g) <= Version(row'[d], g)
                              /\ Version(row'[d], g) <= Version(rec[d], g)
        BY BehindVersions
      <3>3. Storage!Store(d)
        BY <3>1, <3>2 DEF Storage!Store
      <3> QED BY <3>3 DEF Storage!Next
    <2> QED BY <2>1, <2>2
  <1> QED BY <1>1, <1>2

(* The tables only move forward, to values the devices had, one device at  *)
(* a time: whatever is merged, restored after an outage, written twice or  *)
(* superseded on the way from DeviceService through PostgresWorker.        *)
THEOREM StorageImplemented == Spec => ImplementsStorage
  <1>1. Init => Storage!Init
    BY StorageStart
  <1>2. DeviceTypes /\ StorageInv /\ [Next]_deviceVars
          => [Storage!Next]_<<[d \in Devices |-> [g \in Groups |-> Version(rec[d], g)]],
                              [d \in Devices |-> [g \in Groups |-> Version(row[d], g)]]>>
    BY StorageNext, StorageStep
  <1> QED BY <1>1, <1>2, DeviceTypesHold, StorageOrdered, PTL
          DEF Spec, ImplementsStorage, Storage!Spec

-------------------------------------------------------------------------------
(* Labels *)

(* One device takes a label nobody else has, keeps its own or has none. *)
LEMMA OneTakesLabel ==
  ASSUME LabelHasOneOwner, NEW d, known' = known \cup {d},
         \A e \in known \ {d} : rec'[e].label = rec[e].label,
         \/ rec'[d].label = NoLabel
         \/ ~Taken(d, rec'[d].label)
         \/ d \in known /\ rec'[d].label = rec[d].label
  PROVE  LabelHasOneOwner'
  <1>1. rec'[d].label = NoLabel \/ \A e \in known \ {d} : rec[e].label # rec'[d].label
    BY DEF LabelHasOneOwner, Taken
  <1> QED BY <1>1 DEF LabelHasOneOwner

LEMMA LabelOfMarked ==
  ASSUME DataTypes, NEW d \in Devices, NEW w, MarkOne(d, w)
  PROVE  rec'[d] = w.record /\ \A e \in Devices \ {d} : rec'[e] = rec[e]
  <1> DEFINE v == [e \in {d} |-> w]
  <1>1. v[d] = w
    OBVIOUS
  <1>2. /\ rec'[d] = v[d].record
        /\ \A e \in Devices \ {d} : rec'[e] = rec[e]
    BY DEF MarkOne, MarkAll
  <1> QED BY <1>1, <1>2

LEMMA LabelsUnchanged ==
  ASSUME LabelHasOneOwner, known' = known, \A d \in known : rec'[d].label = rec[d].label
  PROVE  LabelHasOneOwner'
  BY DEF LabelHasOneOwner

LEMMA LabelsNext ==
  ASSUME DeviceTypes, LabelHasOneOwner, [Next]_deviceVars
  PROVE  LabelHasOneOwner'
  <1> USE DEF registryVars, serviceVars, workerVars, threadVars
  <1>1. known \subseteq Devices /\ DataTypes
    BY DEF DeviceTypes, DataTypes, RegistryTypes
  <1>2. CASE UNCHANGED <<known, rec>>
    BY <1>2, LabelsUnchanged
  <1>3. CASE HandleProvisioned
    <2> DEFINE r == Head(results)
               d == r.dev
               n == AfterRegistration(r.record, d, pend[d].reg)
               w == WriteFor(n, FALSE, TRUE)
    <2>1. CASE d \in Pending /\ CanAdd(d, r.record) /\ known' = known \cup {d} /\ MarkOne(d, w)
      <3>1. d \in Devices
        BY <2>1 DEF Pending
      <3>2. w.record = n
        BY DEF WriteFor
      <3>3. \/ n.label = pend[d].reg.label /\ ~Taken(d, pend[d].reg.label)
            \/ n.label = r.record.label
        BY DEF AfterRegistration
      <3>4. r.record.label = NoLabel \/ ~Taken(d, r.record.label)
        BY <2>1 DEF CanAdd
      <3> HIDE DEF n, w, d
      <3>5. rec'[d] = n /\ \A e \in Devices \ {d} : rec'[e] = rec[e]
        BY <1>1, <2>1, <3>1, <3>2, LabelOfMarked
      <3>6. n.label = NoLabel \/ ~Taken(d, n.label)
        BY <3>3, <3>4
      <3> QED BY <1>1, <2>1, <3>5, <3>6, OneTakesLabel
    <2> QED BY <1>2, <1>3, <2>1 DEF HandleProvisioned
  <1>4. ASSUME NEW d \in Devices, NEW reg \in Registration, HandleRegistration(d, reg)
        PROVE  LabelHasOneOwner'
    <2> DEFINE n == AfterRegistration(rec[d], d, reg)
               w == WriteFor(n, FALSE, rec[d].online # reg.online)
    <2>1. CASE d \in known /\ MarkOne(d, w)
      <3>1. w.record = n /\ known' = known
        BY <1>4 DEF WriteFor, HandleRegistration
      <3>2. n.label = rec[d].label \/ ~Taken(d, n.label)
        BY DEF AfterRegistration
      <3> HIDE DEF n, w
      <3>3. rec'[d] = n /\ \A e \in Devices \ {d} : rec'[e] = rec[e]
        BY <1>1, <2>1, <3>1, LabelOfMarked
      <3> QED BY <1>1, <2>1, <3>1, <3>2, <3>3, OneTakesLabel
    <2> QED BY <1>2, <1>4, <2>1 DEF HandleRegistration
  <1>5. ASSUME NEW d \in Devices, NEW l \in LabelOrNone, HandleTelemetry(d, l)
        PROVE  LabelHasOneOwner'
    <2> DEFINE n == AfterTelemetry(rec[d], d, l)
               w == WriteFor(n, TRUE, ~rec[d].online)
    <2>1. d \in known /\ MarkOne(d, w) /\ known' = known /\ w.record = n
      BY <1>5 DEF WriteFor, HandleTelemetry
    <2>2. n.label = rec[d].label \/ ~Taken(d, n.label)
      BY DEF AfterTelemetry
    <2> HIDE DEF n, w
    <2>3. rec'[d] = n /\ \A e \in Devices \ {d} : rec'[e] = rec[e]
      BY <1>1, <2>1, LabelOfMarked
    <2> QED BY <1>1, <2>1, <2>2, <2>3, OneTakesLabel
  <1>6. ASSUME NEW S \in SUBSET Devices, ExpireInactive(S)
        PROVE  LabelHasOneOwner'
    <2>1. \A d \in Devices : rec'[d] \in {rec[d], Expired(rec[d])}
      BY <1>6 DEF ExpireInactive, MarkAll, WriteFor
    <2>2. \A d \in Devices : rec'[d].label = rec[d].label
      BY <2>1 DEF Expired
    <2>3. known' = known
      BY <1>6 DEF ExpireInactive
    <2> QED BY <1>1, <2>2, <2>3, LabelsUnchanged
  <1>7. CASE BusinessThread
    <2>1. CASE \/ HandleUnavailable \/ HandlePermanentFailure \/ HandleRecovered
               \/ HandleWriteCompleted \/ LeaveResults \/ LeaveMessages \/ EndRound
               \/ CheckInput \/ DecideToLeave
               \/ \E d \in Devices : SubmitCandidate(d) \/ DispatchWrite(d) \/ NotYetDue(d)
      <3>1. UNCHANGED <<known, rec>>
        BY <2>1 DEF HandleUnavailable, HandlePermanentFailure, HandleRecovered,
                    HandleWriteCompleted, LeaveResults, LeaveMessages, EndRound, CheckInput,
                    DecideToLeave, SubmitCandidate, DispatchWrite, NotYetDue
      <3> QED BY <1>2, <3>1
    <2> QED BY <1>3, <1>4, <1>5, <1>6, <1>7, <2>1 DEF BusinessThread
  <1>8. CASE DatabaseThread
    <2>1. UNCHANGED <<known, rec>>
      BY <1>8 DEF DatabaseThread, Emit
    <2> QED BY <1>2, <2>1
  <1>9. CASE MainThread
    BY <1>2, <1>9, MainThreadUnchanged
  <1>10. CASE UNCHANGED deviceVars
    BY <1>2, <1>10, StutterUnchanged
  <1> QED BY <1>7, <1>8, <1>9, <1>10 DEF Next

(* No two devices in memory have the same label, whatever labels they take *)
(* from registrations, telemetry and the tables (the checks of roles_ in   *)
(* ApplyRegistration, ApplyTelemetry and AddProvisioned).                  *)
THEOREM LabelsAreUnique == Spec => []LabelHasOneOwner
  <1>1. Init => LabelHasOneOwner
    <2> SUFFICES ASSUME Init PROVE LabelHasOneOwner
      OBVIOUS
    <2>1. known \subseteq Devices
      BY RegistryAssumption DEF Init
    <2> QED BY <2>1, InitIsOrdered DEF LabelHasOneOwner
  <1>2. DeviceTypes /\ LabelHasOneOwner /\ [Next]_deviceVars => LabelHasOneOwner'
    BY LabelsNext
  <1> QED BY <1>1, <1>2, DeviceTypesHold, PTL DEF Spec
===============================================================================
