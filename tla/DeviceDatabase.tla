---------------------------- MODULE DeviceDatabase ----------------------------
(***************************************************************************)
(* The device branch of PostgresWorker (database thread) and the tables    *)
(* devices and device_latest_states it writes.  The thread takes a task    *)
(* under its lock, executes it without the lock, changes its own state     *)
(* under the lock and then hands the result over: one step each, so that   *)
(* submissions of the business thread fall in between.  Tasks of commands  *)
(* are modelled in CommandDatabase; here they only meet an outage.         *)
(***************************************************************************)
EXTENDS DirtyState, Sequences

CONSTANTS NoDevice,      \* the empty device_id of a result for all devices
          DeviceFaults,  \* faults that may happen, see FaultKinds
          MaxOutages     \* bound: lost connections

(* The connection is lost during a task of a device or of a command, the   *)
(* schema has changed at a reconnection.                                   *)
FaultKinds == {"outage", "command", "migration"}

ASSUME DatabaseAssumption ==
    /\ NoDevice \notin Devices
    /\ DeviceFaults \subseteq FaultKinds
    /\ MaxOutages \in Nat

VARIABLES row,          \* rows of both tables
          writes,       \* writes_, merged per device
          provisions,   \* provisions_: registrations to insert
          exec,         \* the task the thread has taken
          emit,         \* what the thread will hand over next
          unavailable,  \* unavailable_
          accepting,    \* accepting_
          draining,     \* drain_requested_
          stopped,      \* worker_stopped_
          outages       \* lost connections so far (bounded by MaxOutages)

workerVars == <<writes, provisions, exec, emit, unavailable, accepting,
                draining, stopped, outages>>

Row == [there : BOOLEAN, online : BOOLEAN, label : LabelOrNone,
        meta : Nat, st : Nat, seen : Nat, tel : Nat]
NoRow == [there |-> FALSE, online |-> FALSE, label |-> NoLabel,
          meta |-> 0, st |-> 0, seen |-> 0, tel |-> 0]
Inserted(reg) == [NoRow EXCEPT !.there = TRUE, !.online = reg.online,
                               !.label = reg.label]

(* DeviceFromRow: a record read from the tables has revision 0 *)
RecordOf(r) == [rev |-> 0, online |-> r.online, label |-> r.label,
                meta |-> r.meta, st |-> r.st, seen |-> r.seen, tel |-> r.tel]

NoCandidate == [none |-> TRUE]
Idle == [kind |-> "idle", dev |-> NoDevice, reg |-> NoCandidate, write |-> NoWrite]

(* DatabaseResult *)
ResultKinds == {"provisioned", "completed", "unavailable", "recovered", "permanent"}
Result == [kind : ResultKinds \cup {"none"},
           dev : Devices \cup {NoDevice}, rev : Nat, record : Record]
ResultOf(kind, d, rev) == [kind |-> kind, dev |-> d, rev |-> rev, record |-> Blank]
NoResult == ResultOf("none", NoDevice, 0)

-------------------------------------------------------------------------------
(* UNIQUE (school_id, dcdw_label) *)
LabelStored(d, l) == l # NoLabel /\ \E e \in Devices \ {d} : row[e].label = l

(* INSERT ... ON CONFLICT (device_id) DO NOTHING, then the row is read *)
RowAfterProvision(d, reg) == IF row[d].there THEN row[d] ELSE Inserted(reg)

(* WriteDeviceState: only the columns of the selected groups *)
TelemetryOrNull(d, w) == IF "telemetry" \in w.groups THEN w.record.tel ELSE 0
TelemetryColumn(d, w) == IF "telemetry" \in w.groups THEN w.record.tel ELSE row[d].tel
RowAfterWrite(d, w) ==
    LET r == w.record IN
    [row[d] EXCEPT !.label  = IF "metadata" \in w.groups THEN r.label ELSE @,
                   !.meta   = IF "metadata" \in w.groups THEN r.meta ELSE @,
                   !.online = IF "status" \in w.groups THEN r.online ELSE @,
                   !.st     = IF "status" \in w.groups THEN r.st ELSE @,
                   !.seen   = IF "status" \in w.groups THEN r.seen ELSE @,
                   !.tel    = TelemetryColumn(d, w)]

(* PostgresWorker::MergeWrite *)
MergeLatestOnly(old, w) ==
    IF w.record.rev >= old.record.rev THEN w ELSE old
MergeKeepsRecord(old, w) ==
    IF old.groups = {} THEN w ELSE [old EXCEPT !.groups = @ \cup w.groups]
MergeWrite(old, w) ==
    IF old.groups = {} THEN w
    ELSE [record |-> IF w.record.rev >= old.record.rev THEN w.record ELSE old.record,
          groups |-> old.groups \cup w.groups,
          urgent |-> old.urgent \/ w.urgent]

NoProvisions == [d \in Devices |-> NoCandidate]
QueuedProvisions == {d \in Devices : provisions[d] # NoCandidate}
QueuedWrites == {d \in Devices : writes[d] # NoWrite}

AtLoop == exec = Idle /\ emit = NoResult /\ ~stopped

-------------------------------------------------------------------------------
(* Run takes provisions before writes; the maps have no order. *)
TakeProvision(d) ==
    /\ AtLoop /\ ~unavailable
    /\ d \in QueuedProvisions
    /\ exec' = [Idle EXCEPT !.kind = "provision", !.dev = d, !.reg = provisions[d]]
    /\ provisions' = [provisions EXCEPT ![d] = NoCandidate]
    /\ UNCHANGED <<row, writes, emit, unavailable, accepting, draining, stopped,
                   outages>>

TakeWrite(d) ==
    /\ AtLoop /\ ~unavailable
    /\ QueuedProvisions = {}
    /\ d \in QueuedWrites
    /\ exec' = [Idle EXCEPT !.kind = "write", !.dev = d, !.write = writes[d]]
    /\ writes' = [writes EXCEPT ![d] = NoWrite]
    /\ UNCHANGED <<row, provisions, emit, unavailable, accepting, draining, stopped,
                   outages>>

(* A registration without school (an offline one) may be refused. *)
Provision ==
    LET d == exec.dev IN
    /\ exec.kind = "provision"
    /\ exec' = Idle
    /\ provisions' = [provisions EXCEPT ![d] = NoCandidate]
    /\ \/ /\ row[d].there \/ ~LabelStored(d, exec.reg.label)
          /\ row' = [row EXCEPT ![d] = RowAfterProvision(d, exec.reg)]
          /\ emit' = [kind |-> "provisioned", dev |-> d, rev |-> 0,
                      record |-> RecordOf(RowAfterProvision(d, exec.reg))]
       \/ /\ ~exec.reg.online \/ (~row[d].there /\ LabelStored(d, exec.reg.label))
          /\ emit' = ResultOf("permanent", d, 0)
          /\ UNCHANGED row
    /\ UNCHANGED <<writes, unavailable, accepting, draining, stopped,
                   outages>>

WriteState ==
    LET d == exec.dev
        w == exec.write
        conflict == "metadata" \in w.groups /\ LabelStored(d, w.record.label)
    IN  /\ exec.kind = "write"
        /\ exec' = Idle
        /\ \/ /\ ~conflict
              /\ row' = [row EXCEPT ![d] = RowAfterWrite(d, w)]
              /\ emit' = ResultOf("completed", d, w.record.rev)
           \/ /\ conflict
              /\ emit' = ResultOf("permanent", d, w.record.rev)
              /\ UNCHANGED row
        /\ UNCHANGED <<writes, provisions, unavailable, accepting, draining, stopped,
                   outages>>

(* The connection breaks during a task, before or after its commit.  A     *)
(* write is put back; provisions are dropped, a retained registration will *)
(* be replayed after the recovery.                                         *)
LoseConnection ==
    LET d == exec.dev IN
    /\ "outage" \in DeviceFaults
    /\ outages < MaxOutages
    /\ outages' = outages + 1
    /\ exec.kind \in {"provision", "write"}
    /\ \/ UNCHANGED row
       \/ /\ exec.kind = "provision"
          /\ row[d].there \/ ~LabelStored(d, exec.reg.label)
          /\ row' = [row EXCEPT ![d] = RowAfterProvision(d, exec.reg)]
       \/ /\ exec.kind = "write"
          /\ "metadata" \in exec.write.groups => ~LabelStored(d, exec.write.record.label)
          /\ row' = [row EXCEPT ![d] = RowAfterWrite(d, exec.write)]
    /\ writes' = IF exec.kind = "write"
                 THEN [writes EXCEPT ![d] = MergeWrite(@, exec.write)] ELSE writes
    /\ provisions' = NoProvisions
    /\ unavailable' = TRUE
    /\ exec' = Idle
    /\ emit' = ResultOf("unavailable", d, exec.write.record.rev)
    /\ UNCHANGED <<accepting, draining, stopped>>

(* A task of the command service meets the outage: no result for devices. *)
CommandLosesConnection ==
    /\ "command" \in DeviceFaults
    /\ outages < MaxOutages
    /\ outages' = outages + 1
    /\ AtLoop /\ ~unavailable
    /\ unavailable' = TRUE
    /\ provisions' = NoProvisions
    /\ UNCHANGED <<row, writes, exec, emit, accepting, draining, stopped>>

Reconnect ==
    /\ AtLoop /\ unavailable
    /\ unavailable' = FALSE
    /\ emit' = ResultOf("recovered", NoDevice, 0)
    /\ UNCHANGED <<row, writes, provisions, exec, accepting, draining, stopped,
                   outages>>

(* The schema no longer matches: the thread reports it, then gives up. *)
MigrationMismatch ==
    /\ "migration" \in DeviceFaults
    /\ AtLoop /\ unavailable
    /\ exec' = [Idle EXCEPT !.kind = "give up"]
    /\ emit' = ResultOf("permanent", NoDevice, 0)
    /\ UNCHANGED <<row, writes, provisions, unavailable, accepting, draining, stopped,
                   outages>>

GiveUp ==
    /\ exec.kind = "give up" /\ emit = NoResult
    /\ exec' = Idle
    /\ accepting' = FALSE
    /\ stopped' = TRUE
    /\ provisions' = NoProvisions
    /\ writes' = [d \in Devices |-> NoWrite]
    /\ UNCHANGED <<row, emit, unavailable, draining, outages>>

(* The thread ends when it is drained, or asked to stop. *)
Finish(stopRequested) ==
    /\ AtLoop
    /\ \/ stopRequested
       \/ draining /\ ~unavailable /\ QueuedProvisions = {} /\ QueuedWrites = {}
    /\ accepting' = FALSE
    /\ stopped' = TRUE
    /\ UNCHANGED <<row, writes, provisions, exec, emit, unavailable, draining,
                   outages>>
===============================================================================
