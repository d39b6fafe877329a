---------------------------- MODULE CommandService ----------------------------
(***************************************************************************)
(* The command router of route_service: CommandService (business thread)   *)
(* between the command sources, the database thread (CommandDatabase), the *)
(* MQTT client (MqttPublications), the devices and the main thread that    *)
(* polls availability.  One action per handler of the business thread; the *)
(* other threads, the devices and time interleave between them.            *)
(*                                                                         *)
(* The business thread repeats two phases (DeviceService::Run).  In phase  *)
(* "devices" the device service works; an online state it publishes calls  *)
(* OnTargetOnline.  In phase "commands" ProcessReady drains the database   *)
(* results, then the publish completions, then the messages, retries one   *)
(* deferred transition and scans the active commands.  A scan visits the   *)
(* commands one by one (variable scan), so that the main thread may run in *)
(* between; no other handler runs until it has ended.  Bound: a "devices"  *)
(* phase reports at most one device online.                                *)
(*                                                                         *)
(* Deadlines: for one command they are created in increasing order, the    *)
(* n-th extension is deadline n.  passed[id] is the number of deadlines of *)
(* the command that time has passed, so deadline dl is due iff             *)
(* dl < passed[id].  The clock is read when a phase is left.               *)
(***************************************************************************)
EXTENDS MqttPublications

CONSTANTS MaxExtensions,  \* bound: deadline extensions of one command
          MaxCrashes      \* bound: crashes of the process

ASSUME ServiceAssumption == MaxExtensions \in Nat /\ MaxCrashes \in Nat

VARIABLES active,     \* active_commands_: record status and deadline
          recovery,   \* recovery_started_
          early,      \* early_device_acks_
          deferred,   \* deferred_transitions_
          dbAvail,    \* database_available_
          mqttAvail,  \* mqtt_available_
          pc,         \* phase of the business thread; "report" and "sweep":
                      \* ProcessTimeoutsAndRecovery is about to start
          scan,       \* commands it still has to visit
          passed,     \* number of deadlines of a command that have passed
          online,     \* devices whose registry status is online
          accepted,   \* requests accepted so far (bounded by MaxRequests)
          crashes,    \* crashes so far (bounded by MaxCrashes)
          told,       \* history: last status published to the source
          verdicts    \* history: terminal acks not caused by a repeated
                      \* request (counted up to 2)

threadVars == <<pc, scan>>
environmentVars == <<passed, online, accepted, crashes>>
historyVars == <<told, verdicts>>
serviceVars == <<active, recovery, early, deferred, dbAvail, mqttAvail>>
vars == <<databaseVars, mqttVars, serviceVars, threadVars, environmentVars,
          historyVars>>

AckStatus == {"accepted", "in_progress", "rejected", "timeout"}
Inactive == [status |-> "none", dl |-> 0]
NothingDeferred == [from |-> "none", to |-> "none", dl |-> 0]

TypeOf(id) == info[id].payload.type
TargetOf(id) == info[id].payload.target
Active == {id \in Ids : active[id].status # "none"}
Due(id) == active[id].dl < passed[id]

(* A device of a config command reports applied or already_applied (here   *)
(* "accepted") or rejected; a flight controller all four.                  *)
AcksOf(type) == IF type = "control" THEN AckStatus ELSE {"accepted", "rejected"}

DesiredAfter(ack) == CASE ack = "in_progress" -> "in_progress"
                       [] ack = "rejected"    -> "failed"
                       [] ack = "timeout"     -> "timeout"
                       [] OTHER               -> "succeeded"

(* The deadline an in_progress ack creates: after the one of the context,  *)
(* and in the future.                                                      *)
Extended(id, dl) == IF dl + 1 > passed[id] THEN dl + 1 ELSE passed[id]

-------------------------------------------------------------------------------
(* Handlers share these steps. *)

Ready == pc = "commands" /\ scan = {}
AtDevices == pc = "devices" /\ scan = {}

SubmitTransitionOrDefer(id, from, to, dl) ==
    \/ /\ CanSubmit
       /\ dbq' = Append(dbq, TransitionTask(id, from, to, dl))
       /\ deferred' = [deferred EXCEPT ![id] = NothingDeferred]
       /\ UNCHANGED dbAvail
    \/ /\ ~CanSubmit
       /\ deferred' = [deferred EXCEPT ![id] = [from |-> from, to |-> to, dl |-> dl]]
       /\ dbAvail' = FALSE
       /\ UNCHANGED dbq

PublishAck(id, status) == told' = [told EXCEPT ![id] = status]

CountVerdict(id) == verdicts' = [verdicts EXCEPT ![id] = IF @ = 0 THEN 1 ELSE 2]

(* PublishRecord of the context (id, status, dl) *)
PublishRecord(id, status, dl) ==
    \/ /\ ~mqttAvail
       /\ UNCHANGED <<recovery, pubs, sent, dbq, deferred, dbAvail>>
    \/ /\ mqttAvail
       /\ recovery' = recovery \cup {id}
       /\ \/ /\ PublishCommandSet(id, status, dl)
             /\ UNCHANGED <<dbq, deferred, dbAvail>>
          \/ /\ PublishCommandSetRefused
             /\ SubmitTransitionOrDefer(id, status, "failed", dl)

(* HandleDeviceAck for a command dispatched or in progress *)
ApplyDeviceAck(id, status, dl, ack) ==
    SubmitTransitionOrDefer(id, status, DesiredAfter(ack),
                            IF ack = "in_progress" THEN Extended(id, dl) ELSE dl)

(* HandleDeviceAck before the publish completion was persisted: which ack  *)
(* of two is kept.  Only control acks are known to be final.               *)
KeepEarly(id, ack) ==
    IF TypeOf(id) = "control" /\ early[id] \notin {"none", "in_progress"}
    THEN early[id] ELSE ack

(* A terminal record leaves the maps of the running service. *)
Forget(id) ==
    /\ active' = [active EXCEPT ![id] = Inactive]
    /\ recovery' = recovery \ {id}
    /\ early' = [early EXCEPT ![id] = "none"]

-------------------------------------------------------------------------------
(* What a new request competes with: active_commands_, operations_ (none   *)
(* of them has a result waiting here) and publications_.                   *)
IgnoresActive == Len(dbq) + Cardinality(Publications)
CommandsInService == Cardinality(Active) + Len(dbq) + Cardinality(Publications)

(* Handle(InboundMessage): a request that passes the checks is looked up.  *)
(* Every refusal answers the source and changes no state.                  *)
HandleSourceRequest(req) ==
    /\ Ready /\ dbr = <<>> /\ Completions = {}
    /\ accepted < MaxRequests
    /\ mqttAvail /\ dbAvail
    /\ CommandsInService < MaxInflight
    /\ CanSubmit
    /\ dbq' = Append(dbq, FindTask(req))
    /\ accepted' = accepted + 1
    /\ UNCHANGED <<info, row, dbr, workerVars, mqttVars, serviceVars, threadVars,
                   passed, online, crashes, historyVars>>

(* Handle(InboundMessage) for a device ack of an active command; any other *)
(* ack is only logged.                                                     *)
HandleDeviceAck(id, ack) ==
    /\ Ready /\ dbr = <<>> /\ Completions = {}
    /\ sent[id] > 0
    /\ id \in Active
    /\ ack \in AcksOf(TypeOf(id))
    /\ ack = "in_progress" => Extended(id, active[id].dl) <= MaxExtensions
    /\ \/ /\ active[id].status = "pending"
          /\ early' = [early EXCEPT ![id] = KeepEarly(id, ack)]
          /\ UNCHANGED <<dbq, deferred, dbAvail>>
       \/ /\ active[id].status \in {"dispatched", "in_progress"}
          /\ ApplyDeviceAck(id, active[id].status, active[id].dl, ack)
          /\ UNCHANGED early
    /\ UNCHANGED <<info, row, dbr, workerVars, mqttVars, active, recovery, mqttAvail,
                   threadVars, environmentVars, historyVars>>

(* Handle(PublishCompletion) *)
HandlePublishCompletion(id, k) ==
    LET pub == pubs[id][k]
        desired == IF pub.st = "ok" THEN "dispatched"
                   ELSE IF TypeOf(id) = "control" THEN "delivery_uncertain"
                   ELSE "failed"
    IN  /\ Ready /\ dbr = <<>>
        /\ pub.st \in {"ok", "failed"}
        /\ pubs' = [pubs EXCEPT ![id][k] = FreeSlot]
        /\ \/ /\ pub.st = "ok" /\ pub.prev = "dispatched"
              /\ UNCHANGED <<dbq, deferred, dbAvail>>
           \/ /\ ~(pub.st = "ok" /\ pub.prev = "dispatched")
              /\ SubmitTransitionOrDefer(id, pub.prev, desired, pub.dl)
        /\ UNCHANGED <<info, row, dbr, workerVars, sent, mqttUp, active, recovery,
                       early, mqttAvail, threadVars, environmentVars,
                       historyVars>>

-------------------------------------------------------------------------------
(* Handle(CommandDatabaseResult): the front result, by kind of operation. *)
NextResult(kind, out) ==
    /\ Ready /\ dbr # <<>>
    /\ Head(dbr).task.kind = kind
    /\ Head(dbr).out = out
    /\ dbr' = Tail(dbr)

(* kFind, the key is taken: replay the current state of that command, or   *)
(* refuse a different request under the same key.                          *)
HandleFound ==
    LET r == Head(dbr)
    IN  /\ NextResult("find", "row")
        /\ IF info[r.rid].payload = r.task.req.payload
           THEN PublishAck(r.rid, r.st) ELSE UNCHANGED told
        /\ UNCHANGED <<info, row, dbq, workerVars, mqttVars, serviceVars, threadVars,
                       environmentVars, verdicts>>

(* kFind, the key is free: a new command is generated, failed at once when *)
(* its target does not resolve or is offline.                              *)
InitialStatus(req) == IF req.payload.target \in online THEN "pending" ELSE "failed"

HandleNotFound ==
    LET req == Head(dbr).task.req
    IN  /\ NextResult("find", "none")
        /\ \E id \in Ids :
             /\ \A j \in Ids : info[j] = NoRequest <=> j >= id
             /\ info' = [info EXCEPT ![id] = req]
             /\ dbq' = IF CanSubmit
                       THEN Append(dbq, InsertTask(id, InitialStatus(req)))
                       ELSE dbq
        /\ UNCHANGED <<row, workerVars, mqttVars, serviceVars, threadVars,
                       environmentVars, historyVars>>

(* kInsert returned the row of another command: a concurrent request with  *)
(* the same key won.                                                       *)
HandleInsertLost ==
    LET r == Head(dbr)
    IN  /\ NextResult("insert", "row")
        /\ r.rid # r.task.id
        /\ IF info[r.rid].payload = info[r.task.id].payload
           THEN PublishAck(r.rid, r.st) ELSE UNCHANGED told
        /\ UNCHANGED <<info, row, dbq, workerVars, mqttVars, serviceVars, threadVars,
                       environmentVars, verdicts>>

(* kInsert stored the command: a failed one is answered, a pending one     *)
(* becomes active and is published to the device.                          *)
HandleInserted ==
    LET r == Head(dbr)
        id == r.task.id
    IN  /\ NextResult("insert", "row")
        /\ r.rid = id
        /\ \/ /\ IsTerminal(r.st)
              /\ PublishAck(id, r.st)
              /\ CountVerdict(id)
              /\ Forget(id)
              /\ UNCHANGED <<dbq, pubs, sent, deferred, dbAvail>>
           \/ /\ ~IsTerminal(r.st)
              /\ active' = [active EXCEPT ![id] = [status |-> r.st, dl |-> r.task.dl]]
              /\ PublishRecord(id, r.st, r.task.dl)
              /\ UNCHANGED <<early, historyVars>>
        /\ UNCHANGED <<info, row, workerVars, mqttUp, mqttAvail, threadVars,
                       environmentVars>>

(* The command is dispatched and its ack has already come. *)
EarlyAckLeft(id, status) == FALSE
EarlyAckWaits(id, status) == status = "dispatched" /\ early[id] # "none"

(* kTransition succeeded: the source hears of it; a terminal command is    *)
(* forgotten, a dispatched one gets the ack that came too early.           *)
HandleTransitioned ==
    LET r == Head(dbr)
        id == r.rid
    IN  /\ NextResult("transition", "row")
        /\ PublishAck(id, r.st)
        /\ \/ /\ IsTerminal(r.st)
              /\ CountVerdict(id)
              /\ Forget(id)
              /\ UNCHANGED <<dbq, deferred, dbAvail>>
           \/ /\ ~IsTerminal(r.st)
              /\ active' = [active EXCEPT ![id] = [status |-> r.st, dl |-> r.task.dl]]
              /\ \/ /\ EarlyAckWaits(id, r.st)
                    /\ early' = [early EXCEPT ![id] = "none"]
                    /\ ApplyDeviceAck(id, r.st, r.task.dl, early[id])
                 \/ /\ ~EarlyAckWaits(id, r.st)
                    /\ UNCHANGED <<early, dbq, deferred, dbAvail>>
              /\ UNCHANGED <<recovery, verdicts>>
        /\ UNCHANGED <<info, row, workerVars, mqttVars, mqttAvail, threadVars,
                       environmentVars>>

(* kTransition found another status: read the row again.  When the worker  *)
(* has no room the conflict is only logged.                                *)
HandleTransitionConflict ==
    LET t == Head(dbr).task
    IN  /\ NextResult("transition", "conflict")
        /\ \/ /\ CanSubmit
              /\ dbq' = Append(dbq, FindByIdTask(t.id, t.to, t.dl))
              /\ UNCHANGED dbAvail
           \/ /\ ~CanSubmit
              /\ dbAvail' = FALSE
              /\ UNCHANGED dbq
        /\ UNCHANGED <<info, row, workerVars, mqttVars, active, recovery, early,
                       deferred, mqttAvail, threadVars, environmentVars,
                       historyVars>>

(* kFindByIdForConvergence: only the first one to learn of a terminal      *)
(* status of an active command answers the source.                         *)
WasAlwaysActive(id) == TRUE
WasNeverActive(id) == FALSE
WasActive(id) == id \in Active

ConvergeAfterConflict ==
    LET r == Head(dbr)
        id == r.rid
        desired == r.task.to
    IN  /\ NextResult("findById", "row")
        /\ \/ /\ IsTerminal(r.st)
              /\ Forget(id)
              /\ IF WasActive(id) THEN PublishAck(id, r.st) /\ CountVerdict(id)
                 ELSE UNCHANGED historyVars
              /\ UNCHANGED <<dbq, deferred, dbAvail>>
           \/ /\ ~IsTerminal(r.st)
              /\ r.st # desired /\ CanTransition(r.st, desired)
              /\ SubmitTransitionOrDefer(id, r.st, desired, r.task.dl)
              /\ UNCHANGED <<active, recovery, early, historyVars>>
           \/ /\ ~IsTerminal(r.st)
              /\ r.st = desired \/ ~CanTransition(r.st, desired)
              /\ active' = [active EXCEPT ![id] = [status |-> r.st, dl |-> r.task.dl]]
              /\ UNCHANGED <<recovery, early, dbq, deferred, dbAvail, historyVars>>
        /\ UNCHANGED <<info, row, workerVars, mqttVars, mqttAvail, threadVars,
                       environmentVars>>

(* A clean-up, or a result that is only logged: a failed statement, an     *)
(* illegal transition, a row that disappeared.                             *)
HandleLoggedResult ==
    /\ Ready /\ dbr # <<>>
    /\ Head(dbr).out = "failed" \/ (/\ Head(dbr).task.kind \in {"cleanup", "findById"}
                                    /\ Head(dbr).out = "none")
    /\ dbr' = Tail(dbr)
    /\ UNCHANGED <<info, row, dbq, workerVars, mqttVars, serviceVars, threadVars,
                   environmentVars, historyVars>>

HandleDatabaseResult ==
    \/ HandleFound \/ HandleNotFound
    \/ HandleInsertLost \/ HandleInserted
    \/ HandleTransitioned \/ HandleTransitionConflict \/ ConvergeAfterConflict
    \/ HandleLoggedResult

-------------------------------------------------------------------------------
(* The queues are drained: RetryDeferredTransitions submits one deferred   *)
(* transition, then the scan starts.                                       *)
RetryDeferredTransitions ==
    /\ Ready /\ dbr = <<>> /\ Completions = {}
    /\ pc' = "sweep"
    /\ LET waiting == {id \in Ids : deferred[id] # NothingDeferred}
       IN  \/ /\ ~dbAvail \/ waiting = {}
              /\ UNCHANGED <<dbq, deferred, dbAvail>>
           \/ /\ dbAvail
              /\ \E id \in waiting :
                   SubmitTransitionOrDefer(id, deferred[id].from, deferred[id].to,
                                           deferred[id].dl)
    /\ UNCHANGED <<info, row, dbr, workerVars, mqttVars, active, recovery, early,
                   mqttAvail, scan, environmentVars, historyVars>>

CleanupPending == \/ \E i \in 1 .. Len(dbq) : dbq[i].kind = "cleanup"
                  \/ \E i \in 1 .. Len(dbr) : dbr[i].task.kind = "cleanup"

(* ProcessTimeoutsAndRecovery: a clean-up when it is due, then the scan.   *)
StartScan ==
    /\ \/ pc = "report" /\ pc' = "commands"
       \/ pc = "sweep" /\ pc' = "devices"
    /\ scan' = Active
    /\ \/ UNCHANGED dbq
       \/ /\ "cleanup" \in Faults
          /\ dbAvail /\ ~CleanupPending /\ CanSubmit
          /\ dbq' = Append(dbq, CleanupTask)
    /\ UNCHANGED <<info, row, dbr, workerVars, mqttVars, serviceVars,
                   environmentVars, historyVars>>

(* A due command times out unless recovery_started_ holds it already. *)
ScanTimesOut(id) ==
    /\ Due(id)
    /\ id \notin recovery
    /\ recovery' = recovery \cup {id}
    /\ SubmitTransitionOrDefer(id, active[id].status, "timeout", active[id].dl)
    /\ UNCHANGED <<pubs, sent>>

(* A config command of a reachable target is published again. *)
MustRepublishAnyType(id) ==
    /\ ~Due(id)
    /\ mqttAvail
    /\ id \notin recovery
    /\ TargetOf(id) \in online

MustRepublish(id) ==
    /\ ~Due(id)
    /\ TypeOf(id) = "config"
    /\ mqttAvail
    /\ id \notin recovery
    /\ TargetOf(id) \in online

ScanRepublishes(id) ==
    /\ MustRepublish(id)
    /\ PublishRecord(id, active[id].status, active[id].dl)

ScanSkips(id) ==
    /\ ~(Due(id) /\ id \notin recovery)
    /\ ~MustRepublish(id)
    /\ UNCHANGED <<pubs, sent, recovery, dbq, deferred, dbAvail>>

Scan(id) ==
    /\ id \in scan
    /\ scan' = scan \ {id}
    /\ ScanTimesOut(id) \/ ScanRepublishes(id) \/ ScanSkips(id)
    /\ UNCHANGED <<info, row, dbr, workerVars, mqttUp, active, early, mqttAvail,
                   pc, environmentVars, historyVars>>

(* The device service published an online state of device d: its commands  *)
(* may be recovered again.  (The bound leaves a free token to each.)       *)
NoCommandsOf(d) == {}
CommandsOf(d) == {id \in Active : TargetOf(id) = d}

OnTargetOnline(d) ==
    /\ AtDevices
    /\ \A id \in CommandsOf(d) : RoomToPublish(id)
    /\ online' = online \cup {d}
    /\ recovery' = recovery \ CommandsOf(d)
    /\ pc' = "report"
    /\ UNCHANGED <<databaseVars, mqttVars, active, early, deferred, dbAvail,
                   mqttAvail, scan, passed, accepted, crashes, historyVars>>

(* The device service has nothing to report: the cycle hook is called. *)
CallCycleHook ==
    /\ AtDevices
    /\ pc' = "commands"
    /\ UNCHANGED <<databaseVars, mqttVars, serviceVars, scan, environmentVars,
                   historyVars>>

(* The device service expires a device that was silent for too long. *)
DeviceGoesOffline(d) ==
    /\ "offline" \in Faults
    /\ AtDevices
    /\ d \in online
    /\ online' = online \ {d}
    /\ UNCHANGED <<databaseVars, mqttVars, serviceVars, threadVars, passed,
                   accepted, crashes, historyVars>>

-------------------------------------------------------------------------------
(* Main thread, WaitForNextCheck: SetDatabaseAvailable, SetMqttAvailable.  *)
(* A new connection clears recovery_started_, whatever the business thread *)
(* is doing.                                                               *)
WaitForNextCheck ==
    /\ dbAvail' = IsDatabaseAvailable
    /\ mqttAvail' = mqttUp
    /\ IF mqttUp /\ ~mqttAvail
       THEN recovery' = {} /\ \A id \in Active : RoomToPublish(id)
       ELSE UNCHANGED recovery
    /\ UNCHANGED <<databaseVars, mqttVars, active, early, deferred, threadVars,
                   environmentVars, historyVars>>

(* The clock passes the deadline of an active command. *)
DeadlinePasses(id) ==
    /\ AtDevices
    /\ id \in Active
    /\ ~Due(id)
    /\ passed' = [passed EXCEPT ![id] = active[id].dl + 1]
    /\ UNCHANGED <<databaseVars, mqttVars, serviceVars, threadVars, online,
                   accepted, crashes, historyVars>>

-------------------------------------------------------------------------------
(* The process dies; the next start runs LoadCommandState (refused when    *)
(* more than max_inflight_commands rows are not terminal), converges the   *)
(* control commands to delivery_uncertain and loads the config commands.   *)
UnfinishedOrDone == {id \in Ids : Present(id)}
Unfinished == {id \in Ids : row[id] \in ActiveStatus}

LoadPendingOnly ==
    [id \in Ids |-> IF row[id] = "pending" /\ TypeOf(id) = "config"
                    THEN [status |-> row[id], dl |-> 0] ELSE Inactive]
LoadActive ==
    [id \in Ids |-> IF id \in Unfinished /\ TypeOf(id) = "config"
                    THEN [status |-> row[id], dl |-> 0] ELSE Inactive]

CrashAndRestart ==
    /\ "crash" \in Faults
    /\ crashes < MaxCrashes
    /\ crashes' = crashes + 1
    /\ Cardinality(Unfinished) <= MaxInflight
    /\ row' = [id \in Ids |-> IF id \in Unfinished /\ TypeOf(id) = "control"
                              THEN "delivery_uncertain" ELSE row[id]]
    /\ active' = LoadActive
    /\ dbq' = <<>> /\ dbr' = <<>>
    /\ dbUp' = TRUE /\ accepting' = TRUE /\ dropped' = {}
    /\ pubs' = [id \in Ids |-> [k \in Slots |-> FreeSlot]]
    /\ mqttUp' = FALSE
    /\ recovery' = {}
    /\ early' = [id \in Ids |-> "none"]
    /\ deferred' = [id \in Ids |-> NothingDeferred]
    /\ dbAvail' = TRUE /\ mqttAvail' = FALSE
    /\ pc' = "devices" /\ scan' = {}
    /\ UNCHANGED <<info, sent, passed, online, accepted, historyVars>>

-------------------------------------------------------------------------------
Init ==
    /\ DatabaseInit
    /\ PublicationsInit
    /\ active = [id \in Ids |-> Inactive]
    /\ recovery = {}
    /\ early = [id \in Ids |-> "none"]
    /\ deferred = [id \in Ids |-> NothingDeferred]
    /\ dbAvail = TRUE
    /\ mqttAvail = FALSE
    /\ pc = "devices"
    /\ scan = {}
    /\ passed = [id \in Ids |-> 0]
    /\ online = {}
    /\ accepted = 0
    /\ crashes = 0
    /\ told = [id \in Ids |-> "absent"]
    /\ verdicts = [id \in Ids |-> 0]

BusinessThread ==
    \/ \E req \in Requests : HandleSourceRequest(req)
    \/ \E id \in Ids, ack \in AckStatus : HandleDeviceAck(id, ack)
    \/ \E id \in Ids, k \in Slots : HandlePublishCompletion(id, k)
    \/ HandleDatabaseResult
    \/ RetryDeferredTransitions
    \/ StartScan
    \/ \E id \in Ids : Scan(id)
    \/ \E d \in Devices : OnTargetOnline(d) \/ DeviceGoesOffline(d)
    \/ CallCycleHook

OutsideDatabase == <<mqttVars, serviceVars, threadVars, environmentVars, historyVars>>
OutsideMqtt == <<databaseVars, serviceVars, threadVars, environmentVars, historyVars>>

DatabaseThread ==
    /\ \/ WorkerRunsCommand \/ WorkerCommandFails
       \/ WorkerLosesConnection \/ WorkerReconnects \/ WorkerGivesUp
    /\ UNCHANGED OutsideDatabase

MqttThread ==
    /\ \/ \E id \in Ids, k \in Slots : BrokerCompletes(id, k)
       \/ MqttDisconnects \/ MqttConnects
    /\ UNCHANGED OutsideMqtt

Next == \/ BusinessThread \/ DatabaseThread \/ MqttThread \/ WaitForNextCheck
        \/ \E id \in Ids : DeadlinePasses(id)
        \/ CrashAndRestart

Spec == Init /\ [][Next]_vars

-------------------------------------------------------------------------------
(* Fairness.  The loop of the business thread returns to every one of its  *)
(* steps, so what is enabled whenever the loop gets there is taken         *)
(* (strong fairness where the loop leaves the step in between).  The main  *)
(* thread polls every 100 ms.  The database executes a command and the     *)
(* broker completes a publication if they are given the chance again and   *)
(* again.  Connections come back: the database worker retries without      *)
(* limit as long as PostgreSQL is unavailable, and has WorkerGivesUp as    *)
(* the other end of an outage.  Clocks advance.                            *)
Fairness ==
    /\ WF_vars(CallCycleHook)
    /\ WF_vars(HandleDatabaseResult)
    /\ WF_vars(\E id \in Ids, k \in Slots : HandlePublishCompletion(id, k))
    /\ SF_vars(RetryDeferredTransitions)
    /\ WF_vars(StartScan)
    /\ WF_vars(\E id \in Ids : Scan(id))
    /\ WF_vars(WaitForNextCheck)
    /\ SF_vars(WorkerRunsCommand /\ UNCHANGED OutsideDatabase)
    /\ WF_vars(WorkerReconnects /\ UNCHANGED OutsideDatabase)
    /\ WF_vars(MqttConnects /\ UNCHANGED OutsideMqtt)
    /\ WF_vars(/\ \E id \in Ids, k \in Slots : BrokerCompletes(id, k)
               /\ UNCHANGED OutsideMqtt)
    /\ SF_vars(\E id \in Ids : DeadlinePasses(id))

FairSpec == Spec /\ Fairness

(* In addition the devices keep reporting while they are targets. *)
ReportingSpec == FairSpec /\ \A d \in Devices : SF_vars(OnTargetOnline(d))

-------------------------------------------------------------------------------
(* Properties. *)

(* The variables have their types; in particular no command whose result   *)
(* is known is held in active_commands_.                                   *)
TypeOK ==
    /\ info \in [Ids -> Requests \cup {NoRequest}]
    /\ row \in [Ids -> RowStatus]
    /\ dbq \in Seq(Task) /\ dbr \in Seq(Result)
    /\ dbUp \in BOOLEAN /\ accepting \in BOOLEAN /\ dbAvail \in BOOLEAN
    /\ dropped \subseteq Ids
    /\ mqttUp \in BOOLEAN /\ mqttAvail \in BOOLEAN
    /\ pubs \in [Ids -> [Slots -> Publication]]
    /\ sent \in [Ids -> 0 .. 2]
    /\ active \in [Ids -> [status : ActiveStatus \cup {"none"}, dl : Nat]]
    /\ recovery \subseteq Ids
    /\ early \in [Ids -> AckStatus \cup {"none"}]
    /\ deferred \in [Ids -> [from : CommandStatus \cup {"none"},
                             to : CommandStatus \cup {"none"}, dl : Nat]]
    /\ pc \in {"devices", "report", "commands", "sweep"}
    /\ scan \subseteq Ids
    /\ passed \in [Ids -> Nat]
    /\ online \subseteq Devices
    /\ accepted \in 0 .. MaxRequests
    /\ crashes \in 0 .. MaxCrashes
    /\ told \in [Ids -> RowStatus]
    /\ verdicts \in [Ids -> 0 .. 2]

OperationOn(id) == \/ \E i \in 1 .. Len(dbq) : dbq[i].id = id
                   \/ \E i \in 1 .. Len(dbr) : dbr[i].task.id = id

(* A source never hears of a status that was not stored: whatever it was   *)
(* told survives a crash of the service.                                   *)
ToldIsDurable == \A id \in Ids : Later(told[id], row[id])

(* A flight control command is handed to the MQTT client at most once, by  *)
(* whatever combination of retries, reconnections and restarts.            *)
ControlAtMostOnce == \A id \in Generated : TypeOf(id) = "control" => sent[id] <= 1

(* Repeated and concurrent requests under one (source_id, request_id) make *)
(* one command: at most one of them ever reaches a device, as long as its  *)
(* row is kept.                                                            *)
OnePublishPerKey ==
    \A i, j \in Generated :
       (i # j /\ info[i].key = info[j].key /\ sent[i] > 0 /\ sent[j] > 0)
         => row[i] = "gone" \/ row[j] = "gone"

(* Racing acks, timeouts and completions produce one result for the        *)
(* source; it is published again only when the request is repeated.        *)
OneVerdict == \A id \in Ids : verdicts[id] <= 1

(* The admission check of new requests keeps the number of unfinished rows *)
(* within max_inflight_commands, so the next start loads all of them.      *)
RestartNeverRefused == Cardinality(Unfinished) <= MaxInflight

(* No unfinished row is forgotten: it is in active_commands_, where its    *)
(* deadline is watched, or its insertion is still under way, or was in the *)
(* queue that a worker dropped when it gave up (postgres_worker.cpp:128).  *)
UnfinishedIsSupervised ==
    \A id \in Unfinished : id \in Active \/ OperationOn(id) \/ id \in dropped

(* A stored result reaches the source: when a running service is through   *)
(* with a command, its last ack was the result.  Only a command whose      *)
(* insertion was dropped by a worker that gave up may be stored and not    *)
(* answered.  (A restart converges control commands without an ack.)       *)
SettledIsTold ==
    \A id \in Ids : (/\ crashes = 0 /\ IsTerminal(row[id])
                     /\ id \notin Active /\ ~OperationOn(id)
                     /\ id \notin dropped)
                       => told[id] = row[id]

(* The router implements the life cycle it promises: rows follow the state *)
(* machine and acks follow the rows in order.                              *)
Lifecycle == INSTANCE CommandLifecycle
ImplementsLifecycle == Lifecycle!Spec

(* The result a source heard is the last thing it hears of the command,    *)
(* and the table agrees with it as long as the row exists: a late ack, a   *)
(* timeout or a restart never turns it into another one.                   *)
ResultHeardIsFinal ==
    [][\A id \in Ids : IsTerminal(told[id]) =>
         /\ told'[id] = told[id]
         /\ row'[id] \in {told[id], "gone"}]_vars

(* A device ack that came before the publish completion is applied once    *)
(* the command is dispatched.                                              *)
EarlyAckIsApplied ==
    \A id \in Active : early[id] # "none" => active[id].status = "pending"

(* A command whose deadline passed does not stay unfinished. *)
DueCommandsTimeOut ==
    \A id \in Ids : (id \in Active /\ Due(id)) ~> id \notin Active
===============================================================================
