------------------------- MODULE CommandServiceProofs -------------------------
(***************************************************************************)
(* Theorems about CommandService, for every value of its constants: what a *)
(* source hears is stored, the router implements CommandLifecycle, and a   *)
(* flight control command is published at most once.                       *)
(*                                                                         *)
(* For these theorems a step is one of six kinds, told apart by what it    *)
(* does to the table, the queues and the source (lemma StepKinds):         *)
(* most steps only submit work (Quiet); a result is handled (Handles); a   *)
(* new command is generated (Generates); the database executes a statement *)
(* (Executes); its worker gives up and drops the queue (GivesUp); the      *)
(* process restarts (Restarts).                                            *)
(***************************************************************************)
EXTENDS CommandServiceTypes

(* At most one task is appended, and it inserts no row. *)
QueueGrows == \/ dbq' = dbq
              \/ \E t \in Task : t.kind # "insert" /\ dbq' = Append(dbq, t)

Quiet == /\ UNCHANGED <<info, row, dbr, told>>
         /\ QueueGrows

Handles == /\ dbr # <<>> /\ dbr' = Tail(dbr)
           /\ UNCHANGED <<info, row>>
           /\ QueueGrows
           /\ \/ told' = told
              \/ /\ Head(dbr).out = "row"
                 /\ told' = [told EXCEPT ![Head(dbr).rid] = Head(dbr).st]

Generates ==
    /\ dbr # <<>> /\ dbr' = Tail(dbr)
    /\ UNCHANGED <<row, told>>
    /\ \E id \in Ids, req \in Requests, status \in {"pending", "failed"} :
         /\ info[id] = NoRequest
         /\ info' = [info EXCEPT ![id] = req]
         /\ dbq' = dbq \/ dbq' = Append(dbq, InsertTask(id, status))

Executes ==
    /\ UNCHANGED <<info, told>>
    /\ \/ UNCHANGED <<row, dbq, dbr>>
       \/ /\ dbq # <<>>
          /\ row' \in Table(Head(dbq))
          /\ \/ "db" \in Faults /\ UNCHANGED <<dbq, dbr>>
             \/ /\ dbq' = Tail(dbq)
                /\ dbr' = Append(dbr, Answer(Head(dbq)))
       \/ /\ "sql" \in Faults /\ dbq # <<>>
          /\ UNCHANGED row
          /\ dbq' = Tail(dbq)
          /\ dbr' = Append(dbr, Unanswered(Head(dbq), "failed"))

GivesUp == /\ dbq' = <<>>
           /\ UNCHANGED <<info, row, dbr, told>>

Restarts ==
    /\ dbq' = <<>> /\ dbr' = <<>>
    /\ UNCHANGED <<info, told>>
    /\ row' = [id \in Ids |-> IF id \in Unfinished /\ TypeOf(id) = "control"
                              THEN "delivery_uncertain" ELSE row[id]]

(* SubmitTransitionOrDefer and PublishRecord append at most a transition. *)
LEMMA SubmitGrows ==
  ASSUME TypeInv, NEW id \in Ids, NEW from \in Carried, NEW to \in Carried,
         NEW dl \in Nat, SubmitTransitionOrDefer(id, from, to, dl)
  PROVE  QueueGrows
<1>1. /\ TransitionTask(id, from, to, dl) \in Task
      /\ TransitionTask(id, from, to, dl).kind # "insert"
  BY TaskTypes DEF TransitionTask
<1> QED
  BY <1>1 DEF SubmitTransitionOrDefer, QueueGrows

(* PublishRecord appends at most the transition of a refused publication. *)
LEMMA PublishGrows ==
  ASSUME TypeInv, NEW id \in Ids, NEW status \in Carried, NEW dl \in Nat,
         PublishRecord(id, status, dl)
  PROVE  QueueGrows
<1>1. "failed" \in Carried
  BY DEF Carried, CommandStatus, TerminalStatus
<1> QED
  BY <1>1, SubmitGrows DEF PublishRecord, QueueGrows

(* An ack applied to a command appends at most a transition. *)
LEMMA ApplyGrows ==
  ASSUME TypeInv, NEW id \in Ids, NEW status \in Carried, NEW dl \in Nat,
         NEW ack \in AckStatus, ApplyDeviceAck(id, status, dl, ack)
  PROVE  QueueGrows
<1>1. DesiredAfter(ack) \in Carried
  BY DEF DesiredAfter, AckStatus, Carried, CommandStatus, ActiveStatus, TerminalStatus
<1>2. passed[id] \in Nat
  BY DEF TypeInv, TypeOK
<1>3. (IF ack = "in_progress" THEN Extended(id, dl) ELSE dl) \in Nat
  BY <1>2 DEF Extended
<1> QED
  BY <1>1, <1>3, SubmitGrows DEF ApplyDeviceAck

(* The statuses and deadlines the handlers read have their types. *)
LEMMA ReadTypes ==
  ASSUME TypeInv
  PROVE  /\ \A id \in Ids : /\ active[id].status \in Carried /\ active[id].dl \in Nat
                            /\ deferred[id].from \in Carried
                            /\ deferred[id].to \in Carried /\ deferred[id].dl \in Nat
                            /\ early[id] # "none" => early[id] \in AckStatus
                            /\ \A k \in Slots : /\ pubs[id][k].prev \in Carried
                                                /\ pubs[id][k].dl \in Nat
         /\ {"dispatched", "delivery_uncertain", "failed", "timeout"} \subseteq Carried
         /\ CommandStatus \subseteq Carried
  BY DEF TypeInv, TypeOK, Publication, Carried, CommandStatus, ActiveStatus,
     TerminalStatus

(* The head of the results has its type. *)
LEMMA HeadTypes ==
  ASSUME TypeInv, dbr # <<>>
  PROVE  LET r == Head(dbr)
         IN  /\ r \in Result /\ ResultOK(r)
             /\ r.task.dl \in Nat /\ r.task.to \in Carried
             /\ r.out = "row" => r.rid \in Ids /\ r.st \in Carried
             /\ r.task.kind \in {"insert", "transition", "findById"} => r.task.id \in Ids
<1>1. Head(dbr) \in Result /\ ResultOK(Head(dbr))
  BY TailElements DEF TypeInv, TypeOK, QueuesOK
<1> QED
  BY <1>1 DEF ResultOK, TaskOK, Result, Task, Carried

(* A database result is handled, or it makes the service generate a command. *)
LEMMA ResultKinds ==
  ASSUME TypeInv, HandleDatabaseResult
  PROVE  Handles \/ Generates
<1>1. CASE HandleFound \/ HandleInsertLost \/ HandleLoggedResult
  BY <1>1 DEF HandleFound, HandleInsertLost, HandleLoggedResult, NextResult, PublishAck,
     Handles, QueueGrows, historyVars
<1>2. CASE HandleNotFound
  <2>1. dbr # <<>> /\ dbr' = Tail(dbr) /\ Head(dbr).task.kind = "find"
    BY <1>2 DEF HandleNotFound, NextResult
  <2>2. Head(dbr).task.req \in Requests
    BY <2>1, HeadTypes DEF ResultOK, TaskOK
  <2>3. PICK id \in Ids :
          /\ info[id] = NoRequest
          /\ info' = [info EXCEPT ![id] = Head(dbr).task.req]
          /\ \/ dbq' = dbq
             \/ dbq' = Append(dbq, InsertTask(id, InitialStatus(Head(dbr).task.req)))
    <3>1. \A id \in Ids : id >= id
      BY DEF Ids
    <3> QED
      BY <1>2, <3>1 DEF HandleNotFound
  <2>4. InitialStatus(Head(dbr).task.req) \in {"pending", "failed"}
    BY DEF InitialStatus
  <2>5. UNCHANGED <<row, told>>
    BY <1>2 DEF HandleNotFound, historyVars
  <2> QED
    BY <2>1, <2>2, <2>3, <2>4, <2>5 DEF Generates
<1>3. CASE HandleInserted
  <2>1. dbr # <<>> /\ dbr' = Tail(dbr) /\ Head(dbr).out = "row"
        /\ Head(dbr).rid = Head(dbr).task.id /\ UNCHANGED <<info, row>>
    BY <1>3 DEF HandleInserted, NextResult
  <2>2. /\ Head(dbr).task.id \in Ids /\ Head(dbr).st \in Carried
        /\ Head(dbr).task.dl \in Nat
    BY <2>1, HeadTypes
  <2>3. QueueGrows
    BY <1>3, <2>2, PublishGrows DEF HandleInserted, QueueGrows
  <2>4. told' = told \/ told' = [told EXCEPT ![Head(dbr).task.id] = Head(dbr).st]
    BY <1>3 DEF HandleInserted, PublishAck, historyVars
  <2> QED
    BY <2>1, <2>3, <2>4 DEF Handles
<1>4. CASE HandleTransitioned
  <2>1. dbr # <<>> /\ dbr' = Tail(dbr) /\ Head(dbr).out = "row"
        /\ UNCHANGED <<info, row>>
        /\ told' = [told EXCEPT ![Head(dbr).rid] = Head(dbr).st]
    BY <1>4 DEF HandleTransitioned, NextResult, PublishAck
  <2>2. /\ Head(dbr).rid \in Ids /\ Head(dbr).st \in Carried
        /\ Head(dbr).task.dl \in Nat
    BY <2>1, HeadTypes
  <2>3. \/ dbq' = dbq
        \/ /\ early[Head(dbr).rid] # "none"
           /\ ApplyDeviceAck(Head(dbr).rid, Head(dbr).st, Head(dbr).task.dl,
                             early[Head(dbr).rid])
    BY <1>4 DEF HandleTransitioned, EarlyAckWaits
  <2>4. QueueGrows
    BY <2>2, <2>3, ReadTypes, ApplyGrows DEF QueueGrows
  <2> QED
    BY <2>1, <2>4 DEF Handles
<1>5. CASE HandleTransitionConflict
  <2>1. dbr # <<>> /\ dbr' = Tail(dbr) /\ Head(dbr).task.kind = "transition"
        /\ UNCHANGED <<info, row, told>>
    BY <1>5 DEF HandleTransitionConflict, NextResult, historyVars
  <2> DEFINE f == FindByIdTask(Head(dbr).task.id, Head(dbr).task.to, Head(dbr).task.dl)
  <2>2. f \in Task /\ f.kind # "insert"
    BY <2>1, HeadTypes, TaskTypes DEF FindByIdTask
  <2>3. dbq' = dbq \/ dbq' = Append(dbq, f)
    BY <1>5 DEF HandleTransitionConflict
  <2> HIDE DEF f
  <2> QED
    BY <2>1, <2>2, <2>3 DEF Handles, QueueGrows
<1>6. CASE ConvergeAfterConflict
  <2>1. dbr # <<>> /\ dbr' = Tail(dbr) /\ Head(dbr).out = "row"
        /\ UNCHANGED <<info, row>>
    BY <1>6 DEF ConvergeAfterConflict, NextResult
  <2>2. told' = told \/ told' = [told EXCEPT ![Head(dbr).rid] = Head(dbr).st]
    BY <1>6 DEF ConvergeAfterConflict, PublishAck, historyVars
  <2>3. \/ dbq' = dbq
        \/ SubmitTransitionOrDefer(Head(dbr).rid, Head(dbr).st, Head(dbr).task.to,
                                   Head(dbr).task.dl)
    BY <1>6 DEF ConvergeAfterConflict
  <2>4. QueueGrows
    BY <2>1, <2>3, HeadTypes, SubmitGrows DEF QueueGrows
  <2> QED
    BY <2>1, <2>2, <2>4 DEF Handles
<1> QED
  BY <1>1, <1>2, <1>3, <1>4, <1>5, <1>6 DEF HandleDatabaseResult

(* Every step is of one of the six kinds. *)
LEMMA StepKinds ==
  ASSUME TypeInv, [Next]_vars
  PROVE  \/ Quiet \/ Handles \/ Generates \/ Executes
         \/ GivesUp /\ WorkerGivesUp
         \/ Restarts /\ CrashAndRestart
<1>1. CASE HandleDatabaseResult
  BY <1>1, ResultKinds
<1>2. ASSUME NEW req \in Requests, HandleSourceRequest(req)
      PROVE  Quiet
  <2>1. FindTask(req) \in Task /\ FindTask(req).kind # "insert"
    BY TaskTypes DEF FindTask
  <2> QED
    BY <1>2, <2>1 DEF HandleSourceRequest, Quiet, QueueGrows, historyVars
<1>3. ASSUME NEW id \in Ids, NEW ack \in AckStatus, HandleDeviceAck(id, ack)
      PROVE  Quiet
  <2>1. \/ dbq' = dbq
        \/ ApplyDeviceAck(id, active[id].status, active[id].dl, ack)
    BY <1>3 DEF HandleDeviceAck
  <2>2. QueueGrows
    BY <2>1, ReadTypes, ApplyGrows DEF QueueGrows
  <2> QED
    BY <1>3, <2>2 DEF HandleDeviceAck, Quiet, historyVars
<1>4. ASSUME NEW id \in Ids, NEW k \in Slots, HandlePublishCompletion(id, k)
      PROVE  Quiet
  <2>1. \/ dbq' = dbq
        \/ \E to \in {"dispatched", "delivery_uncertain", "failed"} :
             SubmitTransitionOrDefer(id, pubs[id][k].prev, to, pubs[id][k].dl)
    BY <1>4 DEF HandlePublishCompletion
  <2>2. QueueGrows
    BY <2>1, ReadTypes, SubmitGrows DEF QueueGrows
  <2> QED
    BY <1>4, <2>2 DEF HandlePublishCompletion, Quiet, historyVars
<1>5. CASE RetryDeferredTransitions
  <2>1. \/ dbq' = dbq
        \/ \E id \in Ids : SubmitTransitionOrDefer(id, deferred[id].from,
                                                   deferred[id].to, deferred[id].dl)
    BY <1>5 DEF RetryDeferredTransitions
  <2>2. QueueGrows
    BY <2>1, ReadTypes, SubmitGrows DEF QueueGrows
  <2> QED
    BY <1>5, <2>2 DEF RetryDeferredTransitions, Quiet, historyVars
<1>6. CASE StartScan
  <2>1. CleanupTask \in Task /\ CleanupTask.kind # "insert"
    BY TaskTypes DEF CleanupTask
  <2> QED
    BY <1>6, <2>1 DEF StartScan, Quiet, QueueGrows, historyVars
<1>7. ASSUME NEW id \in Ids, Scan(id)
      PROVE  Quiet
  <2>1. \/ dbq' = dbq
        \/ SubmitTransitionOrDefer(id, active[id].status, "timeout", active[id].dl)
        \/ PublishRecord(id, active[id].status, active[id].dl)
    BY <1>7 DEF Scan, ScanTimesOut, ScanRepublishes, ScanSkips
  <2>2. QueueGrows
    BY <2>1, ReadTypes, SubmitGrows, PublishGrows DEF QueueGrows
  <2> QED
    BY <1>7, <2>2 DEF Scan, Quiet, historyVars
<1>8. CASE CallCycleHook \/ \E d \in Devices : OnTargetOnline(d) \/ DeviceGoesOffline(d)
  BY <1>8 DEF CallCycleHook, OnTargetOnline, DeviceGoesOffline, Quiet, QueueGrows,
     databaseVars, historyVars
<1>9. CASE DatabaseThread
  BY <1>9 DEF DatabaseThread, WorkerRunsCommand, WorkerCommandFails,
     WorkerLosesConnection, WorkerReconnects, WorkerGivesUp, Executes, GivesUp,
     OutsideDatabase, historyVars
<1>10. CASE MqttThread \/ WaitForNextCheck \/ (\E id \in Ids : DeadlinePasses(id))
            \/ UNCHANGED vars
  BY <1>10 DEF MqttThread, WaitForNextCheck, DeadlinePasses, OutsideMqtt, vars, Quiet,
     QueueGrows, databaseVars, historyVars
<1>11. CASE CrashAndRestart
  BY <1>11 DEF CrashAndRestart, Restarts, historyVars
<1> QED
  BY <1>1, <1>2, <1>3, <1>4, <1>5, <1>6, <1>7, <1>8, <1>9, <1>10, <1>11
     DEF Next, BusinessThread

-------------------------------------------------------------------------------
(* What a source hears is stored.  The results on their way to the service *)
(* are snapshots of rows in the order they were taken: every snapshot is   *)
(* older than the row, later than what the source heard, and older than    *)
(* the next one.  An insertion that runs twice because the connection      *)
(* broke after the commit must find its own row or none, so the clean-up   *)
(* may not take a row while its insertion is queued.                       *)
FreshIsAbsent == \A id \in Ids : info[id] = NoRequest => row[id] = "absent"

InsertHasRequest ==
    \A i \in 1 .. Len(dbq) : dbq[i].kind = "insert" =>
       info[dbq[i].id] # NoRequest /\ row[dbq[i].id] # "gone"

SnapshotIsBetween ==
    \A i \in 1 .. Len(dbr) : dbr[i].out = "row" =>
       /\ Later(told[dbr[i].rid], dbr[i].st)
       /\ Later(dbr[i].st, row[dbr[i].rid])

SnapshotsInOrder ==
    \A i, j \in 1 .. Len(dbr) :
       (i < j /\ dbr[i].out = "row" /\ dbr[j].out = "row" /\ dbr[i].rid = dbr[j].rid)
         => Later(dbr[i].st, dbr[j].st)

OrderInv ==
    /\ FreshIsAbsent
    /\ InsertHasRequest
    /\ SnapshotIsBetween
    /\ SnapshotsInOrder
    /\ ToldIsDurable

(* The table a task leaves is a step of the abstract life cycle: nothing,  *)
(* one row stored, one row moved, or some finished rows cleaned up.        *)
LEMMA TableSteps ==
  ASSUME TypeInv, OrderInv, dbq # <<>>, NEW table \in Table(Head(dbq))
  PROVE  \/ table = row
         \/ \E id \in Ids, st \in {"pending", "failed"} :
              /\ row[id] = "absent" /\ info[id] # NoRequest
              /\ table = [row EXCEPT ![id] = st]
         \/ \E id \in Ids, st \in CommandStatus :
              /\ CanTransition(row[id], st)
              /\ table = [row EXCEPT ![id] = st]
         \/ \E S \in SUBSET Expendable :
              table = [id \in Ids |-> IF id \in S THEN "gone" ELSE row[id]]
<1> DEFINE t == Head(dbq)
<1>1. /\ t \in Task /\ TaskOK(t)
      /\ t.kind = "insert" => info[t.id] # NoRequest /\ row[t.id] # "gone"
  BY TailElements DEF TypeInv, TypeOK, QueuesOK, OrderInv, InsertHasRequest
<1>2. row \in [Ids -> RowStatus]
  BY DEF TypeInv, TypeOK
<1> HIDE DEF t
<1>3. CASE t.kind = "insert"
  <2>1. /\ t.id \in Ids /\ t.to \in {"pending", "failed"}
        /\ info[t.id] # NoRequest /\ row[t.id] # "gone"
    BY <1>1, <1>3 DEF TaskOK
  <2>2. table = row \/ (KeyOfInsert(t) = {} /\ table = [row EXCEPT ![t.id] = t.to])
    BY <1>3, TableCases DEF t
  <2>3. KeyOfInsert(t) = {} => row[t.id] = "absent"
    BY <1>2, <2>1 DEF KeyOfInsert, WithKey, Generated, Present, RowStatus
  <2> QED
    BY <2>1, <2>2, <2>3
<1>4. CASE t.kind = "transition"
  <2>1. t.id \in Ids
    BY <1>1, <1>4 DEF TaskOK
  <2>2. \/ table = row
        \/ /\ CanTransition(t.from, t.to) /\ row[t.id] = t.from
           /\ table = [row EXCEPT ![t.id] = t.to]
    BY <1>4, TableCases DEF t
  <2> QED
    BY <2>1, <2>2, TransitionIsLater
<1>5. CASE t.kind = "cleanup"
  BY <1>5, TableCases DEF t
<1>6. CASE t.kind \in {"find", "findById"}
  BY <1>6, TableCases DEF t
<1> QED
  BY <1>1, <1>3, <1>4, <1>5, <1>6 DEF Task

(* An execution makes rows later, and stores no row of a fresh id and      *)
(* cleans up none with an operation outstanding.                           *)
LEMMA TableIsLater ==
  ASSUME TypeInv, OrderInv, dbq # <<>>, NEW table \in Table(Head(dbq)), NEW id \in Ids
  PROVE  /\ Later(row[id], table[id])
         /\ table[id] \in RowStatus
         /\ info[id] = NoRequest => table[id] = row[id]
         /\ table[id] = "gone" /\ row[id] # "gone" => \A i \in 1 .. Len(dbq) : dbq[i].id # id
<1>1. row \in [Ids -> RowStatus] /\ (info[id] = NoRequest => row[id] = "absent")
  BY DEF TypeInv, TypeOK, OrderInv, FreshIsAbsent
<1>2. CASE table = row
  BY <1>1, <1>2, LaterBounds
<1>3. ASSUME NEW i \in Ids, NEW st \in {"pending", "failed"},
             row[i] = "absent", info[i] # NoRequest, table = [row EXCEPT ![i] = st]
      PROVE  /\ Later(row[id], table[id]) /\ table[id] \in RowStatus
             /\ info[id] = NoRequest => table[id] = row[id]
             /\ table[id] = "gone" => row[id] = "gone"
  BY <1>1, <1>3, LaterBounds DEF Later, RowStatus, CommandStatus, ActiveStatus,
     TerminalStatus
<1>4. ASSUME NEW i \in Ids, NEW st \in CommandStatus,
             CanTransition(row[i], st), table = [row EXCEPT ![i] = st]
      PROVE  /\ Later(row[id], table[id]) /\ table[id] \in RowStatus
             /\ info[id] = NoRequest => table[id] = row[id]
             /\ table[id] = "gone" => row[id] = "gone"
  <2>1. Later(row[i], st) /\ row[i] # "absent"
    BY <1>4, TransitionIsLater DEF ActiveStatus
  <2>2. st \in RowStatus /\ st # "gone"
    BY DEF RowStatus, CommandStatus, ActiveStatus, TerminalStatus
  <2> QED
    BY <1>1, <1>4, <2>1, <2>2, LaterBounds
<1>5. ASSUME NEW S \in SUBSET Expendable,
             table = [i \in Ids |-> IF i \in S THEN "gone" ELSE row[i]]
      PROVE  /\ Later(row[id], table[id]) /\ table[id] \in RowStatus
             /\ info[id] = NoRequest => table[id] = row[id]
             /\ table[id] = "gone" /\ row[id] # "gone" =>
                  \A i \in 1 .. Len(dbq) : dbq[i].id # id
  <2>1. id \in S => /\ IsTerminal(row[id])
                    /\ \A i \in 1 .. Len(dbq) : dbq[i].id # id
    BY DEF Expendable
  <2>2. id \in S => row[id] # "absent"
    BY <2>1 DEF IsTerminal, TerminalStatus
  <2>3. "gone" \in RowStatus
    BY DEF RowStatus
  <2> QED
    BY <1>1, <1>5, <2>1, <2>2, <2>3, LaterBounds
<1> QED
  BY <1>2, <1>3, <1>4, <1>5, TableSteps

(* A row that is answered has the status it has after the statement. *)
LEMMA AnswerIsCurrent ==
  ASSUME TypeInv, NEW t \in Task, TaskOK(t), NEW table \in Table(t),
         Answer(t).out = "row"
  PROVE  Answer(t).st = table[Answer(t).rid]
<1>1. row \in [Ids -> RowStatus]
  BY DEF TypeInv, TypeOK
<1>2. \A out : Unanswered(t, out).out = out
  BY DEF Unanswered
<1>3. \A id, st : Answered(t, id, st).rid = id /\ Answered(t, id, st).st = st
  BY DEF Answered
<1>4. CASE t.kind = "find"
  <2> DEFINE i == CHOOSE j \in WithKey(t.req.key) : TRUE
  <2>1. \/ Answer(t) = Unanswered(t, "none")
        \/ Answer(t) = Answered(t, i, row[i])
    BY <1>4, AnswerCases
  <2> HIDE DEF i
  <2>2. table = row
    BY <1>4, TableCases
  <2> QED
    BY <1>2, <1>3, <2>1, <2>2
<1>5. CASE t.kind = "insert"
  <2> DEFINE W == KeyOfInsert(t)
             i == CHOOSE j \in W : TRUE
  <2>1. Answer(t) = IF W = {} THEN Answered(t, t.id, t.to) ELSE Answered(t, i, row[i])
    BY <1>5, AnswerCases
  <2>2. table = IF W = {} THEN [row EXCEPT ![t.id] = t.to] ELSE row
    BY <1>5, TableCases
  <2>3. t.id \in Ids
    BY <1>5 DEF TaskOK
  <2> HIDE DEF W, i
  <2> QED
    BY <1>1, <1>3, <2>1, <2>2, <2>3
<1>6. CASE t.kind = "transition"
  <2>1. t.id \in Ids
    BY <1>6 DEF TaskOK
  <2>2. CASE CanTransition(t.from, t.to) /\ row[t.id] = t.from
    <3>1. Answer(t) = Answered(t, t.id, t.to)
      BY <1>6, <2>2, AnswerCases
    <3>2. table = [row EXCEPT ![t.id] = t.to]
      BY <1>6, <2>2, TableCases
    <3> QED
      BY <1>1, <1>3, <2>1, <3>1, <3>2
  <2>3. CASE ~(CanTransition(t.from, t.to) /\ row[t.id] = t.from)
    <3>1. Answer(t) = Unanswered(t, "failed") \/ Answer(t) = Unanswered(t, "conflict")
      BY <1>6, <2>3, AnswerCases
    <3> QED
      BY <1>2, <3>1
  <2> QED
    BY <2>2, <2>3
<1>7. CASE t.kind = "findById"
  <2>1. Answer(t) = Unanswered(t, "none") \/ Answer(t) = Answered(t, t.id, row[t.id])
    BY <1>7, AnswerCases
  <2>2. table = row
    BY <1>7, TableCases
  <2> QED
    BY <1>2, <1>3, <2>1, <2>2
<1>8. CASE t.kind = "cleanup"
  BY <1>2, <1>8, AnswerCases
<1> QED
  BY <1>4, <1>5, <1>6, <1>7, <1>8 DEF Task

(* Submitting work leaves the order of the results alone. *)
LEMMA OrderQuiet ==
  ASSUME TypeInv, OrderInv, UNCHANGED <<info, row>>, QueueGrows
  PROVE  InsertHasRequest'
<1>1. dbq \in Seq(Task)
  BY DEF TypeInv, TypeOK
<1>2. CASE dbq' = dbq
  BY <1>2 DEF OrderInv, InsertHasRequest
<1>3. ASSUME NEW t \in Task, t.kind # "insert", dbq' = Append(dbq, t)
      PROVE  InsertHasRequest'
  <2> SUFFICES ASSUME NEW i \in 1 .. Len(dbq'), dbq'[i].kind = "insert"
               PROVE  info[dbq'[i].id] # NoRequest /\ row[dbq'[i].id] # "gone"
    BY DEF InsertHasRequest
  <2>1. i \in 1 .. Len(dbq) \/ i = Len(dbq) + 1
    BY <1>1, <1>3, AppendElements
  <2>2. i \in 1 .. Len(dbq) /\ dbq'[i] = dbq[i]
    BY <1>1, <1>3, <2>1, AppendElements
  <2> QED
    BY <2>2 DEF OrderInv, InsertHasRequest
<1> QED
  BY <1>2, <1>3 DEF QueueGrows

(* Taking the first result keeps the others between what was heard and     *)
(* what is stored, whether the source hears of that result or not.         *)
LEMMA OrderTail ==
  ASSUME TypeInv, OrderInv, dbr # <<>>, dbr' = Tail(dbr), UNCHANGED row,
         \/ told' = told
         \/ /\ Head(dbr).out = "row"
            /\ told' = [told EXCEPT ![Head(dbr).rid] = Head(dbr).st]
  PROVE  SnapshotIsBetween' /\ SnapshotsInOrder' /\ ToldIsDurable'
<1> DEFINE h == Head(dbr)
<1>1. /\ dbr \in Seq(Result) /\ told \in [Ids -> RowStatus]
  BY DEF TypeInv, TypeOK
<1>2. /\ Len(dbr) \in Nat /\ Len(dbr') = Len(dbr) - 1 /\ 1 \in 1 .. Len(dbr)
      /\ h = dbr[1]
      /\ \A i \in 1 .. Len(dbr') : dbr'[i] = dbr[i + 1] /\ i + 1 \in 1 .. Len(dbr)
  BY <1>1, TailElements
<1>3. h.out = "row" => /\ Later(told[h.rid], h.st) /\ Later(h.st, row[h.rid])
                       /\ h.rid \in Ids
  BY <1>2, HeadTypes DEF OrderInv, SnapshotIsBetween
<1>4. \/ told' = told
      \/ h.out = "row" /\ told' = [told EXCEPT ![h.rid] = h.st]
  OBVIOUS
<1> HIDE DEF h
<1>5. ToldIsDurable'
  <2> SUFFICES ASSUME NEW id \in Ids PROVE Later(told'[id], row[id])
    BY DEF ToldIsDurable
  <2>1. Later(told[id], row[id])
    BY DEF OrderInv, ToldIsDurable
  <2> QED
    BY <1>1, <1>3, <1>4, <2>1
<1>6. SnapshotIsBetween'
  <2> SUFFICES ASSUME NEW i \in 1 .. Len(dbr'), dbr'[i].out = "row"
               PROVE  /\ Later(told'[dbr'[i].rid], dbr'[i].st)
                      /\ Later(dbr'[i].st, row[dbr'[i].rid])
    BY DEF SnapshotIsBetween
  <2> DEFINE r == dbr[i + 1]
  <2>1. dbr'[i] = r /\ i + 1 \in 1 .. Len(dbr) /\ 1 < i + 1
    BY <1>2
  <2>2. /\ r.out = "row"
        /\ Later(told[r.rid], r.st) /\ Later(r.st, row[r.rid])
        /\ h.out = "row" /\ h.rid = r.rid => Later(h.st, r.st)
    BY <1>2, <2>1 DEF OrderInv, SnapshotIsBetween, SnapshotsInOrder
  <2>3. r.rid \in Ids
    BY <2>1, <2>2 DEF TypeInv, QueuesOK, ResultOK
  <2> HIDE DEF r
  <2> QED
    BY <1>1, <1>3, <1>4, <2>1, <2>2, <2>3
<1>7. SnapshotsInOrder'
  <2> SUFFICES ASSUME NEW i \in 1 .. Len(dbr'), NEW j \in 1 .. Len(dbr'), i < j,
                      dbr'[i].out = "row", dbr'[j].out = "row", dbr'[i].rid = dbr'[j].rid
               PROVE  Later(dbr'[i].st, dbr'[j].st)
    BY DEF SnapshotsInOrder
  <2>1. /\ dbr'[i] = dbr[i + 1] /\ dbr'[j] = dbr[j + 1]
        /\ i + 1 \in 1 .. Len(dbr) /\ j + 1 \in 1 .. Len(dbr) /\ i + 1 < j + 1
    BY <1>2
  <2> QED
    BY <2>1 DEF OrderInv, SnapshotsInOrder
<1> QED
  BY <1>5, <1>6, <1>7

(* When rows only become later, the results on their way and what sources  *)
(* heard stay in order.                                                    *)
LEMMA OrderLaterRows ==
  ASSUME TypeInv, OrderInv, UNCHANGED told, row' \in [Ids -> RowStatus],
         \A id \in Ids : Later(row[id], row'[id])
  PROVE  /\ ToldIsDurable'
         /\ \A i \in 1 .. Len(dbr) : dbr[i].out = "row" =>
              /\ dbr[i].rid \in Ids /\ dbr[i].st \in RowStatus
              /\ Later(told[dbr[i].rid], dbr[i].st)
              /\ Later(dbr[i].st, row'[dbr[i].rid])
<1>1. row \in [Ids -> RowStatus] /\ told \in [Ids -> RowStatus]
  BY DEF TypeInv, TypeOK
<1>2. ToldIsDurable'
  <2> SUFFICES ASSUME NEW id \in Ids PROVE Later(told[id], row'[id])
    BY DEF ToldIsDurable
  <2>1. Later(told[id], row[id])
    BY DEF OrderInv, ToldIsDurable
  <2> QED
    BY <1>1, <2>1, LaterTransitive
<1>3. ASSUME NEW i \in 1 .. Len(dbr), dbr[i].out = "row"
      PROVE  /\ dbr[i].rid \in Ids /\ dbr[i].st \in RowStatus
             /\ Later(told[dbr[i].rid], dbr[i].st)
             /\ Later(dbr[i].st, row'[dbr[i].rid])
  <2>1. dbr[i].rid \in Ids /\ dbr[i].st \in RowStatus
    BY <1>3 DEF TypeInv, QueuesOK, ResultOK, RowStatus
  <2>2. Later(told[dbr[i].rid], dbr[i].st) /\ Later(dbr[i].st, row[dbr[i].rid])
    BY <1>3 DEF OrderInv, SnapshotIsBetween
  <2> QED
    BY <1>1, <2>1, <2>2, LaterTransitive
<1> QED
  BY <1>2, <1>3

(* A new answer is a snapshot of the row as it is now, so it comes after   *)
(* all the others.                                                         *)
LEMMA OrderAppend ==
  ASSUME TypeInv, OrderInv, UNCHANGED told, row' \in [Ids -> RowStatus],
         \A id \in Ids : Later(row[id], row'[id]),
         NEW r \in Result, dbr' = Append(dbr, r),
         r.out = "row" => r.rid \in Ids /\ r.st = row'[r.rid]
  PROVE  SnapshotIsBetween' /\ SnapshotsInOrder'
<1>1. dbr \in Seq(Result) /\ told \in [Ids -> RowStatus]
  BY DEF TypeInv, TypeOK
<1>2. /\ Len(dbr) \in Nat /\ Len(dbr') = Len(dbr) + 1
      /\ \A i \in 1 .. Len(dbr) : dbr'[i] = dbr[i]
      /\ dbr'[Len(dbr) + 1] = r
  BY <1>1, AppendElements
<1>3. /\ \A id \in Ids : Later(told[id], row'[id])
      /\ \A i \in 1 .. Len(dbr) : dbr[i].out = "row" =>
           /\ dbr[i].rid \in Ids /\ dbr[i].st \in RowStatus
           /\ Later(told[dbr[i].rid], dbr[i].st)
           /\ Later(dbr[i].st, row'[dbr[i].rid])
  BY OrderLaterRows DEF ToldIsDurable
<1>4. SnapshotIsBetween'
  <2> SUFFICES ASSUME NEW i \in 1 .. Len(dbr'), dbr'[i].out = "row"
               PROVE  /\ Later(told[dbr'[i].rid], dbr'[i].st)
                      /\ Later(dbr'[i].st, row'[dbr'[i].rid])
    BY DEF SnapshotIsBetween
  <2>1. CASE i \in 1 .. Len(dbr)
    BY <1>2, <1>3, <2>1
  <2>2. CASE i = Len(dbr) + 1
    BY <1>2, <1>3, <2>2, LaterBounds
  <2> QED
    BY <1>2, <2>1, <2>2
<1>5. SnapshotsInOrder'
  <2> SUFFICES ASSUME NEW i \in 1 .. Len(dbr'), NEW j \in 1 .. Len(dbr'), i < j,
                      dbr'[i].out = "row", dbr'[j].out = "row", dbr'[i].rid = dbr'[j].rid
               PROVE  Later(dbr'[i].st, dbr'[j].st)
    BY DEF SnapshotsInOrder
  <2>1. i \in 1 .. Len(dbr) /\ dbr'[i] = dbr[i]
    BY <1>2
  <2>2. CASE j \in 1 .. Len(dbr)
    BY <1>2, <2>1, <2>2 DEF OrderInv, SnapshotsInOrder
  <2>3. CASE j = Len(dbr) + 1
    BY <1>2, <1>3, <2>1, <2>3
  <2> QED
    BY <1>2, <2>2, <2>3
<1> QED
  BY <1>4, <1>5

(* Initially there is nothing to be in order. *)
LEMMA OrderInit == Init => OrderInv
<1> SUFFICES ASSUME Init PROVE OrderInv
  OBVIOUS
<1>1. dbq = <<>> /\ dbr = <<>>
  BY DEF Init, DatabaseInit
<1>2. \A id \in Ids : row[id] = "absent" /\ told[id] = "absent"
  BY DEF Init, DatabaseInit
<1> QED
  BY <1>1, <1>2 DEF OrderInv, FreshIsAbsent, InsertHasRequest, SnapshotIsBetween,
     SnapshotsInOrder, ToldIsDurable, Later

(* A new command brings a row for an id that had none. *)
LEMMA OrderGenerates ==
  ASSUME TypeInv, OrderInv, Generates
  PROVE  OrderInv'
<1>1. PICK id \in Ids, req \in Requests, status \in {"pending", "failed"} :
        /\ info[id] = NoRequest
        /\ info' = [info EXCEPT ![id] = req]
        /\ dbq' = dbq \/ dbq' = Append(dbq, InsertTask(id, status))
  BY DEF Generates
<1>2. /\ info \in [Ids -> Requests \cup {NoRequest}] /\ dbq \in Seq(Task)
      /\ row[id] = "absent" /\ req # NoRequest
  BY <1>1, DatabaseAssumption DEF TypeInv, TypeOK, OrderInv, FreshIsAbsent
<1>3. UNCHANGED <<row, told>> /\ dbr # <<>> /\ dbr' = Tail(dbr)
  BY DEF Generates
<1>4. SnapshotIsBetween' /\ SnapshotsInOrder' /\ ToldIsDurable'
  BY <1>3, OrderTail
<1>5. FreshIsAbsent'
  BY <1>1, <1>2, <1>3 DEF OrderInv, FreshIsAbsent
<1>6. \A j \in Ids : info[j] # NoRequest => info'[j] # NoRequest
  BY <1>1, <1>2
<1>7. InsertHasRequest'
  <2> DEFINE t == InsertTask(id, status)
  <2>1. t \in Task /\ t.id = id
    BY TaskTypes DEF InsertTask
  <2> SUFFICES ASSUME NEW i \in 1 .. Len(dbq'), dbq'[i].kind = "insert"
               PROVE  info'[dbq'[i].id] # NoRequest /\ row[dbq'[i].id] # "gone"
    BY <1>3 DEF InsertHasRequest
  <2>2. dbq' = dbq \/ dbq' = Append(dbq, t)
    BY <1>1
  <2> HIDE DEF t
  <2>3. (i \in 1 .. Len(dbq) /\ dbq'[i] = dbq[i]) \/ dbq'[i] = t
    BY <1>2, <2>1, <2>2, AppendElements
  <2>4. CASE i \in 1 .. Len(dbq) /\ dbq'[i] = dbq[i]
    <3>1. dbq[i].id \in Ids
      BY <2>4 DEF TypeInv, QueuesOK, TaskOK
    <3> QED
      BY <1>6, <2>4, <3>1 DEF OrderInv, InsertHasRequest
  <2>5. CASE dbq'[i] = t
    BY <1>1, <1>2, <2>1, <2>5
  <2> QED
    BY <2>3, <2>4, <2>5
<1> QED
  BY <1>4, <1>5, <1>7 DEF OrderInv

(* The database executes the first task, fails it, or loses it to a broken *)
(* connection with its effect or without.                                  *)
LEMMA OrderExecutes ==
  ASSUME TypeInv, OrderInv, Executes
  PROVE  OrderInv'
<1>1. /\ dbq \in Seq(Task) /\ dbr \in Seq(Result) /\ row \in [Ids -> RowStatus]
      /\ UNCHANGED <<info, told>>
  BY DEF TypeInv, TypeOK, Executes
<1>2. dbq # <<>> => Head(dbq) \in Task /\ TaskOK(Head(dbq))
  BY <1>1, TailElements DEF TypeInv, QueuesOK
<1>3. row' = row \/ (dbq # <<>> /\ row' \in Table(Head(dbq)))
  BY DEF Executes
<1>4. \A id \in Ids :
        /\ Later(row[id], row'[id]) /\ row'[id] \in RowStatus
        /\ info[id] = NoRequest => row'[id] = row[id]
        /\ row'[id] = "gone" /\ row[id] # "gone" => \A i \in 1 .. Len(dbq) : dbq[i].id # id
  BY <1>1, <1>3, LaterBounds, TableIsLater
<1>5. row' \in [Ids -> RowStatus]
  BY <1>1, <1>2, <1>3, TableTypes
<1>6. FreshIsAbsent'
  BY <1>1, <1>4 DEF OrderInv, FreshIsAbsent
<1>7. InsertHasRequest'
  <2> SUFFICES ASSUME NEW i \in 1 .. Len(dbq'), dbq'[i].kind = "insert"
               PROVE  info[dbq'[i].id] # NoRequest /\ row'[dbq'[i].id] # "gone"
    BY <1>1 DEF InsertHasRequest
  <2>1. dbq' = dbq \/ (dbq # <<>> /\ dbq' = Tail(dbq))
    BY DEF Executes
  <2>2. PICK j \in 1 .. Len(dbq) : dbq'[i] = dbq[j]
    BY <1>1, <2>1, TailElements
  <2>3. /\ dbq[j].id \in Ids
        /\ info[dbq[j].id] # NoRequest /\ row[dbq[j].id] # "gone"
    BY <2>2 DEF TypeInv, QueuesOK, TaskOK, OrderInv, InsertHasRequest
  <2> QED
    BY <1>4, <2>2, <2>3
<1>8. ToldIsDurable'
  BY <1>1, <1>4, <1>5, OrderLaterRows
<1>9. SnapshotIsBetween' /\ SnapshotsInOrder'
  <2>1. CASE dbr' = dbr
    <3>1. SnapshotIsBetween'
      BY <1>1, <1>4, <1>5, <2>1, OrderLaterRows DEF SnapshotIsBetween
    <3> QED
      BY <2>1, <3>1 DEF OrderInv, SnapshotsInOrder
  <2>2. CASE /\ dbq # <<>> /\ row' \in Table(Head(dbq))
             /\ dbr' = Append(dbr, Answer(Head(dbq)))
    <3> DEFINE r == Answer(Head(dbq))
    <3>1. r \in Result /\ (r.out = "row" => r.rid \in Ids)
      BY <1>2, <2>2, AnswerTypes DEF ResultOK
    <3>2. r.out = "row" => r.st = row'[r.rid]
      BY <1>2, <2>2, AnswerIsCurrent
    <3>3. dbr' = Append(dbr, r)
      BY <2>2
    <3> HIDE DEF r
    <3> QED
      BY <1>1, <1>4, <1>5, <3>1, <3>2, <3>3, OrderAppend
  <2>3. CASE dbq # <<>> /\ dbr' = Append(dbr, Unanswered(Head(dbq), "failed"))
    <3> DEFINE r == Unanswered(Head(dbq), "failed")
    <3>1. r \in Result /\ r.out # "row"
      BY <1>2, <2>3 DEF Unanswered, Result, RowStatus
    <3>2. dbr' = Append(dbr, r)
      BY <2>3
    <3> HIDE DEF r
    <3> QED
      BY <1>1, <1>4, <1>5, <3>1, <3>2, OrderAppend
  <2> QED
    BY <2>1, <2>2, <2>3 DEF Executes
<1> QED
  BY <1>6, <1>7, <1>8, <1>9 DEF OrderInv

(* A restart empties the queues and moves control commands on. *)
LEMMA OrderRestarts ==
  ASSUME TypeInv, OrderInv, Restarts
  PROVE  OrderInv'
<1>1. /\ row \in [Ids -> RowStatus] /\ UNCHANGED <<info, told>>
      /\ dbq' = <<>> /\ dbr' = <<>>
  BY DEF TypeInv, TypeOK, Restarts
<1>2. ASSUME NEW id \in Ids
      PROVE  /\ Later(row[id], row'[id]) /\ row'[id] \in RowStatus
             /\ row[id] = "absent" => row'[id] = "absent"
  <2>1. row'[id] = row[id] \/ (row[id] \in ActiveStatus /\ row'[id] = "delivery_uncertain")
    BY DEF Restarts, Unfinished
  <2> QED
    BY <1>1, <2>1, LaterBounds DEF Later, RowStatus, CommandStatus, ActiveStatus,
       TerminalStatus
<1>3. row' \in [Ids -> RowStatus]
  BY <1>2 DEF Restarts
<1>4. ToldIsDurable'
  BY <1>1, <1>2, <1>3, OrderLaterRows
<1>5. FreshIsAbsent'
  BY <1>1, <1>2 DEF OrderInv, FreshIsAbsent
<1>6. InsertHasRequest' /\ SnapshotIsBetween' /\ SnapshotsInOrder'
  BY <1>1 DEF InsertHasRequest, SnapshotIsBetween, SnapshotsInOrder
<1> QED
  BY <1>4, <1>5, <1>6 DEF OrderInv

(* Every step keeps the results in order. *)
LEMMA OrderStep == TypeInv /\ OrderInv /\ [Next]_vars => OrderInv'
<1> SUFFICES ASSUME TypeInv, OrderInv, [Next]_vars PROVE OrderInv'
  OBVIOUS
<1>1. CASE Quiet
  <2>1. UNCHANGED <<info, row, dbr, told>> /\ QueueGrows
    BY <1>1 DEF Quiet
  <2>2. InsertHasRequest'
    BY <2>1, OrderQuiet
  <2> QED
    BY <2>1, <2>2 DEF OrderInv, FreshIsAbsent, SnapshotIsBetween, SnapshotsInOrder,
       ToldIsDurable
<1>2. CASE Handles
  <2>1. UNCHANGED <<info, row>> /\ QueueGrows
    BY <1>2 DEF Handles
  <2>2. InsertHasRequest'
    BY <2>1, OrderQuiet
  <2>3. SnapshotIsBetween' /\ SnapshotsInOrder' /\ ToldIsDurable'
    BY <1>2, OrderTail DEF Handles
  <2> QED
    BY <2>1, <2>2, <2>3 DEF OrderInv, FreshIsAbsent
<1>3. CASE GivesUp
  BY <1>3 DEF GivesUp, OrderInv, FreshIsAbsent, InsertHasRequest, SnapshotIsBetween,
     SnapshotsInOrder, ToldIsDurable
<1> QED
  BY <1>1, <1>2, <1>3, StepKinds, OrderGenerates, OrderExecutes, OrderRestarts

(* For every number of requests, devices and retries: what a source was    *)
(* told of a command is never ahead of the stored row.                     *)
THEOREM ToldIsAlwaysDurable == Spec => []ToldIsDurable
<1>1. Init => TypeInv /\ OrderInv
  BY TypeInit, OrderInit
<1>2. TypeInv /\ OrderInv /\ [Next]_vars => TypeInv' /\ OrderInv'
  BY TypeStep, OrderStep
<1>3. OrderInv => ToldIsDurable
  BY DEF OrderInv
<1> QED
  BY <1>1, <1>2, <1>3, PTL DEF Spec

-------------------------------------------------------------------------------
(* The router implements CommandLifecycle.  The mapping is the identity on *)
(* row and told; the definitions of CommandState reach the abstract module *)
(* through its own EXTENDS and are the same formulas.                      *)

(* CommandState means the same in both modules. *)
LEMMA SameStates ==
  /\ Lifecycle!RowStatus = RowStatus
  /\ Lifecycle!CommandStatus = CommandStatus
  /\ \A s, t : Lifecycle!Later(s, t) <=> Later(s, t)
  /\ \A s, t : Lifecycle!CanTransition(s, t) <=> CanTransition(s, t)
  /\ \A s : Lifecycle!IsTerminal(s) <=> IsTerminal(s)
  BY DEF Lifecycle!RowStatus, RowStatus, Lifecycle!CommandStatus, CommandStatus,
     Lifecycle!ActiveStatus, ActiveStatus, Lifecycle!TerminalStatus, TerminalStatus,
     Lifecycle!Later, Later, Lifecycle!CanTransition, CanTransition,
     Lifecycle!IsTerminal, IsTerminal

(* A statement of the database is a step of the life cycle, or changes     *)
(* nothing it can see.                                                     *)
LEMMA LifecycleExecutes ==
  ASSUME TypeInv, OrderInv, Executes
  PROVE  [Lifecycle!Next]_(Lifecycle!vars)
<1>1. row \in [Ids -> RowStatus] /\ UNCHANGED told
  BY DEF TypeInv, TypeOK, Executes
<1>2. row' = row \/ (dbq # <<>> /\ row' \in Table(Head(dbq)))
  BY DEF Executes
<1>3. CASE row' = row
  BY <1>1, <1>3 DEF Lifecycle!vars
<1>4. ASSUME NEW id \in Ids, NEW st \in {"pending", "failed"},
             row[id] = "absent", row' = [row EXCEPT ![id] = st]
      PROVE  Lifecycle!Next
  BY <1>1, <1>4 DEF Lifecycle!Next, Lifecycle!Store
<1>5. ASSUME NEW id \in Ids, NEW st \in CommandStatus,
             CanTransition(row[id], st), row' = [row EXCEPT ![id] = st]
      PROVE  Lifecycle!Next
  <2>1. st \in RowStatus
    BY DEF RowStatus
  <2>2. Lifecycle!Move({id})
    BY <1>1, <1>5, <2>1, SameStates DEF Lifecycle!Move
  <2> QED
    BY <2>2 DEF Lifecycle!Next
<1>6. ASSUME NEW S \in SUBSET Expendable,
             row' = [id \in Ids |-> IF id \in S THEN "gone" ELSE row[id]]
      PROVE  Lifecycle!Next
  <2>1. S \in SUBSET Ids /\ \A id \in S : IsTerminal(row[id])
    BY DEF Expendable
  <2>2. Lifecycle!CleanUp(S)
    BY <1>1, <1>6, <2>1, SameStates DEF Lifecycle!CleanUp
  <2> QED
    BY <2>1, <2>2 DEF Lifecycle!Next
<1> QED
  BY <1>2, <1>3, <1>4, <1>5, <1>6, TableSteps

(* A handled result tells the source a status the command had since it     *)
(* heard of it last, or nothing.                                           *)
LEMMA LifecycleHandles ==
  ASSUME TypeInv, OrderInv, Handles
  PROVE  [Lifecycle!Next]_(Lifecycle!vars)
<1> DEFINE h == Head(dbr)
<1>1. dbr # <<>> /\ UNCHANGED row
  BY DEF Handles
<1>2. \/ told' = told
      \/ h.out = "row" /\ told' = [told EXCEPT ![h.rid] = h.st]
  BY DEF Handles
<1>3. h.out = "row" => /\ Later(told[h.rid], h.st) /\ Later(h.st, row[h.rid])
                       /\ h.rid \in Ids /\ h.st \in CommandStatus
  BY <1>1, HeadTypes, TailElements
     DEF OrderInv, SnapshotIsBetween, ResultOK, TypeInv, TypeOK
<1> HIDE DEF h
<1>4. CASE told' = told
  BY <1>1, <1>4 DEF Lifecycle!vars
<1>5. CASE h.out = "row" /\ told' = [told EXCEPT ![h.rid] = h.st]
  <2>1. Lifecycle!Tell(h.rid)
    BY <1>1, <1>3, <1>5, SameStates DEF Lifecycle!Tell
  <2> QED
    BY <1>3, <1>5, <2>1 DEF Lifecycle!Next
<1> QED
  BY <1>2, <1>4, <1>5

(* A restart moves the unfinished control commands at once. *)
LEMMA LifecycleRestarts ==
  ASSUME TypeInv, Restarts
  PROVE  Lifecycle!Next
<1> DEFINE S == {id \in Unfinished : TypeOf(id) = "control"}
<1>1. row \in [Ids -> RowStatus] /\ UNCHANGED told
  BY DEF TypeInv, TypeOK, Restarts
<1>2. row' = [id \in Ids |-> IF id \in S THEN "delivery_uncertain" ELSE row[id]]
  BY DEF Restarts, Unfinished
<1>3. S \in SUBSET Ids /\ \A id \in S : CanTransition(row[id], "delivery_uncertain")
  BY DEF Unfinished, ActiveStatus, CanTransition, TerminalStatus
<1>4. "delivery_uncertain" \in RowStatus
  BY DEF RowStatus, CommandStatus, TerminalStatus
<1> HIDE DEF S
<1>5. Lifecycle!Move(S)
  BY <1>1, <1>2, <1>3, <1>4, SameStates DEF Lifecycle!Move
<1> QED
  BY <1>3, <1>5 DEF Lifecycle!Next

(* The command router, with all its threads, queues and failures, is an    *)
(* implementation of the life cycle CommandLifecycle promises.             *)
THEOREM RouterImplementsLifecycle == Spec => ImplementsLifecycle
<1>1. Init => TypeInv /\ OrderInv /\ Lifecycle!Init
  <2>1. Init => Lifecycle!Init
    BY DEF Init, DatabaseInit, Lifecycle!Init
  <2> QED
    BY <2>1, TypeInit, OrderInit
<1>2. TypeInv /\ OrderInv /\ [Next]_vars => TypeInv' /\ OrderInv'
  BY TypeStep, OrderStep
<1>3. TypeInv /\ OrderInv /\ [Next]_vars => [Lifecycle!Next]_(Lifecycle!vars)
  <2> SUFFICES ASSUME TypeInv, OrderInv, [Next]_vars
               PROVE  [Lifecycle!Next]_(Lifecycle!vars)
    OBVIOUS
  <2>1. CASE Quiet \/ Generates \/ GivesUp
    BY <2>1 DEF Quiet, Generates, GivesUp, Lifecycle!vars
  <2> QED
    BY <2>1, StepKinds, LifecycleExecutes, LifecycleHandles, LifecycleRestarts
<1> QED
  BY <1>1, <1>2, <1>3, PTL DEF Spec, ImplementsLifecycle, Lifecycle!Spec

-------------------------------------------------------------------------------
(* A step makes what a source heard later, and never "gone". *)
LEMMA ToldStep ==
  ASSUME TypeInv, OrderInv, [Next]_vars, NEW id \in Ids
  PROVE  /\ Later(told[id], told'[id])
         /\ told'[id] = told[id] \/ told'[id] \in CommandStatus
<1>1. told \in [Ids -> RowStatus]
  BY DEF TypeInv, TypeOK
<1>2. CASE told' = told
  BY <1>1, <1>2, LaterBounds
<1>3. CASE Handles /\ told' # told
  <2> DEFINE h == Head(dbr)
  <2>1. /\ dbr # <<>> /\ h.out = "row"
        /\ told' = [told EXCEPT ![h.rid] = h.st]
    BY <1>3 DEF Handles
  <2>2. Later(told[h.rid], h.st) /\ h.st \in CommandStatus
    BY <2>1, HeadTypes, TailElements
       DEF OrderInv, SnapshotIsBetween, ResultOK, TypeInv, TypeOK
  <2> HIDE DEF h
  <2> QED
    BY <1>1, <2>1, <2>2, LaterBounds
<1> QED
  BY <1>2, <1>3, StepKinds DEF Quiet, Generates, Executes, GivesUp, Restarts

(* For every value of the constants: the result a source heard is final,   *)
(* for the source and in the table.                                        *)
THEOREM HeardResultIsFinal == Spec => ResultHeardIsFinal
<1>1. Init => TypeInv /\ OrderInv
  BY TypeInit, OrderInit
<1>2. TypeInv /\ OrderInv /\ [Next]_vars => TypeInv' /\ OrderInv'
  BY TypeStep, OrderStep
<1>3. TypeInv /\ OrderInv /\ [Next]_vars =>
        [\A id \in Ids : IsTerminal(told[id]) =>
           /\ told'[id] = told[id]
           /\ row'[id] \in {told[id], "gone"}]_vars
  <2> SUFFICES ASSUME TypeInv, OrderInv, [Next]_vars, NEW id \in Ids,
                      IsTerminal(told[id])
               PROVE  told'[id] = told[id] /\ row'[id] \in {told[id], "gone"}
    OBVIOUS
  <2>1. told'[id] = told[id]
    BY ToldStep DEF Later, IsTerminal, CommandStatus, ActiveStatus, TerminalStatus
  <2>2. Later(told'[id], row'[id])
    BY OrderStep DEF OrderInv, ToldIsDurable
  <2> QED
    BY <2>1, <2>2 DEF Later, IsTerminal, TerminalStatus
<1> QED
  BY <1>1, <1>2, <1>3, PTL DEF Spec, ResultHeardIsFinal
===============================================================================
