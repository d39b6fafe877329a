-------------------------- MODULE CommandOnceProofs ---------------------------
(***************************************************************************)
(* What the command service does at most once, and what it never forgets,  *)
(* for every value of the constants.                                       *)
(*                                                                         *)
(* A command is published when the result of its insertion is handled, and *)
(* a config command also by a scan.  So the argument is about insertions:  *)
(* the results waiting and the tasks queued form one sequence of           *)
(* operations; no two insertions in it are of the same command, and a      *)
(* control command whose insertion is in it was not published yet.  On the *)
(* same sequence rest the other results of this module: a key names one    *)
(* command, an unfinished row is supervised, a settled command was told to *)
(* the caller, a caller is told one verdict, the rows a restart reads back *)
(* fit into the limit it admits, and an early ack is applied.              *)
(***************************************************************************)
EXTENDS CommandServiceProofs, FiniteSetTheorems

(* operations_: the tasks of the waiting results, then the queued tasks.   *)
Ops == Len(dbr) + Len(dbq)
Op(i) == IF i <= Len(dbr) THEN dbr[i].task ELSE dbq[i - Len(dbr)]

FreshIsIdle ==
    \A id \in Ids : info[id] = NoRequest =>
       /\ active[id].status = "none" /\ id \notin scan
       /\ sent[id] = 0
       /\ \A i \in 1 .. Ops : Op(i).kind = "insert" => Op(i).id # id

InsertsDiffer ==
    \A i, j \in 1 .. Ops :
       (i # j /\ Op(i).kind = "insert" /\ Op(j).kind = "insert") => Op(i).id # Op(j).id

InsertIsUnsent ==
    \A i \in 1 .. Ops :
       (Op(i).kind = "insert" /\ TypeOf(Op(i).id) = "control") => sent[Op(i).id] = 0

OnceInv ==
    /\ FreshIsIdle
    /\ InsertsDiffer
    /\ InsertIsUnsent
    /\ ControlAtMostOnce

-------------------------------------------------------------------------------
(* How a step changes the operations: all of them move k places forward,   *)
(* and at most one new one follows, which may only insert a fresh command. *)
FreshInsert(t) == /\ t.id \in Ids
                  /\ info[t.id] = NoRequest /\ info'[t.id] # NoRequest

OpsMove(k) ==
    \A i \in 1 .. Ops' :
       \/ i + k \in 1 .. Ops /\ Op(i)' = Op(i + k)
       \/ /\ i = Ops' /\ dbq' = Append(dbq, Op(i)')
          /\ Op(i)'.kind = "insert" => FreshInsert(Op(i)')

Consumes == dbr # <<>> /\ dbr' = Tail(dbr)

(* Operations when the queue of tasks grows and the results stay. *)
LEMMA OpsGrow ==
  ASSUME TypeInv, dbr' = dbr, QueueGrows
  PROVE  OpsMove(0)
<1>1. /\ dbq \in Seq(Task) /\ dbr \in Seq(Result)
      /\ Len(dbq) \in Nat /\ Len(dbr) \in Nat
  BY DEF TypeInv, TypeOK
<1>2. CASE dbq' = dbq
  BY <1>1, <1>2 DEF OpsMove, Op, Ops
<1>3. ASSUME NEW t \in Task, t.kind # "insert", dbq' = Append(dbq, t)
      PROVE  OpsMove(0)
  <2>1. /\ Len(dbq') = Len(dbq) + 1 /\ dbq'[Len(dbq) + 1] = t
        /\ \A i \in 1 .. Len(dbq) : dbq'[i] = dbq[i]
    BY <1>1, <1>3, AppendElements
  <2> SUFFICES ASSUME NEW i \in 1 .. Ops'
               PROVE  \/ i + 0 \in 1 .. Ops /\ Op(i)' = Op(i + 0)
                      \/ /\ i = Ops' /\ dbq' = Append(dbq, Op(i)')
                         /\ Op(i)'.kind # "insert"
    BY DEF OpsMove
  <2>2. CASE i <= Len(dbr)
    BY <1>1, <2>1, <2>2 DEF Op, Ops
  <2>3. CASE i > Len(dbr) /\ i <= Len(dbr) + Len(dbq)
    BY <1>1, <2>1, <2>3 DEF Op, Ops
  <2>4. CASE i = Len(dbr) + Len(dbq) + 1
    <3>1. Op(i)' = t /\ i = Ops'
      BY <1>1, <2>1, <2>4 DEF Op, Ops
    <3> QED
      BY <1>3, <3>1
  <2> QED
    BY <1>1, <2>1, <2>2, <2>3, <2>4 DEF Ops
<1> QED
  BY <1>2, <1>3 DEF QueueGrows

(* Operations when a result is taken and at most a task t appended. *)
LEMMA OpsConsume ==
  ASSUME TypeInv, Consumes,
         \/ dbq' = dbq
         \/ \E t \in Task : /\ t.kind = "insert" => FreshInsert(t)
                            /\ dbq' = Append(dbq, t)
  PROVE  OpsMove(1)
<1>1. /\ dbq \in Seq(Task) /\ dbr \in Seq(Result)
      /\ Len(dbq) \in Nat /\ Len(dbr) \in Nat
  BY DEF TypeInv, TypeOK
<1>2. /\ Len(dbr') = Len(dbr) - 1 /\ Len(dbr) >= 1
      /\ \A i \in 1 .. Len(dbr) - 1 : dbr'[i] = dbr[i + 1]
  BY <1>1, TailElements DEF Consumes
<1>3. CASE dbq' = dbq
  BY <1>1, <1>2, <1>3 DEF OpsMove, Op, Ops
<1>4. ASSUME NEW t \in Task, t.kind = "insert" => FreshInsert(t), dbq' = Append(dbq, t)
      PROVE  OpsMove(1)
  <2>1. /\ Len(dbq') = Len(dbq) + 1 /\ dbq'[Len(dbq) + 1] = t
        /\ \A i \in 1 .. Len(dbq) : dbq'[i] = dbq[i]
    BY <1>1, <1>4, AppendElements
  <2> SUFFICES ASSUME NEW i \in 1 .. Ops'
               PROVE  \/ i + 1 \in 1 .. Ops /\ Op(i)' = Op(i + 1)
                      \/ /\ i = Ops' /\ dbq' = Append(dbq, Op(i)')
                         /\ Op(i)'.kind = "insert" => FreshInsert(Op(i)')
    BY DEF OpsMove
  <2>2. CASE i <= Len(dbr) - 1
    BY <1>1, <1>2, <2>1, <2>2 DEF Op, Ops
  <2>3. CASE i > Len(dbr) - 1 /\ i <= Len(dbr) - 1 + Len(dbq)
    <3>1. Op(i)' = dbq'[i - (Len(dbr) - 1)] /\ Op(i + 1) = dbq[(i + 1) - Len(dbr)]
      BY <1>1, <1>2, <2>3 DEF Op
    <3>2. /\ i - (Len(dbr) - 1) \in 1 .. Len(dbq)
          /\ (i + 1) - Len(dbr) = i - (Len(dbr) - 1)
      BY <1>1, <2>3
    <3> QED
      BY <1>1, <2>1, <2>3, <3>1, <3>2 DEF Ops
  <2>4. CASE i = Len(dbr) + Len(dbq)
    <3>1. Op(i)' = t
      BY <1>1, <1>2, <2>1, <2>4 DEF Op
    <3>2. i = Ops'
      BY <1>1, <1>2, <2>1, <2>4 DEF Ops
    <3> QED
      BY <1>4, <3>1, <3>2
  <2>5. i \in 1 .. Len(dbr) + Len(dbq)
    BY <1>1, <1>2, <2>1 DEF Ops
  <2> QED
    BY <1>1, <2>2, <2>3, <2>4, <2>5
<1> QED
  BY <1>3, <1>4

(* Operations when the database answers the first task. *)
LEMMA OpsAnswer ==
  ASSUME TypeInv, dbq # <<>>, dbq' = Tail(dbq),
         NEW r \in Result, r.task = Head(dbq), dbr' = Append(dbr, r)
  PROVE  OpsMove(0)
<1>1. /\ dbq \in Seq(Task) /\ dbr \in Seq(Result)
      /\ Len(dbq) \in Nat /\ Len(dbr) \in Nat
  BY DEF TypeInv, TypeOK
<1>2. /\ Len(dbq') = Len(dbq) - 1 /\ Len(dbq) >= 1 /\ Head(dbq) = dbq[1]
      /\ \A i \in 1 .. Len(dbq) - 1 : dbq'[i] = dbq[i + 1]
  BY <1>1, TailElements
<1>3. /\ Len(dbr') = Len(dbr) + 1 /\ dbr'[Len(dbr) + 1] = r
      /\ \A i \in 1 .. Len(dbr) : dbr'[i] = dbr[i]
  BY <1>1, AppendElements
<1> SUFFICES ASSUME NEW i \in 1 .. Ops'
             PROVE  i + 0 \in 1 .. Ops /\ Op(i)' = Op(i + 0)
  BY DEF OpsMove
<1>4. i \in 1 .. Len(dbr) + Len(dbq)
  BY <1>1, <1>2, <1>3 DEF Ops
<1>5. CASE i <= Len(dbr)
  BY <1>1, <1>3, <1>4, <1>5 DEF Op, Ops
<1>6. CASE i = Len(dbr) + 1
  BY <1>1, <1>2, <1>3, <1>4, <1>6 DEF Op, Ops
<1>7. CASE i > Len(dbr) + 1
  <2>1. Op(i)' = dbq'[i - (Len(dbr) + 1)] /\ Op(i) = dbq[i - Len(dbr)]
    BY <1>1, <1>3, <1>4, <1>7 DEF Op
  <2>2. /\ i - (Len(dbr) + 1) \in 1 .. Len(dbq) - 1
        /\ (i - (Len(dbr) + 1)) + 1 = i - Len(dbr)
    BY <1>1, <1>4, <1>7
  <2>3. dbq'[i - (Len(dbr) + 1)] = dbq[(i - (Len(dbr) + 1)) + 1]
    BY <1>2, <2>2
  <2> QED
    BY <1>1, <1>4, <2>1, <2>2, <2>3 DEF Ops
<1> QED
  BY <1>1, <1>4, <1>5, <1>6, <1>7

(* Every step moves the operations: one place when a result is taken, and  *)
(* otherwise none.                                                         *)
LEMMA OpsStep ==
  ASSUME TypeInv, [Next]_vars
  PROVE  (Consumes => OpsMove(1)) /\ (~Consumes => OpsMove(0))
<1>1. /\ dbq \in Seq(Task) /\ dbr \in Seq(Result)
      /\ info \in [Ids -> Requests \cup {NoRequest}]
  BY DEF TypeInv, TypeOK
<1>2. Consumes => dbr' # dbr
  BY <1>1, TailElements DEF Consumes
<1>3. CASE Quiet
  BY <1>2, <1>3, OpsGrow DEF Quiet
<1>4. CASE Handles
  <2>1. Consumes /\ QueueGrows
    BY <1>4 DEF Handles, Consumes
  <2> QED
    BY <2>1, OpsConsume DEF QueueGrows
<1>5. CASE Generates
  <2>1. Consumes
    BY <1>5 DEF Generates, Consumes
  <2>2. PICK id \in Ids, req \in Requests, status \in {"pending", "failed"} :
          /\ info[id] = NoRequest
          /\ info' = [info EXCEPT ![id] = req]
          /\ dbq' = dbq \/ dbq' = Append(dbq, InsertTask(id, status))
    BY <1>5 DEF Generates
  <2> DEFINE t == InsertTask(id, status)
  <2>3. t \in Task /\ t.id = id
    BY TaskTypes DEF InsertTask
  <2>4. dbq' = dbq \/ dbq' = Append(dbq, t)
    BY <2>2
  <2> HIDE DEF t
  <2>5. FreshInsert(t)
    BY <1>1, <2>2, <2>3, DatabaseAssumption DEF FreshInsert
  <2> QED
    BY <2>1, <2>3, <2>4, <2>5, OpsConsume
<1>6. CASE Executes
  <2>1. CASE UNCHANGED <<dbq, dbr>>
    BY <1>2, <2>1, OpsGrow DEF QueueGrows
  <2>2. CASE /\ dbq # <<>> /\ dbq' = Tail(dbq)
             /\ \/ dbr' = Append(dbr, Answer(Head(dbq)))
                \/ dbr' = Append(dbr, Unanswered(Head(dbq), "failed"))
    <3>1. Head(dbq) \in Task /\ TaskOK(Head(dbq))
      BY <1>1, <2>2, TailElements DEF TypeInv, QueuesOK
    <3>2. /\ Answer(Head(dbq)) \in Result /\ Answer(Head(dbq)).task = Head(dbq)
          /\ Unanswered(Head(dbq), "failed") \in Result
          /\ Unanswered(Head(dbq), "failed").task = Head(dbq)
      BY <3>1, AnswerTypes DEF Unanswered, Result, RowStatus
    <3>3. PICK r \in Result : r.task = Head(dbq) /\ dbr' = Append(dbr, r)
      BY <2>2, <3>2
    <3>4. ~Consumes
      BY <1>1, <3>3, AppendElements, TailElements DEF Consumes
    <3> QED
      BY <2>2, <3>3, <3>4, OpsAnswer
  <2> QED
    BY <1>6, <2>1, <2>2 DEF Executes
<1>7. CASE Restarts
  <2>1. Ops' = 0
    BY <1>7 DEF Restarts, Ops
  <2> QED
    BY <2>1 DEF OpsMove
<1>8. CASE GivesUp
  <2>1. dbr' = dbr /\ Ops' = Len(dbr) /\ Len(dbr) \in Nat /\ Len(dbq) \in Nat
    BY <1>1, <1>8 DEF GivesUp, Ops
  <2>2. ASSUME NEW i \in 1 .. Ops'
        PROVE  i + 0 \in 1 .. Ops /\ Op(i)' = Op(i + 0)
    BY <2>1 DEF Ops, Op
  <2> QED
    BY <1>2, <2>1, <2>2 DEF OpsMove
<1> QED
  BY <1>3, <1>4, <1>5, <1>6, <1>7, <1>8, StepKinds

-------------------------------------------------------------------------------

(* A record that is installed has the status it was given. *)
LEMMA StatusSet ==
  ASSUME TypeInv, NEW id \in Ids, NEW st, NEW dl
  PROVE  [active EXCEPT ![id] = [status |-> st, dl |-> dl]][id].status = st
<1>1. [active EXCEPT ![id] = [status |-> st, dl |-> dl]][id] = [status |-> st, dl |-> dl]
  BY DEF TypeInv, TypeOK
<1> QED
  BY <1>1

(* How a command becomes active, and how it is scanned: it was active, its *)
(* row was answered, or a restart found it unfinished.                     *)
LEMMA ActiveStep ==
  ASSUME TypeInv, [Next]_vars, NEW id \in Ids
  PROVE  /\ \/ active'[id] = active[id]
            \/ active'[id].status = "none"
            \/ CrashAndRestart /\ row[id] \in ActiveStatus
            \/ /\ dbr # <<>> /\ dbr' = Tail(dbr)
               /\ Head(dbr).out = "row" /\ Head(dbr).rid = id
               /\ \/ Head(dbr).task.kind \in {"transition", "findById"}
                  \/ Head(dbr).task.kind = "insert" /\ Head(dbr).task.id = id
               /\ active'[id].status = Head(dbr).st
         /\ id \in scan' => id \in scan \/ active[id].status # "none"
<1>1. active \in [Ids -> [status : ActiveStatus \cup {"none"}, dl : Nat]]
  BY DEF TypeInv, TypeOK
<1>2. CASE HandleInserted \/ HandleTransitioned \/ ConvergeAfterConflict
  <2>1. /\ dbr # <<>> /\ dbr' = Tail(dbr) /\ Head(dbr).out = "row" /\ UNCHANGED scan
        /\ \/ Head(dbr).task.kind \in {"transition", "findById"}
           \/ Head(dbr).task.kind = "insert" /\ Head(dbr).rid = Head(dbr).task.id
    BY <1>2 DEF HandleInserted, HandleTransitioned, ConvergeAfterConflict, NextResult, threadVars
  <2>1a. \/ active' = active
        \/ active' = [active EXCEPT ![Head(dbr).rid] = Inactive]
        \/ \E dl : active' = [active EXCEPT ![Head(dbr).rid] = [status |-> Head(dbr).st, dl |-> dl]]
    BY <1>2 DEF HandleInserted, HandleTransitioned, ConvergeAfterConflict, NextResult, Forget
  <2>2. CASE \E dl : active' = [active EXCEPT ![Head(dbr).rid] = [status |-> Head(dbr).st, dl |-> dl]]
    <3>1. PICK dl : active' = [active EXCEPT ![Head(dbr).rid] = [status |-> Head(dbr).st, dl |-> dl]]
      BY <2>2
    <3>2. Head(dbr).rid = id => active'[id].status = Head(dbr).st
      BY <3>1, StatusSet
    <3> QED
      BY <1>1, <2>1, <3>1, <3>2
  <2>3. CASE active' = [active EXCEPT ![Head(dbr).rid] = Inactive]
    BY <1>1, <2>1, <2>3 DEF Inactive
  <2> QED
    BY <2>1a, <2>1, <2>2, <2>3
<1>3. CASE CrashAndRestart
  BY <1>3 DEF CrashAndRestart, LoadActive, Unfinished, Inactive
<1>4. CASE /\ HandleDatabaseResult
           /\ ~(HandleInserted \/ HandleTransitioned \/ ConvergeAfterConflict)
  BY <1>4 DEF HandleDatabaseResult, HandleFound, HandleNotFound, HandleInsertLost,
     HandleTransitionConflict, HandleLoggedResult, serviceVars, threadVars
<1>5. CASE \/ \E req \in Requests : HandleSourceRequest(req)
           \/ \E i \in Ids, ack \in AckStatus : HandleDeviceAck(i, ack)
           \/ \E i \in Ids, k \in Slots : HandlePublishCompletion(i, k)
           \/ RetryDeferredTransitions
  BY <1>5 DEF HandleSourceRequest, HandleDeviceAck, HandlePublishCompletion,
     RetryDeferredTransitions, serviceVars, threadVars
<1>6. CASE StartScan \/ \E i \in Ids : Scan(i)
  BY <1>6 DEF StartScan, Scan, Active, serviceVars
<1>7. CASE \/ CallCycleHook \/ \E d \in Devices : OnTargetOnline(d) \/ DeviceGoesOffline(d)
           \/ WaitForNextCheck \/ \E i \in Ids : DeadlinePasses(i)
  BY <1>7 DEF CallCycleHook, OnTargetOnline, DeviceGoesOffline, WaitForNextCheck,
     DeadlinePasses, serviceVars, threadVars
<1>8. CASE DatabaseThread \/ MqttThread \/ UNCHANGED vars
  BY <1>8 DEF DatabaseThread, MqttThread, OutsideDatabase, OutsideMqtt, vars,
     serviceVars, threadVars
<1> QED
  BY <1>2, <1>3, <1>4, <1>5, <1>6, <1>7, <1>8 DEF Next, BusinessThread,
     HandleDatabaseResult

(* How a command is published: by the scan of a config command, or when    *)
(* the result of its insertion is handled.                                 *)
LEMMA SentStep ==
  ASSUME TypeInv, [Next]_vars, NEW id \in Ids
  PROVE  \/ sent'[id] = sent[id]
         \/ id \in scan /\ TypeOf(id) = "config"
         \/ /\ Consumes /\ Head(dbr).task.kind = "insert" /\ Head(dbr).task.id = id
            /\ Head(dbr).out = "row" /\ Head(dbr).rid = id
            /\ sent'[id] = IF sent[id] = 0 THEN 1 ELSE 2
<1>1. sent \in [Ids -> 0 .. 2]
  BY DEF TypeInv, TypeOK
<1>2. ASSUME NEW i, NEW status, NEW dl, PublishRecord(i, status, dl)
      PROVE  \/ sent' = sent
             \/ sent' = [sent EXCEPT ![i] = IF @ = 0 THEN 1 ELSE 2]
  BY <1>2 DEF PublishRecord, PublishCommandSet, PublishCommandSetRefused
<1>3. CASE HandleInserted
  <2>1. /\ Consumes /\ Head(dbr).task.kind = "insert"
        /\ Head(dbr).out = "row" /\ Head(dbr).rid = Head(dbr).task.id
    BY <1>3 DEF HandleInserted, NextResult, Consumes
  <2>2. \/ sent' = sent
        \/ sent' = [sent EXCEPT ![Head(dbr).task.id] = IF @ = 0 THEN 1 ELSE 2]
    BY <1>2, <1>3 DEF HandleInserted
  <2> QED
    BY <1>1, <2>1, <2>2
<1>4. ASSUME NEW i \in Ids, Scan(i)
      PROVE  sent'[id] = sent[id] \/ (id \in scan /\ TypeOf(id) = "config")
  <2>1. \/ sent' = sent
        \/ /\ i \in scan /\ TypeOf(i) = "config"
           /\ sent' = [sent EXCEPT ![i] = IF @ = 0 THEN 1 ELSE 2]
    BY <1>2, <1>4 DEF Scan, ScanTimesOut, ScanRepublishes, ScanSkips, MustRepublish
  <2> QED
    BY <1>1, <2>1
<1>5. CASE HandleDatabaseResult /\ ~HandleInserted
  BY <1>5 DEF HandleDatabaseResult, HandleFound, HandleNotFound, HandleInsertLost,
     HandleTransitioned, HandleTransitionConflict, ConvergeAfterConflict,
     HandleLoggedResult, mqttVars
<1>6. CASE \/ \E req \in Requests : HandleSourceRequest(req)
           \/ \E i \in Ids, ack \in AckStatus : HandleDeviceAck(i, ack)
           \/ \E i \in Ids, k \in Slots : HandlePublishCompletion(i, k)
           \/ RetryDeferredTransitions \/ StartScan
  BY <1>6 DEF HandleSourceRequest, HandleDeviceAck, HandlePublishCompletion,
     RetryDeferredTransitions, StartScan, mqttVars
<1>7. CASE \/ CallCycleHook \/ \E d \in Devices : OnTargetOnline(d) \/ DeviceGoesOffline(d)
           \/ WaitForNextCheck \/ \E i \in Ids : DeadlinePasses(i)
           \/ CrashAndRestart
  BY <1>7 DEF CallCycleHook, OnTargetOnline, DeviceGoesOffline, WaitForNextCheck,
     DeadlinePasses, CrashAndRestart, mqttVars
<1>8. CASE DatabaseThread \/ MqttThread \/ UNCHANGED vars
  BY <1>8 DEF DatabaseThread, MqttThread, OutsideDatabase, vars, mqttVars,
     BrokerCompletes, MqttDisconnects, MqttConnects
<1> QED
  BY <1>3, <1>4, <1>5, <1>6, <1>7, <1>8 DEF Next, BusinessThread

(* The request of a command id is assigned once. *)
LEMMA InfoStep ==
  ASSUME TypeInv, [Next]_vars, NEW id \in Ids, info[id] # NoRequest
  PROVE  info'[id] = info[id]
<1>1. info \in [Ids -> Requests \cup {NoRequest}]
  BY DEF TypeInv, TypeOK
<1>2. CASE Generates
  BY <1>1, <1>2 DEF Generates
<1> QED
  BY <1>2, StepKinds DEF Quiet, Handles, Executes, GivesUp, Restarts

(* A row that was answered belongs to a command that was generated. *)
LEMMA AnsweredIsGenerated ==
  ASSUME TypeInv, OrderInv, dbr # <<>>, Head(dbr).out = "row"
  PROVE  info[Head(dbr).rid] # NoRequest
<1>1. /\ Head(dbr).rid \in Ids /\ Head(dbr).st \in CommandStatus
  BY HeadTypes DEF ResultOK
<1>2. Later(Head(dbr).st, row[Head(dbr).rid])
  BY TailElements DEF TypeInv, TypeOK, OrderInv, SnapshotIsBetween
<1>3. row[Head(dbr).rid] # "absent"
  BY <1>1, <1>2 DEF Later, CommandStatus, ActiveStatus, TerminalStatus
<1> QED
  BY <1>1, <1>3 DEF OrderInv, FreshIsAbsent

(* The insertion whose result is taken is the first operation. *)
LEMMA HeadIsFirstOp ==
  ASSUME TypeInv, Consumes
  PROVE  1 \in 1 .. Ops /\ Op(1) = Head(dbr).task
<1>1. dbq \in Seq(Task) /\ dbr \in Seq(Result)
  BY DEF TypeInv, TypeOK
<1> QED
  BY <1>1, TailElements DEF Consumes, Ops, Op

(* Initially nothing was published and no insertion is under way. *)
LEMMA OnceInit == Init => OnceInv
<1> SUFFICES ASSUME Init PROVE OnceInv
  OBVIOUS
<1>1. dbq = <<>> /\ dbr = <<>> /\ scan = {}
  BY DEF Init, DatabaseInit
<1>2. Ops = 0
  BY <1>1 DEF Ops
<1>3. \A id \in Ids : active[id].status = "none" /\ sent[id] = 0 /\ info[id] = NoRequest
  BY DEF Init, DatabaseInit, PublicationsInit, Inactive
<1> QED
  BY <1>1, <1>2, <1>3 DEF OnceInv, FreshIsIdle, InsertsDiffer, InsertIsUnsent,
     ControlAtMostOnce, Generated

(* Every step keeps the insertions distinct and their commands unpublished. *)
LEMMA OnceStep == TypeInv /\ OrderInv /\ OnceInv /\ [Next]_vars => OnceInv'
<1> SUFFICES ASSUME TypeInv, OrderInv, OnceInv, [Next]_vars PROVE OnceInv'
  OBVIOUS
<1>1. /\ info \in [Ids -> Requests \cup {NoRequest}] /\ row \in [Ids -> RowStatus]
      /\ sent \in [Ids -> 0 .. 2] /\ TypeInv' /\ Ops \in Nat /\ Ops' \in Nat
  <2>1. TypeInv'
    BY TypeStep
  <2> QED
    BY <2>1 DEF TypeInv, TypeOK, Ops
<1>2. PICK k \in {0, 1} : OpsMove(k) /\ (Consumes => k = 1)
  BY OpsStep
<1>3. \A id \in Ids : info'[id] = NoRequest => info[id] = NoRequest
  BY InfoStep
<1>4. ASSUME NEW id \in Ids, info[id] = NoRequest
      PROVE  sent'[id] = 0
  <2>1. id \notin scan /\ sent[id] = 0
    BY <1>4 DEF OnceInv, FreshIsIdle
  <2>2. ~(Consumes /\ Head(dbr).task.kind = "insert" /\ Head(dbr).task.id = id)
    BY <1>4, HeadIsFirstOp DEF OnceInv, FreshIsIdle
  <2> QED
    BY <2>1, <2>2, SentStep
<1>5. ASSUME NEW i \in 1 .. Ops', Op(i)'.kind = "insert"
      PROVE  \/ /\ i + k \in 1 .. Ops /\ Op(i)' = Op(i + k)
                /\ Op(i)'.id \in Ids /\ info[Op(i)'.id] # NoRequest
             \/ i = Ops' /\ FreshInsert(Op(i)')
  <2>1. ASSUME i + k \in 1 .. Ops, Op(i)' = Op(i + k)
        PROVE  Op(i)'.id \in Ids /\ info[Op(i)'.id] # NoRequest
    <3>1. \A j \in 1 .. Ops : Op(j).kind = "insert" => Op(j).id \in Ids
      <4>1. Len(dbr) \in Nat /\ Len(dbq) \in Nat
        BY DEF TypeInv, TypeOK
      <4>2. \A j \in 1 .. Ops : TaskOK(Op(j))
        BY <4>1 DEF TypeInv, QueuesOK, ResultOK, Ops, Op
      <4> QED
        BY <4>2 DEF TaskOK
    <3> QED
      BY <1>5, <2>1, <3>1 DEF OnceInv, FreshIsIdle
  <2> QED
    BY <1>2, <1>5, <2>1 DEF OpsMove
<1>6. FreshIsIdle'
  <2> SUFFICES ASSUME NEW id \in Ids, info'[id] = NoRequest
               PROVE  /\ active'[id].status = "none" /\ id \notin scan'
                      /\ sent'[id] = 0
                      /\ \A i \in 1 .. Ops' : Op(i)'.kind = "insert" => Op(i)'.id # id
    BY DEF FreshIsIdle
  <2>1. /\ info[id] = NoRequest /\ active[id].status = "none" /\ id \notin scan
        /\ row[id] = "absent"
    BY <1>3 DEF OnceInv, FreshIsIdle, OrderInv, FreshIsAbsent
  <2>2. ~(dbr # <<>> /\ Head(dbr).out = "row" /\ Head(dbr).rid = id)
    BY <2>1, AnsweredIsGenerated
  <2>3. active'[id].status = "none" /\ id \notin scan'
    BY <2>1, <2>2, ActiveStep DEF ActiveStatus
  <2>4. \A i \in 1 .. Ops' : Op(i)'.kind = "insert" => Op(i)'.id # id
    BY <1>5, <2>1 DEF FreshInsert
  <2> QED
    BY <1>4, <2>1, <2>3, <2>4
<1>7. InsertsDiffer'
  <2> SUFFICES ASSUME NEW i \in 1 .. Ops', NEW j \in 1 .. Ops', i # j,
                      Op(i)'.kind = "insert", Op(j)'.kind = "insert"
               PROVE  Op(i)'.id # Op(j)'.id
    BY DEF InsertsDiffer
  <2>1. CASE i = Ops' /\ FreshInsert(Op(i)')
    BY <1>5, <2>1 DEF FreshInsert
  <2>2. CASE j = Ops' /\ FreshInsert(Op(j)')
    BY <1>5, <2>2 DEF FreshInsert
  <2>3. CASE /\ i + k \in 1 .. Ops /\ Op(i)' = Op(i + k)
             /\ j + k \in 1 .. Ops /\ Op(j)' = Op(j + k)
    <3>1. i + k # j + k
      OBVIOUS
    <3> QED
      BY <2>3, <3>1 DEF OnceInv, InsertsDiffer
  <2> QED
    BY <1>5, <2>1, <2>2, <2>3
<1>8. InsertIsUnsent'
  <2> SUFFICES ASSUME NEW i \in 1 .. Ops', Op(i)'.kind = "insert",
                      info'[Op(i)'.id].payload.type = "control"
               PROVE  sent'[Op(i)'.id] = 0
    BY DEF InsertIsUnsent, TypeOf
  <2> DEFINE id == Op(i)'.id
  <2>1. CASE FreshInsert(Op(i)')
    BY <1>4, <2>1 DEF FreshInsert
  <2>2. CASE /\ i + k \in 1 .. Ops /\ Op(i)' = Op(i + k)
             /\ id \in Ids /\ info[id] # NoRequest
    <3>1. TypeOf(id) = "control" /\ sent[id] = 0
      BY <2>2, InfoStep DEF OnceInv, InsertIsUnsent, TypeOf
    <3>2. ~(Consumes /\ Head(dbr).task.kind = "insert" /\ Head(dbr).task.id = id)
      <4> SUFFICES ASSUME Consumes, Head(dbr).task.kind = "insert",
                          Head(dbr).task.id = id
                   PROVE  FALSE
        OBVIOUS
      <4>1. k = 1 /\ 1 \in 1 .. Ops /\ Op(1) = Head(dbr).task
        BY <1>2, HeadIsFirstOp
      <4>2. i + k # 1
        BY <4>1
      <4> QED
        BY <2>2, <4>1, <4>2 DEF OnceInv, InsertsDiffer
    <3>3. ~(id \in scan /\ TypeOf(id) = "config")
      BY <3>1
    <3> QED
      BY <2>2, <3>1, <3>2, <3>3, SentStep
  <2> QED
    BY <1>5, <2>1, <2>2
<1>9. ControlAtMostOnce'
  <2> SUFFICES ASSUME NEW id \in Ids, info'[id] # NoRequest,
                      info'[id].payload.type = "control"
               PROVE  sent'[id] <= 1
    BY DEF ControlAtMostOnce, Generated, TypeOf
  <2>1. CASE info[id] = NoRequest
    BY <1>4, <2>1
  <2>2. CASE info[id] # NoRequest
    <3>1. TypeOf(id) = "control" /\ sent[id] <= 1
      BY <2>2, InfoStep DEF OnceInv, ControlAtMostOnce, Generated, TypeOf
    <3>2. CASE Consumes /\ Head(dbr).task.kind = "insert" /\ Head(dbr).task.id = id
      <4>1. sent[id] = 0
        BY <3>1, <3>2, HeadIsFirstOp DEF OnceInv, InsertIsUnsent
      <4> QED
        BY <3>1, <4>1, SentStep
    <3>3. CASE sent'[id] = sent[id]
      BY <3>1, <3>3
    <3> QED
      BY <3>1, <3>2, <3>3, SentStep
  <2> QED
    BY <2>1, <2>2
<1> QED
  BY <1>6, <1>7, <1>8, <1>9 DEF OnceInv

(* For every number of requests, retries, reconnections and restarts: a    *)
(* flight control command is handed to the MQTT client at most once.       *)
THEOREM ControlIsSentAtMostOnce == Spec => []ControlAtMostOnce
<1>1. Init => TypeInv /\ OrderInv /\ OnceInv
  BY TypeInit, OrderInit, OnceInit
<1>2. TypeInv /\ OrderInv /\ OnceInv /\ [Next]_vars => TypeInv' /\ OrderInv' /\ OnceInv'
  BY TypeStep, OrderStep, OnceStep
<1>3. OnceInv => ControlAtMostOnce
  BY DEF OnceInv
<1> QED
  BY <1>1, <1>2, <1>3, PTL DEF Spec

-------------------------------------------------------------------------------
(* One command per key.  Rows that exist have different keys, and only a   *)
(* command with a row is active, scanned or published.                     *)
KeysDiffer ==
    \A i, j \in Generated :
       (i # j /\ Present(i) /\ Present(j)) => info[i].key # info[j].key

SentIsStored ==
    \A id \in Ids :
       (sent[id] > 0 \/ active[id].status # "none" \/ id \in scan) => row[id] # "absent"

KeyInv == KeysDiffer /\ SentIsStored

(* Rows only move forward. *)
LEMMA RowStep ==
  ASSUME TypeInv, OrderInv, [Next]_vars, NEW id \in Ids
  PROVE  Later(row[id], row'[id]) /\ (row[id] # "absent" => row'[id] # "absent")
<1>1. row \in [Ids -> RowStatus]
  BY DEF TypeInv, TypeOK
<1>2. Later(row[id], row'[id])
  <2>1. CASE row' = row
    BY <1>1, <2>1, LaterBounds
  <2>2. CASE Executes
    BY <2>1, <2>2, TableIsLater DEF Executes
  <2>3. CASE Restarts
    BY <1>1, <2>3, LaterBounds DEF Restarts, Unfinished, Later, ActiveStatus, TerminalStatus,
       CommandStatus
  <2> QED
    BY <2>1, <2>2, <2>3, StepKinds DEF Quiet, Handles, Generates, GivesUp
<1> QED
  BY <1>1, <1>2 DEF Later, RowStatus, CommandStatus, ActiveStatus, TerminalStatus

(* A row comes into being by an insertion that finds its key free. *)
LEMMA NewRow ==
  ASSUME TypeInv, OrderInv, dbq # <<>>, NEW table \in Table(Head(dbq)), NEW id \in Ids,
         table[id] \in CommandStatus, row[id] \notin CommandStatus
  PROVE  /\ Head(dbq).kind = "insert" /\ Head(dbq).id = id
         /\ KeyOfInsert(Head(dbq)) = {}
         /\ info[id] # NoRequest
<1> DEFINE t == Head(dbq)
<1>1. /\ t \in Task /\ TaskOK(t)
      /\ t.kind = "insert" => info[t.id] # NoRequest
  BY TailElements DEF TypeInv, TypeOK, QueuesOK, OrderInv, InsertHasRequest
<1>2. row \in [Ids -> RowStatus] /\ table # row
  BY DEF TypeInv, TypeOK
<1>3. CASE t.kind = "insert"
  <2>1. KeyOfInsert(t) = {} /\ table = [row EXCEPT ![t.id] = t.to]
    BY <1>2, <1>3, TableCases
  <2>2. t.id = id
    BY <1>2, <2>1
  <2> QED
    BY <1>1, <1>3, <2>1, <2>2
<1>4. CASE t.kind = "transition"
  <2>1. CanTransition(t.from, t.to) /\ row[t.id] = t.from /\ table = [row EXCEPT ![t.id] = t.to]
    BY <1>2, <1>4, TableCases
  <2>2. t.id = id
    BY <1>2, <2>1
  <2> QED
    BY <2>1, <2>2, TransitionIsLater DEF CommandStatus
<1>5. CASE t.kind = "cleanup"
  <2>1. PICK S \in SUBSET Expendable : table = [i \in Ids |-> IF i \in S THEN "gone" ELSE row[i]]
    BY <1>5, TableCases
  <2> QED
    BY <2>1 DEF CommandStatus, ActiveStatus, TerminalStatus
<1>6. CASE t.kind \in {"find", "findById"}
  BY <1>2, <1>6, TableCases
<1> QED
  BY <1>1, <1>3, <1>4, <1>5, <1>6 DEF Task

(* Every step keeps the keys of the rows different. *)
LEMMA KeysStep ==
  ASSUME TypeInv, OrderInv, KeysDiffer, [Next]_vars
  PROVE  KeysDiffer'
<1> SUFFICES ASSUME NEW i \in Ids, NEW j \in Ids, i # j, info'[i] # NoRequest, info'[j] # NoRequest,
                    row'[i] \in CommandStatus, row'[j] \in CommandStatus
             PROVE  info'[i].key # info'[j].key
  BY DEF KeysDiffer, Generated, Present
<1>1. /\ info \in [Ids -> Requests \cup {NoRequest}] /\ row \in [Ids -> RowStatus]
      /\ \A id \in Ids : info[id] = NoRequest => row[id] = "absent"
  BY DEF TypeInv, TypeOK, OrderInv, FreshIsAbsent
<1>2. "absent" \notin CommandStatus
  BY DEF CommandStatus, ActiveStatus, TerminalStatus
<1>3. ASSUME NEW id \in Ids, row[id] \in CommandStatus
      PROVE  info[id] # NoRequest /\ info'[id] = info[id]
  BY <1>1, <1>2, <1>3, InfoStep
<1>4. CASE row[i] \in CommandStatus /\ row[j] \in CommandStatus
  BY <1>3, <1>4 DEF KeysDiffer, Generated, Present
<1>5. CASE row[i] \notin CommandStatus \/ row[j] \notin CommandStatus
  <2>1. row' # row /\ ~Restarts
    BY <1>5 DEF Restarts, Unfinished, CommandStatus
  <2>2. Executes
    BY <2>1, StepKinds DEF Quiet, Handles, Generates, GivesUp
  <2>3. dbq # <<>> /\ row' \in Table(Head(dbq)) /\ info' = info
    BY <2>1, <2>2 DEF Executes
  <2>4. ASSUME NEW x \in Ids, NEW y \in Ids, x # y, info[y] # NoRequest,
               row'[x] \in CommandStatus, row'[y] \in CommandStatus, row[x] \notin CommandStatus
        PROVE  info[x].key # info[y].key
    <3>1. Head(dbq).id = x /\ KeyOfInsert(Head(dbq)) = {}
      BY <2>3, <2>4, NewRow
    <3>2. row[y] \in CommandStatus
      BY <2>3, <2>4, <3>1, NewRow
    <3> QED
      BY <2>4, <3>1, <3>2 DEF KeyOfInsert, WithKey, Generated, Present
  <2> QED
    BY <1>5, <2>3, <2>4
<1> QED
  BY <1>4, <1>5

(* A row that was answered is stored. *)
LEMMA AnsweredIsStored ==
  ASSUME TypeInv, OrderInv, dbr # <<>>, Head(dbr).out = "row"
  PROVE  row[Head(dbr).rid] # "absent"
<1>1. Head(dbr).rid \in Ids /\ Head(dbr).st \in CommandStatus
  BY HeadTypes DEF ResultOK
<1>2. Later(Head(dbr).st, row[Head(dbr).rid])
  BY TailElements DEF TypeInv, TypeOK, OrderInv, SnapshotIsBetween
<1> QED
  BY <1>1, <1>2 DEF Later, CommandStatus, ActiveStatus, TerminalStatus

(* Every step publishes and activates stored commands only. *)
LEMMA StoredStep ==
  ASSUME TypeInv, OrderInv, SentIsStored, [Next]_vars
  PROVE  SentIsStored'
<1> SUFFICES ASSUME NEW id \in Ids, sent'[id] > 0 \/ active'[id].status # "none" \/ id \in scan',
                    row[id] = "absent"
             PROVE  FALSE
  BY RowStep DEF SentIsStored
<1>1. /\ ~(sent[id] > 0) /\ active[id].status = "none" /\ id \notin scan
  BY DEF SentIsStored
<1>2. ~(dbr # <<>> /\ Head(dbr).out = "row" /\ Head(dbr).rid = id)
  BY AnsweredIsStored
<1>3. sent'[id] = sent[id]
  BY <1>1, <1>2, SentStep DEF Consumes
<1>4. active'[id].status = "none" /\ id \notin scan'
  BY <1>1, <1>2, ActiveStep DEF ActiveStatus
<1> QED
  BY <1>1, <1>3, <1>4

(* The keys of the rows differ at any time. *)
LEMMA KeyHolds == Spec => [](TypeInv /\ OrderInv /\ KeyInv)
<1>1. Init => TypeInv /\ OrderInv /\ KeyInv
  <2>1. Init => KeyInv
    BY DEF Init, DatabaseInit, PublicationsInit, Inactive, KeyInv, KeysDiffer, SentIsStored,
       Generated
  <2> QED
    BY <2>1, TypeInit, OrderInit
<1>2. TypeInv /\ OrderInv /\ KeyInv /\ [Next]_vars => TypeInv' /\ OrderInv' /\ KeyInv'
  BY TypeStep, OrderStep, KeysStep, StoredStep DEF KeyInv
<1> QED
  BY <1>1, <1>2, PTL DEF Spec

(* For every number of requests under one key, repeated, concurrent or     *)
(* before and after a restart: while its row is kept, at most one of the   *)
(* commands they generate is handed to the MQTT client.                    *)
THEOREM OneCommandPerKey == Spec => []OnePublishPerKey
<1>1. TypeInv /\ KeyInv => OnePublishPerKey
  <2> SUFFICES ASSUME TypeInv, KeyInv, NEW i \in Generated, NEW j \in Generated, i # j,
                      info[i].key = info[j].key, sent[i] > 0, sent[j] > 0,
                      row[i] # "gone", row[j] # "gone"
               PROVE  FALSE
    BY DEF OnePublishPerKey
  <2>1. i \in Ids /\ j \in Ids
    BY DEF Generated
  <2>2. row[i] # "absent" /\ row[j] # "absent" /\ row[i] \in RowStatus /\ row[j] \in RowStatus
    BY <2>1 DEF KeyInv, SentIsStored, TypeInv, TypeOK
  <2>3. Present(i) /\ Present(j)
    BY <2>2 DEF Present, RowStatus
  <2> QED
    BY <2>3 DEF KeyInv, KeysDiffer
<1> QED
  BY <1>1, KeyHolds, PTL

-------------------------------------------------------------------------------
(* Every stored command is looked after.  A command that is not finished,  *)
(* or whose result the source has not heard, is active or its insertion is *)
(* still to be handled, or was dropped by a worker that gave up.  An       *)
(* insertion whose commit was in doubt runs again otherwise, and must not  *)
(* fail then: so the theorems assume that statements never fail or that    *)
(* the connection never breaks.                                            *)
NoLostInsert == "sql" \notin Faults \/ "db" \notin Faults

StoredBy(r, id) ==
    r.task.kind = "insert" /\ r.task.id = id /\ r.out = "row" /\ r.rid = id

Inserting(id) ==
    \/ \E i \in 1 .. Len(dbq) : dbq[i].kind = "insert" /\ dbq[i].id = id
    \/ \E i \in 1 .. Len(dbr) : StoredBy(dbr[i], id)

Open(id) ==
    \/ row[id] \in ActiveStatus
    \/ crashes = 0 /\ IsTerminal(row[id]) /\ told[id] # row[id]

SupervisedInv ==
    \A id \in Ids :
       Open(id) => active[id].status # "none" \/ Inserting(id) \/ id \in dropped

(* The worker gives up once in the life of a process, and only then drops  *)
(* insertions.                                                             *)
DroppedInv == accepting => dropped = {}

InsertIsAhead ==
    "db" \notin Faults =>
       \A i \in 1 .. Len(dbq) : dbq[i].kind = "insert" => row[dbq[i].id] = "absent"

(* Between two starts only the worker that gives up changes what it        *)
(* accepts and what it has dropped.                                        *)
LEMMA DroppedStep ==
  ASSUME [Next]_vars, ~CrashAndRestart
  PROVE  \/ UNCHANGED <<accepting, dropped>>
         \/ /\ WorkerGivesUp /\ GivesUp
            /\ UNCHANGED <<active, crashes>>
<1>1. CASE HandleDatabaseResult
  BY <1>1 DEF HandleDatabaseResult, HandleFound, HandleNotFound, HandleInsertLost,
     HandleInserted, HandleTransitioned, HandleTransitionConflict, ConvergeAfterConflict,
     HandleLoggedResult, workerVars
<1>2. CASE \/ \E req \in Requests : HandleSourceRequest(req)
           \/ \E i \in Ids, ack \in AckStatus : HandleDeviceAck(i, ack)
           \/ \E i \in Ids, k \in Slots : HandlePublishCompletion(i, k)
           \/ RetryDeferredTransitions \/ StartScan \/ \E i \in Ids : Scan(i)
  BY <1>2 DEF HandleSourceRequest, HandleDeviceAck, HandlePublishCompletion,
     RetryDeferredTransitions, StartScan, Scan, workerVars
<1>3. CASE \/ CallCycleHook \/ \E d \in Devices : OnTargetOnline(d) \/ DeviceGoesOffline(d)
           \/ WaitForNextCheck \/ \E i \in Ids : DeadlinePasses(i)
           \/ MqttThread \/ UNCHANGED vars
  BY <1>3 DEF CallCycleHook, OnTargetOnline, DeviceGoesOffline, WaitForNextCheck,
     DeadlinePasses, MqttThread, OutsideMqtt, vars, databaseVars, workerVars
<1>4. CASE DatabaseThread
  BY <1>4 DEF DatabaseThread, WorkerRunsCommand, WorkerCommandFails,
     WorkerLosesConnection, WorkerReconnects, WorkerGivesUp, GivesUp, workerVars,
     OutsideDatabase, serviceVars, environmentVars, historyVars
<1> QED
  BY <1>1, <1>2, <1>3, <1>4 DEF Next, BusinessThread

(* Every step keeps an accepting worker free of dropped insertions. *)
LEMMA DroppedInvStep ==
  ASSUME DroppedInv, [Next]_vars
  PROVE  DroppedInv'
<1>1. CASE CrashAndRestart
  BY <1>1 DEF CrashAndRestart, DroppedInv
<1>2. CASE ~CrashAndRestart
  BY <1>2, DroppedStep DEF DroppedInv, WorkerGivesUp
<1> QED
  BY <1>1, <1>2

(* An active command stops being active when a result that is terminal is  *)
(* told, or at a restart.                                                  *)
LEMMA ActiveEnds ==
  ASSUME TypeInv, [Next]_vars, ~CrashAndRestart, NEW id \in Ids
  PROVE  /\ crashes' = crashes
         /\ (active[id].status # "none" /\ active'[id].status = "none") =>
              /\ Consumes /\ Head(dbr).out = "row" /\ Head(dbr).rid = id
              /\ IsTerminal(Head(dbr).st) /\ told'[id] = Head(dbr).st
<1>1. /\ active \in [Ids -> [status : ActiveStatus \cup {"none"}, dl : Nat]]
      /\ told \in [Ids -> RowStatus]
  BY DEF TypeInv, TypeOK
<1>2. CASE HandleInserted \/ HandleTransitioned \/ ConvergeAfterConflict
  <2>1. Consumes /\ Head(dbr).out = "row" /\ crashes' = crashes /\ Head(dbr).rid \in Ids
    BY <1>2, HeadTypes DEF HandleInserted, HandleTransitioned, ConvergeAfterConflict, NextResult,
       Consumes, environmentVars
  <2>2. Head(dbr).st # "none"
    BY <2>1, HeadTypes DEF ResultOK, CommandStatus, ActiveStatus, TerminalStatus, Consumes
  <2>3. \/ /\ IsTerminal(Head(dbr).st)
           /\ active[Head(dbr).rid].status # "none" =>
                told' = [told EXCEPT ![Head(dbr).rid] = Head(dbr).st]
           /\ active' = [active EXCEPT ![Head(dbr).rid] = Inactive]
        \/ active' = active
        \/ \E dl : active' = [active EXCEPT ![Head(dbr).rid] = [status |-> Head(dbr).st, dl |-> dl]]
    BY <1>2, <2>1 DEF HandleInserted, HandleTransitioned, ConvergeAfterConflict, Forget,
       PublishAck, WasActive, Active
  <2>4. id # Head(dbr).rid => active'[id] = active[id]
    BY <1>1, <2>3
  <2>5. ASSUME id = Head(dbr).rid, active'[id].status = "none", active[id].status # "none"
        PROVE  IsTerminal(Head(dbr).st) /\ told'[id] = Head(dbr).st
    <3>1. ~ \E dl : active' = [active EXCEPT ![id] = [status |-> Head(dbr).st, dl |-> dl]]
      <4> SUFFICES ASSUME NEW dl, active' = [active EXCEPT ![id] = [status |-> Head(dbr).st, dl |-> dl]]
                   PROVE  active'[id].status = Head(dbr).st
        BY <2>2, <2>5
      <4> QED
        BY StatusSet
    <3>2. active' # active
      BY <2>5
    <3> QED
      BY <1>1, <2>3, <2>5, <3>1, <3>2
  <2> QED
    BY <2>1, <2>4, <2>5
<1>5. CASE /\ HandleDatabaseResult
           /\ ~(HandleInserted \/ HandleTransitioned \/ ConvergeAfterConflict)
  BY <1>5 DEF HandleDatabaseResult, HandleFound, HandleNotFound, HandleInsertLost,
     HandleTransitionConflict, HandleLoggedResult, serviceVars, environmentVars
<1>6. CASE \/ \E req \in Requests : HandleSourceRequest(req)
           \/ \E i \in Ids, ack \in AckStatus : HandleDeviceAck(i, ack)
           \/ \E i \in Ids, k \in Slots : HandlePublishCompletion(i, k)
           \/ RetryDeferredTransitions \/ StartScan \/ \E i \in Ids : Scan(i)
  BY <1>6 DEF HandleSourceRequest, HandleDeviceAck, HandlePublishCompletion,
     RetryDeferredTransitions, StartScan, Scan, serviceVars, environmentVars
<1>7. CASE \/ CallCycleHook \/ \E d \in Devices : OnTargetOnline(d) \/ DeviceGoesOffline(d)
           \/ WaitForNextCheck \/ \E i \in Ids : DeadlinePasses(i)
  BY <1>7 DEF CallCycleHook, OnTargetOnline, DeviceGoesOffline, WaitForNextCheck,
     DeadlinePasses, serviceVars, environmentVars
<1>8. CASE DatabaseThread \/ MqttThread \/ UNCHANGED vars
  BY <1>8 DEF DatabaseThread, MqttThread, OutsideDatabase, OutsideMqtt, vars,
     serviceVars, environmentVars
<1> QED
  BY <1>2, <1>5, <1>6, <1>7, <1>8 DEF Next, BusinessThread, HandleDatabaseResult

(* Only a handler of results takes one. *)
LEMMA TakenByHandler ==
  ASSUME TypeInv, [Next]_vars, ~CrashAndRestart, Consumes
  PROVE  HandleDatabaseResult
<1>1. dbr \in Seq(Result)
  BY DEF TypeInv, TypeOK
<1>2. dbr' # dbr
  BY <1>1, TailElements DEF Consumes
<1>3. CASE \/ \E req \in Requests : HandleSourceRequest(req)
           \/ \E i \in Ids, ack \in AckStatus : HandleDeviceAck(i, ack)
           \/ \E i \in Ids, k \in Slots : HandlePublishCompletion(i, k)
           \/ RetryDeferredTransitions \/ StartScan \/ \E i \in Ids : Scan(i)
  BY <1>2, <1>3 DEF HandleSourceRequest, HandleDeviceAck, HandlePublishCompletion,
     RetryDeferredTransitions, StartScan, Scan
<1>4. CASE \/ CallCycleHook \/ \E d \in Devices : OnTargetOnline(d) \/ DeviceGoesOffline(d)
           \/ WaitForNextCheck \/ \E i \in Ids : DeadlinePasses(i)
           \/ MqttThread \/ UNCHANGED vars
  BY <1>2, <1>4 DEF CallCycleHook, OnTargetOnline, DeviceGoesOffline, WaitForNextCheck,
     DeadlinePasses, MqttThread, OutsideMqtt, vars, databaseVars
<1>5. CASE DatabaseThread
  <2>1. \/ dbr' = dbr
        \/ \E r \in Result : dbr' = Append(dbr, r)
    <3>1. dbq # <<>> => Head(dbq) \in Task /\ TaskOK(Head(dbq))
      BY TailElements DEF TypeInv, TypeOK, QueuesOK
    <3>2. dbq # <<>> => /\ Answer(Head(dbq)) \in Result
                        /\ Unanswered(Head(dbq), "failed") \in Result
      BY <3>1, AnswerTypes DEF Unanswered, Result, RowStatus
    <3> QED
      BY <1>5, <3>2 DEF DatabaseThread, WorkerRunsCommand, WorkerCommandFails,
         WorkerLosesConnection, WorkerReconnects, WorkerGivesUp
  <2>2. Len(dbr') = Len(dbr) - 1 /\ Len(dbr) \in Nat
    BY <1>1, TailElements DEF Consumes
  <2> QED
    BY <1>1, <1>2, <2>1, <2>2, AppendElements
<1> QED
  BY <1>3, <1>4, <1>5 DEF Next, BusinessThread

(* The result of an insertion is handled: the command is active, or its    *)
(* result was told.                                                        *)
LEMMA InsertTaken ==
  ASSUME TypeInv, [Next]_vars, ~CrashAndRestart, NEW id \in Ids, Consumes,
         StoredBy(Head(dbr), id)
  PROVE  \/ active'[id].status # "none"
         \/ IsTerminal(Head(dbr).st) /\ told'[id] = Head(dbr).st
<1>1. /\ active \in [Ids -> [status : ActiveStatus \cup {"none"}, dl : Nat]]
      /\ told \in [Ids -> RowStatus]
  BY DEF TypeInv, TypeOK
<1>2. HandleInserted
  BY TakenByHandler DEF HandleDatabaseResult, HandleFound, HandleNotFound, HandleInsertLost,
     HandleTransitioned, HandleTransitionConflict, ConvergeAfterConflict, HandleLoggedResult,
     NextResult, StoredBy
<1>3. Head(dbr).st # "none"
  BY HeadTypes DEF ResultOK, CommandStatus, ActiveStatus, TerminalStatus, StoredBy, Consumes
<1>4. \/ /\ IsTerminal(Head(dbr).st)
         /\ told' = [told EXCEPT ![id] = Head(dbr).st]
      \/ \E dl : active' = [active EXCEPT ![id] = [status |-> Head(dbr).st, dl |-> dl]]
  BY <1>2 DEF HandleInserted, PublishAck, StoredBy
<1> QED
  BY <1>1, <1>3, <1>4

(* While the connection never breaks, an insertion that is queued has not  *)
(* been executed.                                                          *)
LEMMA AheadStep ==
  ASSUME TypeInv, OrderInv, OnceInv, InsertIsAhead, [Next]_vars
  PROVE  InsertIsAhead'
<1> SUFFICES ASSUME "db" \notin Faults, NEW i \in 1 .. Len(dbq'), dbq'[i].kind = "insert"
             PROVE  row'[dbq'[i].id] = "absent"
  BY DEF InsertIsAhead
<1>1. /\ dbq \in Seq(Task) /\ dbr \in Seq(Result) /\ row \in [Ids -> RowStatus]
      /\ \A j \in 1 .. Len(dbq) : dbq[j].kind = "insert" => row[dbq[j].id] = "absent"
  BY DEF TypeInv, TypeOK, InsertIsAhead
<1>2. CASE Quiet \/ Handles
  <2>1. row' = row /\ QueueGrows
    BY <1>2 DEF Quiet, Handles
  <2>2. PICK j \in 1 .. Len(dbq) : dbq'[i] = dbq[j]
    BY <1>1, <2>1, AppendElements DEF QueueGrows
  <2> QED
    BY <1>1, <2>1, <2>2
<1>3. CASE Generates
  <2>1. PICK id \in Ids, status \in {"pending", "failed"} :
          /\ info[id] = NoRequest /\ row' = row
          /\ dbq' = dbq \/ dbq' = Append(dbq, InsertTask(id, status))
    BY <1>3 DEF Generates
  <2> DEFINE t == InsertTask(id, status)
  <2>2. t \in Task /\ t.id = id
    BY TaskTypes DEF InsertTask
  <2>3. dbq' = dbq \/ dbq' = Append(dbq, t)
    BY <2>1
  <2> HIDE DEF t
  <2>4. dbq'[i] = t \/ \E j \in 1 .. Len(dbq) : dbq'[i] = dbq[j]
    BY <1>1, <2>2, <2>3, AppendElements
  <2> QED
    BY <1>1, <2>1, <2>2, <2>4 DEF OrderInv, FreshIsAbsent
<1>4. CASE Executes
  <2>1. CASE row' = row
    <3>1. dbq' = dbq \/ (dbq # <<>> /\ dbq' = Tail(dbq))
      BY <1>4 DEF Executes
    <3>2. PICK j \in 1 .. Len(dbq) : dbq'[i] = dbq[j]
      <4>1. CASE dbq # <<>> /\ dbq' = Tail(dbq)
        <5>1. i \in 1 .. Len(dbq) - 1
          BY <1>1, <4>1, TailElements
        <5> QED
          BY <1>1, <4>1, <5>1, TailElements
      <4> QED
        BY <3>1, <4>1
    <3> QED
      BY <1>1, <2>1, <3>2
  <2>2. CASE row' # row
    <3>1. dbq # <<>> /\ row' \in Table(Head(dbq)) /\ dbq' = Tail(dbq)
      BY <1>4, <2>2 DEF Executes
    <3>2. /\ i + 1 \in 1 .. Len(dbq) /\ dbq'[i] = dbq[i + 1] /\ Head(dbq) = dbq[1]
          /\ 1 \in 1 .. Len(dbq) /\ Len(dbq') = Len(dbq) - 1
      BY <1>1, <3>1, TailElements
    <3> DEFINE id == dbq[i + 1].id
    <3>3. id \in Ids /\ row[id] = "absent" /\ dbq[i + 1].kind = "insert"
      BY <1>1, <3>2 DEF TypeInv, QueuesOK, TaskOK
    <3>4. ~(Head(dbq).kind = "insert" /\ Head(dbq).id = id)
      <4>1. Len(dbr) \in Nat /\ Len(dbq) \in Nat
        BY <1>1
      <4>2. /\ Len(dbr) + 1 \in 1 .. Ops /\ Op(Len(dbr) + 1) = dbq[1]
        BY <3>2, <4>1 DEF Ops, Op
      <4>3. /\ Len(dbr) + (i + 1) \in 1 .. Ops /\ Op(Len(dbr) + (i + 1)) = dbq[i + 1]
        BY <3>2, <4>1 DEF Ops, Op
      <4>4. Len(dbr) + 1 # Len(dbr) + (i + 1)
        BY <3>2, <4>1
      <4> QED
        BY <3>2, <3>3, <4>2, <4>3, <4>4 DEF OnceInv, InsertsDiffer
    <3> HIDE DEF id
    <3>5. row'[id] \notin CommandStatus
      <4>1. row[id] \notin CommandStatus
        BY <3>3 DEF CommandStatus, ActiveStatus, TerminalStatus
      <4> QED
        BY <3>1, <3>3, <3>4, <4>1, NewRow
    <3>6. row'[id] # "gone" /\ row'[id] \in RowStatus
      <4>1. dbq[i + 1].id = id
        BY DEF id
      <4> QED
        BY <3>1, <3>2, <3>3, <4>1, TableIsLater
    <3> QED
      BY <3>2, <3>5, <3>6 DEF id, RowStatus
  <2> QED
    BY <2>1, <2>2
<1>5. CASE Restarts \/ GivesUp
  BY <1>5 DEF Restarts, GivesUp
<1> QED
  BY <1>2, <1>3, <1>4, <1>5, StepKinds

(* An insertion that is executed while its row exists, or that makes it,   *)
(* returns this row.                                                       *)
LEMMA InsertFindsItself ==
  ASSUME TypeInv, OrderInv, KeysDiffer, dbq # <<>>, Head(dbq).kind = "insert",
         NEW table \in Table(Head(dbq)), table[Head(dbq).id] \in CommandStatus
  PROVE  StoredBy(Answer(Head(dbq)), Head(dbq).id)
<1> DEFINE t == Head(dbq)
<1>1. t \in Task /\ TaskOK(t) /\ info[t.id] # NoRequest /\ t.id \in Ids
  BY TailElements DEF TypeInv, TypeOK, QueuesOK, OrderInv, InsertHasRequest, TaskOK
<1>2. \A i, st : /\ Answered(t, i, st).task = t /\ Answered(t, i, st).rid = i
                 /\ Answered(t, i, st).out = "row"
  BY DEF Answered
<1>3. CASE KeyOfInsert(t) = {}
  <2>1. Answer(t) = Answered(t, t.id, t.to)
    BY <1>3, AnswerCases
  <2> QED
    BY <1>2, <2>1 DEF StoredBy
<1>4. CASE KeyOfInsert(t) # {}
  <2> DEFINE c == CHOOSE i \in KeyOfInsert(t) : TRUE
  <2>1. Answer(t) = Answered(t, c, row[c])
    BY <1>4, AnswerCases
  <2>1a. table = row
    BY <1>4, TableCases
  <2>2. c \in KeyOfInsert(t)
    BY <1>4
  <2> HIDE DEF c
  <2>3. t.id \in KeyOfInsert(t)
    BY <1>1, <2>1a DEF KeyOfInsert, WithKey, Generated, Present
  <2>4. c = t.id
    BY <2>2, <2>3 DEF KeysDiffer, KeyOfInsert, WithKey
  <2> QED
    BY <1>2, <2>1, <2>4 DEF StoredBy
<1> QED
  BY <1>3, <1>4

(* How an insertion under way ends. *)
LEMMA InsertingStep ==
  ASSUME TypeInv, [Next]_vars, ~CrashAndRestart, NEW id \in Ids, Inserting(id)
  PROVE  \/ Inserting(id)' \/ id \in dropped'
         \/ Consumes /\ StoredBy(Head(dbr), id)
         \/ /\ dbq # <<>> /\ Head(dbq).kind = "insert" /\ Head(dbq).id = id
            /\ \/ row' \in Table(Head(dbq)) /\ ~StoredBy(Answer(Head(dbq)), id)
               \/ "sql" \in Faults /\ row' = row
<1>1. dbq \in Seq(Task) /\ dbr \in Seq(Result)
  BY DEF TypeInv, TypeOK
<1>2. CASE Quiet \/ Handles \/ Generates
  <2>1. /\ dbq' = dbq \/ \E t \in Task : dbq' = Append(dbq, t)
        /\ dbr' = dbr \/ Consumes
    <3>1. CASE Generates
      BY <3>1, TaskTypes DEF Generates, Consumes
    <3> QED
      BY <1>2, <3>1 DEF Quiet, Handles, QueueGrows, Consumes
  <2>2. \A i \in 1 .. Len(dbq) : i \in 1 .. Len(dbq') /\ dbq'[i] = dbq[i]
    BY <1>1, <2>1, AppendElements
  <2>3. ASSUME NEW i \in 1 .. Len(dbr)
        PROVE  \/ \E j \in 1 .. Len(dbr') : dbr'[j] = dbr[i]
               \/ Consumes /\ dbr[i] = Head(dbr)
    <3>1. CASE dbr' = dbr
      BY <3>1
    <3>2. CASE Consumes /\ i = 1
      BY <1>1, <3>2, TailElements DEF Consumes
    <3>3. CASE Consumes /\ i # 1
      <4>1. i - 1 \in 1 .. Len(dbr) - 1 /\ (i - 1) + 1 = i
        BY <1>1, <3>3
      <4>2. i - 1 \in 1 .. Len(dbr') /\ dbr'[i - 1] = dbr[(i - 1) + 1]
        BY <1>1, <3>3, <4>1, TailElements DEF Consumes
      <4> QED
        BY <4>1, <4>2
    <3> QED
      BY <2>1, <3>1, <3>2, <3>3
  <2>4. CASE \E i \in 1 .. Len(dbq) : dbq[i].kind = "insert" /\ dbq[i].id = id
    BY <2>2, <2>4 DEF Inserting
  <2>5. CASE \E i \in 1 .. Len(dbr) : StoredBy(dbr[i], id)
    <3>1. PICK i \in 1 .. Len(dbr) : StoredBy(dbr[i], id)
      BY <2>5
    <3> QED
      BY <2>3, <3>1 DEF Inserting, StoredBy
  <2> QED
    BY <2>4, <2>5 DEF Inserting
<1>3. CASE Executes
  <2>1. CASE UNCHANGED <<dbq, dbr>>
    BY <2>1 DEF Inserting, StoredBy
  <2>2. CASE dbq # <<>> /\ dbq' = Tail(dbq)
    <3>1. /\ Head(dbq) \in Task /\ TaskOK(Head(dbq)) /\ Head(dbq) = dbq[1]
          /\ \A i \in 1 .. Len(dbq) - 1 : i \in 1 .. Len(dbq') /\ dbq'[i] = dbq[i + 1]
      BY <1>1, <2>2, TailElements DEF TypeInv, QueuesOK
    <3>2. PICK r \in Result : /\ dbr' = Append(dbr, r)
                              /\ \/ r = Answer(Head(dbq)) /\ row' \in Table(Head(dbq))
                                 \/ "sql" \in Faults /\ row' = row
      <4>1. Answer(Head(dbq)) \in Result /\ Unanswered(Head(dbq), "failed") \in Result
        BY <3>1, AnswerTypes DEF Unanswered, Result, RowStatus
      <4>2. dbq' # dbq
        BY <1>1, <2>2, TailElements
      <4> QED
        BY <1>3, <2>2, <4>1, <4>2 DEF Executes
    <3>3. /\ \A i \in 1 .. Len(dbr) : i \in 1 .. Len(dbr') /\ dbr'[i] = dbr[i]
          /\ Len(dbr) + 1 \in 1 .. Len(dbr') /\ dbr'[Len(dbr) + 1] = r
      BY <1>1, <3>2, AppendElements
    <3>4. CASE \E i \in 1 .. Len(dbr) : StoredBy(dbr[i], id)
      BY <3>3, <3>4 DEF Inserting, StoredBy
    <3>5. ASSUME NEW i \in 1 .. Len(dbq), i # 1, dbq[i].kind = "insert", dbq[i].id = id
          PROVE  Inserting(id)'
      <4>1. i - 1 \in 1 .. Len(dbq) - 1 /\ (i - 1) + 1 = i
        BY <1>1, <3>5
      <4>2. i - 1 \in 1 .. Len(dbq') /\ dbq'[i - 1] = dbq[i]
        BY <3>1, <4>1
      <4> QED
        BY <3>5, <4>2 DEF Inserting
    <3>6. CASE Head(dbq).kind = "insert" /\ Head(dbq).id = id
      <4>1. StoredBy(r, id) => Inserting(id)'
        BY <3>3 DEF Inserting, StoredBy
      <4> QED
        BY <2>2, <3>2, <3>6, <4>1
    <3> QED
      BY <3>1, <3>4, <3>5, <3>6 DEF Inserting
  <2> QED
    BY <1>3, <2>1, <2>2 DEF Executes
<1>4. CASE GivesUp /\ WorkerGivesUp
  <2>1. dbr' = dbr /\ dropped' = {dbq[i].id : i \in InsertsQueued}
    BY <1>4 DEF GivesUp, WorkerGivesUp
  <2>2. ASSUME NEW i \in 1 .. Len(dbq), dbq[i].kind = "insert", dbq[i].id = id
        PROVE  id \in dropped'
    BY <2>1, <2>2 DEF InsertsQueued
  <2> QED
    BY <2>1, <2>2 DEF Inserting, StoredBy
<1> QED
  BY <1>2, <1>3, <1>4, StepKinds

(* A command whose terminal result was handled and told is not open. *)
LEMMA ToldIsClosed ==
  ASSUME TypeInv, OrderInv, [Next]_vars, ~CrashAndRestart, NEW id \in Ids, Consumes,
         Head(dbr).out = "row", Head(dbr).rid = id,
         IsTerminal(Head(dbr).st), told'[id] = Head(dbr).st
  PROVE  ~Open(id)'
<1>1. Later(Head(dbr).st, row[id])
  BY TailElements DEF TypeInv, TypeOK, OrderInv, SnapshotIsBetween, Consumes
<1>2. row' = row
  <2>1. dbr' # dbr /\ \A r \in Result : dbr' # Append(dbr, r)
    BY TailElements, AppendElements DEF Consumes, TypeInv, TypeOK
  <2>2. dbq # <<>> => Head(dbq) \in Task /\ TaskOK(Head(dbq))
    BY TailElements DEF TypeInv, TypeOK, QueuesOK
  <2>3. dbq # <<>> => /\ Answer(Head(dbq)) \in Result
                      /\ Unanswered(Head(dbq), "failed") \in Result
    BY <2>2, AnswerTypes DEF Unanswered, Result, RowStatus
  <2>4. ~(Executes /\ row' # row)
    BY <2>1, <2>3 DEF Executes
  <2> QED
    BY <2>4, StepKinds DEF Quiet, Handles, Generates, GivesUp
<1>3. row'[id] = told'[id] \/ row'[id] = "gone"
  BY <1>1, <1>2 DEF Later, IsTerminal, TerminalStatus
<1>4. row'[id] \notin ActiveStatus
  BY <1>3 DEF IsTerminal, TerminalStatus, ActiveStatus
<1>5. row'[id] = "gone" => ~IsTerminal(row'[id])
  BY DEF IsTerminal, TerminalStatus
<1> QED
  BY <1>3, <1>4, <1>5 DEF Open

(* A command becomes open when its row is inserted. *)
LEMMA BecomesOpen ==
  ASSUME TypeInv, OrderInv, KeysDiffer, [Next]_vars, ~CrashAndRestart, NEW id \in Ids,
         ~Open(id), Open(id)'
  PROVE  Inserting(id)'
<1>1. row \in [Ids -> RowStatus] /\ crashes' = crashes
  BY ActiveEnds DEF TypeInv, TypeOK
<1>2. row'[id] \in CommandStatus
  BY DEF Open, IsTerminal, CommandStatus
<1>3. row[id] \notin CommandStatus
  <2> SUFFICES ASSUME row[id] \in CommandStatus PROVE FALSE
    OBVIOUS
  <2>1. IsTerminal(row[id]) /\ (crashes = 0 => told[id] = row[id])
    BY DEF Open, IsTerminal, CommandStatus
  <2>2. row'[id] = row[id]
    BY <1>2, <2>1, RowStep DEF Later, IsTerminal, CommandStatus, ActiveStatus, TerminalStatus
  <2>3. IsTerminal(told[id]) => told'[id] = told[id]
    BY ToldStep DEF Later, IsTerminal, CommandStatus, ActiveStatus, TerminalStatus
  <2>4. row'[id] \notin ActiveStatus
    BY <2>1, <2>2 DEF IsTerminal, TerminalStatus, ActiveStatus
  <2> QED
    BY <1>1, <2>1, <2>2, <2>3, <2>4 DEF Open
<1>4. Executes
  BY <1>2, <1>3, StepKinds DEF Quiet, Handles, Generates, GivesUp
<1>5. dbq # <<>> /\ row' \in Table(Head(dbq))
  BY <1>2, <1>3, <1>4 DEF Executes
<1>6. Head(dbq).kind = "insert" /\ Head(dbq).id = id
  BY <1>2, <1>3, <1>5, NewRow
<1>7. CASE UNCHANGED dbq
  <2>1. 1 \in 1 .. Len(dbq) /\ Head(dbq) = dbq[1]
    BY <1>5, TailElements DEF TypeInv, TypeOK
  <2> QED
    BY <1>6, <1>7, <2>1 DEF Inserting
<1>8. CASE dbr' = Append(dbr, Answer(Head(dbq)))
  <2>1. StoredBy(Answer(Head(dbq)), id)
    BY <1>2, <1>5, <1>6, InsertFindsItself
  <2>2. Answer(Head(dbq)) \in Result
    BY <1>5, AnswerTypes, TailElements DEF TypeInv, TypeOK, QueuesOK
  <2>3. Len(dbr) + 1 \in 1 .. Len(dbr') /\ dbr'[Len(dbr) + 1] = Answer(Head(dbq))
    BY <1>8, <2>2, AppendElements DEF TypeInv, TypeOK
  <2> QED
    BY <2>1, <2>3 DEF Inserting, StoredBy
<1> QED
  BY <1>2, <1>3, <1>4, <1>7, <1>8 DEF Executes

(* A restart loads every unfinished config command. *)
LEMMA RestartSupervises ==
  ASSUME TypeInv, OrderInv, CrashAndRestart, NEW id \in Ids, Open(id)'
  PROVE  active'[id].status # "none"
<1>1. crashes' # 0
  BY DEF CrashAndRestart, TypeInv, TypeOK
<1>2. row'[id] \in ActiveStatus
  BY <1>1 DEF Open
<1>3. row[id] \in ActiveStatus /\ TypeOf(id) # "control"
  BY <1>2 DEF CrashAndRestart, Unfinished, ActiveStatus
<1>4. info[id] \in Requests
  BY <1>3 DEF OrderInv, FreshIsAbsent, TypeInv, TypeOK, ActiveStatus
<1>5. TypeOf(id) = "config"
  BY <1>3, <1>4, DatabaseAssumption DEF TypeOf, Requests
<1>6. active'[id] = [status |-> row[id], dl |-> 0]
  BY <1>3, <1>5 DEF CrashAndRestart, LoadActive, Unfinished
<1> QED
  BY <1>3, <1>6 DEF ActiveStatus

(* Every step keeps open commands supervised. *)
LEMMA SupervisedStep ==
  ASSUME NoLostInsert, TypeInv, OrderInv, KeyInv, InsertIsAhead, DroppedInv, SupervisedInv,
         [Next]_vars
  PROVE  SupervisedInv'
<1> SUFFICES ASSUME NEW id \in Ids, Open(id)', ~CrashAndRestart
             PROVE  active'[id].status # "none" \/ Inserting(id)' \/ id \in dropped'
  BY RestartSupervises DEF SupervisedInv
<1>1. CASE ~Open(id)
  BY <1>1, BecomesOpen DEF KeyInv
<1>2. CASE active[id].status # "none"
  BY <1>2, ActiveEnds, ToldIsClosed
<1>3. CASE Inserting(id)
  <2>1. CASE Consumes /\ StoredBy(Head(dbr), id)
    <3>1. Head(dbr).out = "row" /\ Head(dbr).rid = id
      BY <2>1 DEF StoredBy
    <3> QED
      BY <2>1, <3>1, InsertTaken, ToldIsClosed
  <2>2. CASE /\ dbq # <<>> /\ Head(dbq).kind = "insert" /\ Head(dbq).id = id
             /\ row' \in Table(Head(dbq)) /\ ~StoredBy(Answer(Head(dbq)), id)
    <3>1. row'[id] \in CommandStatus
      BY DEF Open, IsTerminal, CommandStatus
    <3> QED
      BY <2>2, <3>1, InsertFindsItself DEF KeyInv
  <2>3. CASE /\ dbq # <<>> /\ Head(dbq).kind = "insert" /\ Head(dbq).id = id
             /\ "sql" \in Faults /\ row' = row
    <3>1. row[id] = "absent"
      BY <2>3, TailElements DEF NoLostInsert, InsertIsAhead, TypeInv, TypeOK
    <3> QED
      BY <2>3, <3>1 DEF Open, IsTerminal, ActiveStatus, TerminalStatus
  <2> QED
    BY <1>3, <2>1, <2>2, <2>3, InsertingStep
<1>4. CASE id \in dropped
  BY <1>4, DroppedStep DEF DroppedInv, WorkerGivesUp
<1> QED
  BY <1>1, <1>2, <1>3, <1>4 DEF SupervisedInv

(* Open commands are supervised at any time. *)
LEMMA SupervisedHolds ==
  NoLostInsert => (Spec => [](TypeInv /\ SupervisedInv))
<1> SUFFICES ASSUME NoLostInsert PROVE Spec => [](TypeInv /\ SupervisedInv)
  OBVIOUS
<1>1. Init => OnceInv /\ InsertIsAhead /\ DroppedInv /\ SupervisedInv
  <2>1. Init => InsertIsAhead /\ DroppedInv /\ SupervisedInv
    BY DEF Init, DatabaseInit, InsertIsAhead, DroppedInv, SupervisedInv, Open, IsTerminal,
       ActiveStatus, TerminalStatus
  <2> QED
    BY <2>1, OnceInit
<1>2. (/\ TypeInv /\ OrderInv /\ KeyInv /\ OnceInv /\ InsertIsAhead /\ DroppedInv
       /\ SupervisedInv /\ [Next]_vars)
        => OnceInv' /\ InsertIsAhead' /\ DroppedInv' /\ SupervisedInv'
  BY OnceStep, AheadStep, DroppedInvStep, SupervisedStep
<1> QED
  BY <1>1, <1>2, KeyHolds, PTL DEF Spec

(* For every number of requests, outages and crashes: an unfinished row is *)
(* watched by the running service or about to be, unless its insertion was *)
(* dropped by a worker that gave up.  The restart's load and every handler *)
(* that forgets a command are covered.                                     *)
THEOREM UnfinishedStaysSupervised ==
  NoLostInsert => (Spec => []UnfinishedIsSupervised)
<1> SUFFICES ASSUME NoLostInsert PROVE Spec => []UnfinishedIsSupervised
  OBVIOUS
<1>1. SupervisedInv => UnfinishedIsSupervised
  BY DEF SupervisedInv, Open, Inserting, StoredBy, UnfinishedIsSupervised, Unfinished, Active,
     OperationOn
<1> QED
  BY <1>1, SupervisedHolds, PTL

(* A stored result reaches the source: while the process lives, a finished *)
(* command that nothing is under way for was answered with its result,     *)
(* unless its insertion was dropped by a worker that gave up.              *)
THEOREM SettledWasTold == NoLostInsert => (Spec => []SettledIsTold)
<1> SUFFICES ASSUME NoLostInsert PROVE Spec => []SettledIsTold
  OBVIOUS
<1>1. SupervisedInv => SettledIsTold
  BY DEF SupervisedInv, Open, Inserting, StoredBy, SettledIsTold, Active, OperationOn
<1> QED
  BY <1>1, SupervisedHolds, PTL

-------------------------------------------------------------------------------
(* One result per command.  Until the result of its insertion is handled a *)
(* command is used nowhere: it is not active, nothing is published or      *)
(* deferred for it and no other operation works on it.  So an insertion    *)
(* that runs twice cannot report a result that was told before.            *)
Untouched(id) ==
    /\ active[id].status = "none" /\ id \notin scan
    /\ deferred[id] = NothingDeferred
    /\ \A k \in Slots : pubs[id][k].st = "free"

Idle(id) == Untouched(id) /\ verdicts[id] = 0

UnusedInv ==
    /\ \A id \in Ids : info[id] = NoRequest =>
         Idle(id) /\ \A i \in 1 .. Ops : Op(i).id # id
    /\ \A i \in 1 .. Ops : Op(i).kind = "insert" =>
         Idle(Op(i).id) /\ \A j \in 1 .. Ops : j # i => Op(j).id # Op(i).id

(* A transition or a second look returns the row of its own command. *)
OwnRow ==
    \A i \in 1 .. Len(dbr) :
       (dbr[i].out = "row" /\ dbr[i].task.kind \in {"transition", "findById"})
         => dbr[i].rid = dbr[i].task.id

(* How a step changes the results: all of them move k places forward, and  *)
(* at most one follows, the answer of the first task or its failure.       *)
ResultsMove(k) ==
    \A i \in 1 .. Len(dbr') :
       \/ i + k \in 1 .. Len(dbr) /\ dbr'[i] = dbr[i + k]
       \/ /\ i = Len(dbr') /\ dbq # <<>>
          /\ \/ dbr'[i] = Answer(Head(dbq)) /\ row' \in Table(Head(dbq))
             \/ dbr'[i] = Unanswered(Head(dbq), "failed")

(* Every step moves the results. *)
LEMMA ResultsStep ==
  ASSUME TypeInv, [Next]_vars
  PROVE  (Consumes => ResultsMove(1)) /\ (~Consumes => ResultsMove(0))
<1>1. dbq \in Seq(Task) /\ dbr \in Seq(Result) /\ Len(dbr) \in Nat
  BY DEF TypeInv, TypeOK
<1>2. CASE Consumes
  <2>1. Len(dbr') = Len(dbr) - 1 /\ \A i \in 1 .. Len(dbr) - 1 :
          dbr'[i] = dbr[i + 1] /\ i + 1 \in 1 .. Len(dbr)
    BY <1>1, <1>2, TailElements DEF Consumes
  <2> QED
    BY <1>2, <2>1 DEF ResultsMove
<1>3. CASE dbr' = dbr
  <2>1. ~Consumes
    BY <1>1, <1>3, TailElements DEF Consumes
  <2> QED
    BY <1>1, <1>3, <2>1 DEF ResultsMove
<1>4. ASSUME NEW r \in Result, dbr' = Append(dbr, r), dbq # <<>>,
             \/ r = Answer(Head(dbq)) /\ row' \in Table(Head(dbq))
             \/ r = Unanswered(Head(dbq), "failed")
      PROVE  ResultsMove(0) /\ ~Consumes
  <2>1. /\ Len(dbr') = Len(dbr) + 1 /\ dbr'[Len(dbr) + 1] = r
        /\ \A i \in 1 .. Len(dbr) : dbr'[i] = dbr[i]
    BY <1>1, <1>4, AppendElements
  <2>2. ~Consumes
    BY <1>1, <2>1, TailElements DEF Consumes
  <2>3. ASSUME NEW i \in 1 .. Len(dbr')
        PROVE  \/ i + 0 \in 1 .. Len(dbr) /\ dbr'[i] = dbr[i + 0]
               \/ i = Len(dbr') /\ dbr'[i] = r
    BY <1>1, <2>1
  <2> QED
    BY <1>4, <2>2, <2>3 DEF ResultsMove
<1>5. CASE Executes
  <2>1. dbq # <<>> => Head(dbq) \in Task /\ TaskOK(Head(dbq))
    BY <1>1, TailElements DEF TypeInv, QueuesOK
  <2>2. dbq # <<>> => /\ Answer(Head(dbq)) \in Result
                      /\ Unanswered(Head(dbq), "failed") \in Result
    BY <2>1, AnswerTypes DEF Unanswered, Result, RowStatus
  <2> QED
    BY <1>3, <1>4, <1>5, <2>2 DEF Executes
<1>6. CASE Restarts
  BY <1>6 DEF Restarts, ResultsMove
<1> QED
  BY <1>2, <1>3, <1>5, <1>6, StepKinds DEF Quiet, Handles, Generates, GivesUp, Consumes

(* What a statement that works on one command answers of it: its own row,  *)
(* and a transition one that was not finished before.                      *)
LEMMA AnswerOwn ==
  ASSUME TypeInv, NEW t \in Task, TaskOK(t), Answer(t).out = "row",
         t.kind \in {"transition", "findById"}
  PROVE  Answer(t).rid = t.id /\ (t.kind = "transition" => row[t.id] \in ActiveStatus)
<1>1. \A out : Unanswered(t, out).out = out
  BY DEF Unanswered
<1>2. \A id, st : Answered(t, id, st).rid = id
  BY DEF Answered
<1>3. CASE t.kind = "transition"
  <2>1. Answer(t) = IF ~CanTransition(t.from, t.to) THEN Unanswered(t, "failed")
                    ELSE IF row[t.id] = t.from THEN Answered(t, t.id, t.to)
                    ELSE Unanswered(t, "conflict")
    BY <1>3, AnswerCases
  <2>2. CanTransition(t.from, t.to) /\ row[t.id] = t.from /\ Answer(t) = Answered(t, t.id, t.to)
    BY <1>1, <2>1
  <2> QED
    BY <1>2, <2>2, TransitionIsLater
<1>4. CASE t.kind = "findById"
  <2>1. Answer(t) = Answered(t, t.id, row[t.id])
    BY <1>1, <1>4, AnswerCases
  <2> QED
    BY <1>2, <1>4, <2>1
<1> QED
  BY <1>3, <1>4

(* Every step keeps the rows of the results their own. *)
LEMMA OwnRowStep ==
  ASSUME TypeInv, OwnRow, [Next]_vars
  PROVE  OwnRow'
<1> SUFFICES ASSUME NEW i \in 1 .. Len(dbr'), dbr'[i].out = "row",
                    dbr'[i].task.kind \in {"transition", "findById"}
             PROVE  dbr'[i].rid = dbr'[i].task.id
  BY DEF OwnRow
<1>1. PICK k \in {0, 1} : ResultsMove(k)
  BY ResultsStep
<1>2. CASE i + k \in 1 .. Len(dbr) /\ dbr'[i] = dbr[i + k]
  BY <1>2 DEF OwnRow
<1>3. CASE dbq # <<>> /\ dbr'[i] = Answer(Head(dbq))
  <2>1. Head(dbq) \in Task /\ TaskOK(Head(dbq))
    BY <1>3, TailElements DEF TypeInv, TypeOK, QueuesOK
  <2>2. Answer(Head(dbq)).task = Head(dbq)
    BY <2>1, AnswerTypes
  <2> QED
    BY <1>3, <2>1, <2>2, AnswerOwn
<1>4. CASE dbr'[i] = Unanswered(Head(dbq), "failed")
  BY <1>4 DEF Unanswered
<1> QED
  BY <1>1, <1>2, <1>3, <1>4 DEF ResultsMove

(* What a step leaves alone of a command it is not about. *)
NoTaskOf(id) ==
    \/ dbq' = dbq \/ dbq' = <<>>
    \/ dbq # <<>> /\ dbq' = Tail(dbq)
    \/ \E t \in Task : /\ t.id # id \/ (t.kind = "insert" /\ FreshInsert(t))
                      /\ dbq' = Append(dbq, t)

SubmitsFor(i) ==
    \/ dbq' = dbq
    \/ \E t \in Task : t.id = i /\ t.kind = "transition" /\ dbq' = Append(dbq, t)

(* SubmitTransitionOrDefer is about one command. *)
LEMMA SubmitFrame ==
  ASSUME TypeInv, NEW i \in Ids, NEW from \in Carried, NEW to \in Carried, NEW dl \in Nat,
         SubmitTransitionOrDefer(i, from, to, dl)
  PROVE  SubmitsFor(i) /\ \A id \in Ids : id # i => deferred'[id] = deferred[id]
<1>1. /\ TransitionTask(i, from, to, dl) \in Task /\ TransitionTask(i, from, to, dl).id = i
      /\ TransitionTask(i, from, to, dl).kind = "transition"
  BY TaskTypes DEF TransitionTask
<1>2. SubmitsFor(i)
  BY <1>1 DEF SubmitTransitionOrDefer, SubmitsFor
<1>3. deferred \in [Ids -> [from : CommandStatus \cup {"none"},
                            to : CommandStatus \cup {"none"}, dl : Nat]]
  BY DEF TypeInv, TypeOK
<1>4. \E d : deferred' = [deferred EXCEPT ![i] = d]
  BY DEF SubmitTransitionOrDefer
<1> QED
  BY <1>2, <1>3, <1>4

(* PublishRecord is about one command. *)
LEMMA PublishFrame ==
  ASSUME TypeInv, NEW i \in Ids, NEW status \in Carried, NEW dl \in Nat,
         PublishRecord(i, status, dl)
  PROVE  /\ SubmitsFor(i)
         /\ \A id \in Ids : id # i => deferred'[id] = deferred[id] /\ pubs'[id] = pubs[id]
<1>1. pubs \in [Ids -> [Slots -> Publication]]
  BY DEF TypeInv, TypeOK
<1>2. CASE UNCHANGED <<dbq, deferred>>
  <2>1. pubs' = pubs \/ \E f : pubs' = [pubs EXCEPT ![i] = f]
    BY DEF PublishRecord, PublishCommandSet, PublishCommandSetRefused
  <2> QED
    BY <1>1, <1>2, <2>1 DEF SubmitsFor
<1>3. CASE PublishCommandSetRefused /\ SubmitTransitionOrDefer(i, status, "failed", dl)
  <2>1. "failed" \in Carried /\ UNCHANGED pubs
    BY <1>3 DEF Carried, CommandStatus, TerminalStatus, PublishCommandSetRefused
  <2> QED
    BY <1>3, <2>1, SubmitFrame
<1> QED
  BY <1>2, <1>3 DEF PublishRecord

(* An ack that is applied is about one command. *)
LEMMA ApplyFrame ==
  ASSUME TypeInv, NEW i \in Ids, NEW status \in Carried, NEW dl \in Nat,
         NEW ack \in AckStatus, ApplyDeviceAck(i, status, dl, ack)
  PROVE  SubmitsFor(i) /\ \A id \in Ids : id # i => deferred'[id] = deferred[id]
<1>1. DesiredAfter(ack) \in Carried
  BY DEF DesiredAfter, AckStatus, Carried, CommandStatus, ActiveStatus, TerminalStatus
<1>2. passed[i] \in Nat
  BY DEF TypeInv, TypeOK
<1>3. (IF ack = "in_progress" THEN Extended(i, dl) ELSE dl) \in Nat
  BY <1>2 DEF Extended
<1> QED
  BY <1>1, <1>3, SubmitFrame DEF ApplyDeviceAck

(* What is submitted for another command is not for this one. *)
LEMMA ForAnother ==
  ASSUME NEW i, NEW id, i # id, SubmitsFor(i)
  PROVE  NoTaskOf(id)
  BY DEF SubmitsFor, NoTaskOf

(* The result that is taken tells of its own command. *)
LEMMA HeadIsOwn ==
  ASSUME TypeInv, OwnRow, dbr # <<>>, Head(dbr).out = "row",
         Head(dbr).task.kind \in {"transition", "findById"}
  PROVE  Head(dbr).rid = Head(dbr).task.id
  BY TailElements DEF TypeInv, TypeOK, OwnRow

(* A result of another command leaves a command as it is. *)
LEMMA ResultFrame ==
  ASSUME TypeInv, OwnRow, HandleDatabaseResult, NEW id \in Ids, Head(dbr).task.id # id
  PROVE  /\ active'[id] = active[id] /\ deferred'[id] = deferred[id]
         /\ pubs'[id] = pubs[id]
         /\ UNCHANGED scan /\ NoTaskOf(id)
<1>1. active \in [Ids -> [status : ActiveStatus \cup {"none"}, dl : Nat]]
  BY DEF TypeInv, TypeOK
<1>2. CASE HandleFound \/ HandleInsertLost \/ HandleLoggedResult
  BY <1>2 DEF HandleFound, HandleInsertLost, HandleLoggedResult, serviceVars, mqttVars,
     threadVars, NoTaskOf
<1>3. CASE HandleNotFound
  <2>1. /\ UNCHANGED active /\ UNCHANGED deferred /\ UNCHANGED pubs /\ UNCHANGED scan
    BY <1>3 DEF HandleNotFound, serviceVars, mqttVars, threadVars
  <2>2. Generates
    <3>1. ~Handles \/ info' = info
      BY DEF Handles
    <3>2. info' # info
      <4>1. Head(dbr).task.kind = "find" /\ dbr # <<>>
        BY <1>3 DEF HandleNotFound, NextResult
      <4>2. Head(dbr).task.req \in Requests
        BY <4>1, HeadTypes DEF ResultOK, TaskOK
      <4>3. PICK i \in Ids : /\ \A j \in Ids : info[j] = NoRequest <=> j >= i
                             /\ info' = [info EXCEPT ![i] = Head(dbr).task.req]
        BY <1>3 DEF HandleNotFound
      <4>4. info[i] = NoRequest
        BY <4>3 DEF Ids
      <4> QED
        BY <4>2, <4>3, <4>4, DatabaseAssumption DEF TypeInv, TypeOK
    <3> QED
      BY <3>1, <3>2, ResultKinds
  <2>3. PICK i \in Ids, req \in Requests, status \in {"pending", "failed"} :
          /\ info[i] = NoRequest
          /\ info' = [info EXCEPT ![i] = req]
          /\ dbq' = dbq \/ dbq' = Append(dbq, InsertTask(i, status))
    BY <2>2 DEF Generates
  <2> DEFINE t == InsertTask(i, status)
  <2>4. t \in Task /\ t.id = i /\ t.kind = "insert"
    BY TaskTypes DEF InsertTask
  <2>5. dbq' = dbq \/ dbq' = Append(dbq, t)
    BY <2>3
  <2> HIDE DEF t
  <2>6. FreshInsert(t)
    BY <2>3, <2>4, DatabaseAssumption DEF FreshInsert, TypeInv, TypeOK
  <2>7. NoTaskOf(id)
    BY <2>4, <2>5, <2>6 DEF NoTaskOf
  <2> QED
    BY <2>1, <2>7
<1>4. CASE HandleInserted
  <2> DEFINE i == Head(dbr).task.id
  <2>1. dbr # <<>> /\ Head(dbr).out = "row" /\ Head(dbr).task.kind = "insert"
        /\ Head(dbr).rid = i /\ UNCHANGED scan
    BY <1>4 DEF HandleInserted, NextResult, threadVars
  <2>2. i \in Ids /\ Head(dbr).st \in Carried /\ Head(dbr).task.dl \in Nat
    BY <2>1, HeadTypes
  <2>3. \E a : active' = [active EXCEPT ![i] = a]
    BY <1>4 DEF HandleInserted, Forget
  <2>4. \/ UNCHANGED <<dbq, pubs, deferred>>
        \/ PublishRecord(i, Head(dbr).st, Head(dbr).task.dl)
    BY <1>4 DEF HandleInserted
  <2> HIDE DEF i
  <2>5. i # id
    BY DEF i
  <2>6. /\ SubmitsFor(i) /\ deferred'[id] = deferred[id] /\ pubs'[id] = pubs[id]
    BY <2>2, <2>4, <2>5, PublishFrame DEF SubmitsFor
  <2>7. NoTaskOf(id)
    BY <2>5, <2>6, ForAnother
  <2> QED
    BY <1>1, <2>1, <2>3, <2>5, <2>6, <2>7
<1>5. CASE HandleTransitioned
  <2> DEFINE i == Head(dbr).rid
  <2>1. dbr # <<>> /\ Head(dbr).out = "row" /\ Head(dbr).task.kind = "transition"
        /\ UNCHANGED scan /\ UNCHANGED pubs
    BY <1>5 DEF HandleTransitioned, NextResult, threadVars, mqttVars
  <2>2. i \in Ids /\ Head(dbr).st \in Carried /\ Head(dbr).task.dl \in Nat
    BY <2>1, HeadTypes
  <2>3. \E a : active' = [active EXCEPT ![i] = a]
    BY <1>5 DEF HandleTransitioned, Forget
  <2>4. \/ UNCHANGED <<dbq, deferred>>
        \/ /\ early[i] # "none"
           /\ ApplyDeviceAck(i, Head(dbr).st, Head(dbr).task.dl, early[i])
    BY <1>5 DEF HandleTransitioned, EarlyAckWaits
  <2>5. i # id
    BY <2>1, HeadIsOwn
  <2> HIDE DEF i
  <2>6. SubmitsFor(i) /\ deferred'[id] = deferred[id]
    BY <2>2, <2>4, <2>5, ApplyFrame, ReadTypes DEF SubmitsFor
  <2>7. NoTaskOf(id)
    BY <2>5, <2>6, ForAnother
  <2> QED
    BY <1>1, <2>1, <2>3, <2>5, <2>6, <2>7
<1>6. CASE HandleTransitionConflict
  <2> DEFINE i == Head(dbr).task.id
             f == FindByIdTask(i, Head(dbr).task.to, Head(dbr).task.dl)
  <2>1. dbr # <<>> /\ Head(dbr).task.kind = "transition"
    BY <1>6 DEF HandleTransitionConflict, NextResult
  <2>2. /\ UNCHANGED active /\ UNCHANGED deferred /\ UNCHANGED pubs /\ UNCHANGED scan
    BY <1>6 DEF HandleTransitionConflict, mqttVars, threadVars
  <2>3. f \in Task /\ f.id = i
    BY <2>1, HeadTypes, TaskTypes DEF FindByIdTask
  <2>4. dbq' = dbq \/ dbq' = Append(dbq, f)
    BY <1>6 DEF HandleTransitionConflict
  <2> HIDE DEF f
  <2>5. NoTaskOf(id)
    BY <2>3, <2>4 DEF NoTaskOf
  <2> QED
    BY <2>2, <2>5
<1>7. CASE ConvergeAfterConflict
  <2> DEFINE i == Head(dbr).rid
  <2>1. dbr # <<>> /\ Head(dbr).out = "row" /\ Head(dbr).task.kind = "findById"
        /\ UNCHANGED scan /\ UNCHANGED pubs
    BY <1>7 DEF ConvergeAfterConflict, NextResult, threadVars, mqttVars
  <2>2. i \in Ids /\ Head(dbr).st \in Carried /\ Head(dbr).task.dl \in Nat
        /\ Head(dbr).task.to \in Carried
    BY <2>1, HeadTypes
  <2>3. active' = active \/ \E a : active' = [active EXCEPT ![i] = a]
    BY <1>7 DEF ConvergeAfterConflict, Forget
  <2>4. \/ UNCHANGED <<dbq, deferred>>
        \/ SubmitTransitionOrDefer(i, Head(dbr).st, Head(dbr).task.to, Head(dbr).task.dl)
    BY <1>7 DEF ConvergeAfterConflict
  <2>5. i # id
    BY <2>1, HeadIsOwn
  <2> HIDE DEF i
  <2>6. SubmitsFor(i) /\ deferred'[id] = deferred[id]
    BY <2>2, <2>4, <2>5, SubmitFrame DEF SubmitsFor
  <2>7. NoTaskOf(id)
    BY <2>5, <2>6, ForAnother
  <2> QED
    BY <1>1, <2>1, <2>3, <2>5, <2>6, <2>7
<1> QED
  BY <1>2, <1>3, <1>4, <1>5, <1>6, <1>7 DEF HandleDatabaseResult

(* An untouched command stays untouched until its own result is handled, and no task *)
(* is submitted for it.                                                    *)
LEMMA UntouchedStep ==
  ASSUME TypeInv, OwnRow, [Next]_vars, ~CrashAndRestart, NEW id \in Ids, Untouched(id),
         ~(Consumes /\ Head(dbr).task.id = id)
  PROVE  Untouched(id)' /\ NoTaskOf(id)
<1>1. /\ active[id].status = "none" /\ id \notin scan
      /\ deferred[id] = NothingDeferred /\ \A k \in Slots : pubs[id][k].st = "free"
  BY DEF Untouched
<1>2. CASE HandleDatabaseResult
  <2>1. Consumes
    BY <1>2, ResultKinds DEF Handles, Generates, Consumes
  <2>2. Head(dbr).task.id # id
    BY <2>1
  <2> QED
    BY <1>1, <1>2, <2>2, ResultFrame DEF Untouched
<1>3. ASSUME NEW req \in Requests, HandleSourceRequest(req)
      PROVE  Untouched(id)' /\ NoTaskOf(id)
  <2>1. FindTask(req) \in Task /\ FindTask(req).id # id
    BY TaskTypes DEF FindTask, NoId, Ids
  <2>2. NoTaskOf(id)
    BY <1>3, <2>1 DEF HandleSourceRequest, NoTaskOf
  <2>3. Untouched(id)'
    BY <1>1, <1>3 DEF HandleSourceRequest, Untouched, serviceVars, mqttVars, threadVars, historyVars
  <2> QED
    BY <2>2, <2>3
<1>4. ASSUME NEW i \in Ids, NEW ack \in AckStatus, HandleDeviceAck(i, ack)
      PROVE  Untouched(id)' /\ NoTaskOf(id)
  <2>1. i # id
    BY <1>1, <1>4 DEF HandleDeviceAck, Active
  <2>2. \/ UNCHANGED <<dbq, deferred>>
        \/ ApplyDeviceAck(i, active[i].status, active[i].dl, ack)
    BY <1>4 DEF HandleDeviceAck
  <2>3. SubmitsFor(i) /\ deferred'[id] = deferred[id]
    BY <2>1, <2>2, ApplyFrame, ReadTypes DEF SubmitsFor
  <2>4. UNCHANGED <<active, scan, pubs>>
    BY <1>4 DEF HandleDeviceAck, mqttVars, threadVars, historyVars
  <2> QED
    BY <1>1, <2>1, <2>3, <2>4, ForAnother DEF Untouched
<1>5. ASSUME NEW i \in Ids, NEW k \in Slots, HandlePublishCompletion(i, k)
      PROVE  Untouched(id)' /\ NoTaskOf(id)
  <2>1. i # id
    BY <1>1, <1>5 DEF HandlePublishCompletion
  <2>2. \/ UNCHANGED <<dbq, deferred>>
        \/ \E to \in {"dispatched", "delivery_uncertain", "failed"} :
             SubmitTransitionOrDefer(i, pubs[i][k].prev, to, pubs[i][k].dl)
    BY <1>5 DEF HandlePublishCompletion
  <2>3. SubmitsFor(i) /\ deferred'[id] = deferred[id]
    BY <2>1, <2>2, SubmitFrame, ReadTypes DEF SubmitsFor
  <2>4. UNCHANGED <<active, scan>>
    BY <1>5 DEF HandlePublishCompletion, threadVars, historyVars
  <2>5. pubs'[id] = pubs[id]
    BY <1>5, <2>1 DEF HandlePublishCompletion, TypeInv, TypeOK
  <2> QED
    BY <1>1, <2>1, <2>3, <2>4, <2>5, ForAnother DEF Untouched
<1>6. CASE RetryDeferredTransitions
  <2>1. UNCHANGED <<active, scan, pubs>>
    BY <1>6 DEF RetryDeferredTransitions, mqttVars, historyVars
  <2>2. CASE UNCHANGED <<dbq, deferred>>
    BY <1>1, <2>1, <2>2 DEF Untouched, NoTaskOf
  <2>3. CASE ~UNCHANGED <<dbq, deferred>>
    <3>1. PICK i \in Ids : /\ deferred[i] # NothingDeferred
                           /\ SubmitTransitionOrDefer(i, deferred[i].from, deferred[i].to,
                                                      deferred[i].dl)
      BY <1>6, <2>3 DEF RetryDeferredTransitions
    <3>2. i # id
      BY <1>1, <3>1
    <3>3. SubmitsFor(i) /\ deferred'[id] = deferred[id]
      BY <3>1, <3>2, SubmitFrame, ReadTypes
    <3> QED
      BY <1>1, <2>1, <3>2, <3>3, ForAnother DEF Untouched
  <2> QED
    BY <2>2, <2>3
<1>7. CASE StartScan
  <2>1. CleanupTask \in Task /\ CleanupTask.id # id
    BY TaskTypes DEF CleanupTask, NoId, Ids
  <2>2. NoTaskOf(id)
    BY <1>7, <2>1 DEF StartScan, NoTaskOf
  <2>3. UNCHANGED <<active, deferred, pubs>> /\ scan' = Active
    BY <1>7 DEF StartScan, serviceVars, mqttVars, historyVars
  <2> QED
    BY <1>1, <2>2, <2>3 DEF Untouched, Active
<1>8. ASSUME NEW i \in Ids, Scan(i)
      PROVE  Untouched(id)' /\ NoTaskOf(id)
  <2>1. i # id /\ scan' = scan \ {i} /\ UNCHANGED <<active>>
    BY <1>1, <1>8 DEF Scan, historyVars
  <2>2. \/ UNCHANGED <<dbq, deferred, pubs>>
        \/ /\ SubmitTransitionOrDefer(i, active[i].status, "timeout", active[i].dl)
           /\ UNCHANGED pubs
        \/ PublishRecord(i, active[i].status, active[i].dl)
    BY <1>8 DEF Scan, ScanTimesOut, ScanRepublishes, ScanSkips
  <2>3. SubmitsFor(i) /\ deferred'[id] = deferred[id] /\ pubs'[id] = pubs[id]
    BY <2>1, <2>2, SubmitFrame, PublishFrame, ReadTypes DEF SubmitsFor
  <2> QED
    BY <1>1, <2>1, <2>3, ForAnother DEF Untouched
<1>9. CASE \/ CallCycleHook \/ \E d \in Devices : OnTargetOnline(d) \/ DeviceGoesOffline(d)
           \/ WaitForNextCheck \/ \E i \in Ids : DeadlinePasses(i) \/ UNCHANGED vars
  <2>1. UNCHANGED <<active, scan, deferred, pubs, dbq>>
    BY <1>9 DEF CallCycleHook, OnTargetOnline, DeviceGoesOffline, WaitForNextCheck,
       DeadlinePasses, vars, databaseVars, mqttVars, serviceVars, threadVars, historyVars
  <2> QED
    BY <1>1, <2>1 DEF Untouched, NoTaskOf
<1>10. CASE DatabaseThread
  <2>1. UNCHANGED <<active, scan, deferred, pubs>>
    BY <1>10 DEF DatabaseThread, OutsideDatabase, mqttVars, serviceVars, threadVars, historyVars
  <2>2. NoTaskOf(id)
    BY <1>10 DEF DatabaseThread, WorkerRunsCommand, WorkerCommandFails, WorkerLosesConnection,
       WorkerReconnects, WorkerGivesUp, NoTaskOf
  <2> QED
    BY <1>1, <2>1, <2>2 DEF Untouched
<1>11. CASE MqttThread
  <2>1. UNCHANGED <<active, scan, deferred, dbq>>
    BY <1>11 DEF MqttThread, OutsideMqtt, databaseVars, serviceVars, threadVars, historyVars
  <2>2. pubs \in [Ids -> [Slots -> Publication]]
    BY DEF TypeInv, TypeOK
  <2>3. ASSUME NEW k \in Slots
        PROVE  pubs'[id][k] = pubs[id][k]
    <3>1. ASSUME NEW i \in Ids, NEW j \in Slots, BrokerCompletes(i, j)
          PROVE  pubs'[id][k] = pubs[id][k]
      <4>1. ~(i = id /\ j = k)
        BY <1>1, <3>1 DEF BrokerCompletes
      <4> QED
        BY <2>2, <3>1, <4>1 DEF BrokerCompletes
    <3>2. CASE MqttDisconnects \/ MqttConnects
      BY <1>1, <3>2 DEF MqttDisconnects, MqttConnects
    <3> QED
      BY <1>11, <3>1, <3>2 DEF MqttThread
  <2> QED
    BY <1>1, <2>1, <2>3 DEF Untouched, NoTaskOf
<1> QED
  BY <1>2, <1>3, <1>4, <1>5, <1>6, <1>7, <1>8, <1>9, <1>10, <1>11 DEF Next, BusinessThread

(* A result that makes the service answer the source with a verdict (or    *)
(* would, of an active command), and one that must come after no other.    *)
Shows(r, id) == /\ r.out = "row" /\ r.task.kind \in {"insert", "transition", "findById"}
                /\ r.task.id = id /\ r.rid = id /\ IsTerminal(r.st)
Finishes(r, id) == Shows(r, id) /\ r.task.kind # "findById"

(* How a verdict is counted. *)
LEMMA VerdictStep ==
  ASSUME TypeInv, OwnRow, [Next]_vars, NEW id \in Ids
  PROVE  \/ verdicts'[id] = verdicts[id]
         \/ /\ Consumes /\ Shows(Head(dbr), id) /\ HandleDatabaseResult
            /\ Finishes(Head(dbr), id) \/ active[id].status # "none"
            /\ told'[id] = Head(dbr).st /\ active'[id].status = "none"
            /\ verdicts'[id] = IF verdicts[id] = 0 THEN 1 ELSE 2
<1>1. /\ active \in [Ids -> [status : ActiveStatus \cup {"none"}, dl : Nat]]
      /\ verdicts \in [Ids -> 0 .. 2] /\ told \in [Ids -> RowStatus]
  BY DEF TypeInv, TypeOK
<1>2. ASSUME NEW i \in Ids, Consumes, Shows(Head(dbr), i), HandleDatabaseResult,
             Finishes(Head(dbr), i) \/ active[i].status # "none",
             PublishAck(i, Head(dbr).st), CountVerdict(i), Forget(i)
      PROVE  \/ verdicts'[id] = verdicts[id]
             \/ /\ Consumes /\ Shows(Head(dbr), id) /\ HandleDatabaseResult
                /\ Finishes(Head(dbr), id) \/ active[id].status # "none"
                /\ told'[id] = Head(dbr).st /\ active'[id].status = "none"
                /\ verdicts'[id] = IF verdicts[id] = 0 THEN 1 ELSE 2
  <2>1. CASE i # id
    BY <1>1, <1>2, <2>1 DEF CountVerdict
  <2>2. CASE i = id
    <3>1. verdicts'[id] = IF verdicts[id] = 0 THEN 1 ELSE 2
      BY <1>1, <1>2, <2>2 DEF CountVerdict
    <3>2. told'[id] = Head(dbr).st
      BY <1>1, <1>2, <2>2 DEF PublishAck
    <3>3. active'[id].status = "none"
      BY <1>1, <1>2, <2>2 DEF Forget, Inactive
    <3> QED
      BY <1>2, <2>2, <3>1, <3>2, <3>3
  <2> QED
    BY <2>1, <2>2
<1>3. CASE HandleInserted
  <2> DEFINE i == Head(dbr).task.id
  <2>1. Consumes /\ Head(dbr).out = "row" /\ Head(dbr).task.kind = "insert"
        /\ Head(dbr).rid = i
    BY <1>3 DEF HandleInserted, NextResult, Consumes
  <2>2. i \in Ids
    BY <2>1, HeadTypes DEF Consumes
  <2>3. \/ verdicts' = verdicts
        \/ /\ IsTerminal(Head(dbr).st)
           /\ PublishAck(i, Head(dbr).st) /\ CountVerdict(i) /\ Forget(i)
    BY <1>3 DEF HandleInserted, historyVars
  <2>4. HandleDatabaseResult
    BY <1>3 DEF HandleDatabaseResult
  <2>5. IsTerminal(Head(dbr).st) => Finishes(Head(dbr), i)
    BY <2>1 DEF Finishes, Shows
  <2> HIDE DEF i
  <2> QED
    BY <1>2, <2>1, <2>2, <2>3, <2>4, <2>5 DEF Finishes
<1>4. CASE HandleTransitioned
  <2> DEFINE i == Head(dbr).rid
  <2>1. Consumes /\ Head(dbr).out = "row" /\ Head(dbr).task.kind = "transition"
    BY <1>4 DEF HandleTransitioned, NextResult, Consumes
  <2>2. i \in Ids /\ Head(dbr).task.id = i
    BY <2>1, HeadTypes, HeadIsOwn DEF Consumes
  <2>3. \/ verdicts' = verdicts
        \/ /\ IsTerminal(Head(dbr).st)
           /\ PublishAck(i, Head(dbr).st) /\ CountVerdict(i) /\ Forget(i)
    BY <1>4 DEF HandleTransitioned
  <2>4. HandleDatabaseResult
    BY <1>4 DEF HandleDatabaseResult
  <2>5. IsTerminal(Head(dbr).st) => Finishes(Head(dbr), i)
    BY <2>1, <2>2 DEF Finishes, Shows
  <2> HIDE DEF i
  <2> QED
    BY <1>2, <2>1, <2>2, <2>3, <2>4, <2>5 DEF Finishes
<1>5. CASE ConvergeAfterConflict
  <2> DEFINE i == Head(dbr).rid
  <2>1. Consumes /\ Head(dbr).out = "row" /\ Head(dbr).task.kind = "findById"
    BY <1>5 DEF ConvergeAfterConflict, NextResult, Consumes
  <2>2. i \in Ids /\ Head(dbr).task.id = i
    BY <2>1, HeadTypes, HeadIsOwn DEF Consumes
  <2>3. \/ verdicts' = verdicts
        \/ /\ IsTerminal(Head(dbr).st) /\ active[i].status # "none"
           /\ PublishAck(i, Head(dbr).st) /\ CountVerdict(i) /\ Forget(i)
    BY <1>5 DEF ConvergeAfterConflict, WasActive, Active, historyVars
  <2>4. HandleDatabaseResult
    BY <1>5 DEF HandleDatabaseResult
  <2>5. IsTerminal(Head(dbr).st) => Shows(Head(dbr), i)
    BY <2>1, <2>2 DEF Shows
  <2> HIDE DEF i
  <2> QED
    BY <1>2, <2>1, <2>2, <2>3, <2>4, <2>5
<1>6. CASE /\ HandleDatabaseResult
           /\ ~(HandleInserted \/ HandleTransitioned \/ ConvergeAfterConflict)
  BY <1>6 DEF HandleDatabaseResult, HandleFound, HandleNotFound, HandleInsertLost,
     HandleTransitionConflict, HandleLoggedResult, historyVars
<1>7. CASE \/ \E req \in Requests : HandleSourceRequest(req)
           \/ \E i \in Ids, ack \in AckStatus : HandleDeviceAck(i, ack)
           \/ \E i \in Ids, k \in Slots : HandlePublishCompletion(i, k)
           \/ RetryDeferredTransitions \/ StartScan \/ \E i \in Ids : Scan(i)
  BY <1>7 DEF HandleSourceRequest, HandleDeviceAck, HandlePublishCompletion,
     RetryDeferredTransitions, StartScan, Scan, historyVars
<1>8. CASE \/ CallCycleHook \/ \E d \in Devices : OnTargetOnline(d) \/ DeviceGoesOffline(d)
           \/ WaitForNextCheck \/ \E i \in Ids : DeadlinePasses(i) \/ CrashAndRestart
  BY <1>8 DEF CallCycleHook, OnTargetOnline, DeviceGoesOffline, WaitForNextCheck,
     DeadlinePasses, CrashAndRestart, historyVars
<1>9. CASE DatabaseThread \/ MqttThread \/ UNCHANGED vars
  BY <1>9 DEF DatabaseThread, MqttThread, OutsideDatabase, OutsideMqtt, vars, historyVars
<1> QED
  BY <1>3, <1>4, <1>5, <1>6, <1>7, <1>8, <1>9 DEF Next, BusinessThread, HandleDatabaseResult

(* An idle command stays idle, too. *)
LEMMA IdleStep ==
  ASSUME TypeInv, OwnRow, [Next]_vars, ~CrashAndRestart, NEW id \in Ids, Idle(id),
         ~(Consumes /\ Head(dbr).task.id = id)
  PROVE  Idle(id)' /\ NoTaskOf(id)
<1>1. Untouched(id)' /\ NoTaskOf(id)
  BY UntouchedStep DEF Idle
<1>2. verdicts'[id] = 0
  BY VerdictStep DEF Idle, Shows
<1> QED
  BY <1>1, <1>2 DEF Idle

(* The same element was appended. *)
LEMMA AppendOnce ==
  ASSUME NEW S, NEW s \in Seq(S), NEW a \in S, NEW b
  PROVE  /\ Append(s, b) = Append(s, a) => b = a
         /\ Append(s, b) # s
         /\ s # <<>> => Append(s, b) # Tail(s)
<1>1. Len(Append(s, b)) = Len(s) + 1 /\ Append(s, b)[Len(s) + 1] = b /\ Len(s) \in Nat
  OBVIOUS
<1>2. Append(s, a)[Len(s) + 1] = a
  BY AppendElements
<1>3. s # <<>> => Len(Tail(s)) = Len(s) - 1
  BY TailElements
<1> QED
  BY <1>1, <1>2, <1>3

(* A task that was appended is not of a command no task was submitted for. *)
LEMMA AppendedIsOther ==
  ASSUME TypeInv, NEW id, NoTaskOf(id), NEW t, dbq' = Append(dbq, t)
  PROVE  t.id # id \/ (t.kind = "insert" /\ FreshInsert(t))
<1>1. dbq \in Seq(Task)
  BY DEF TypeInv, TypeOK
<1>2. PICK u \in Task : (u.id # id \/ (u.kind = "insert" /\ FreshInsert(u))) /\ dbq' = Append(dbq, u)
  BY <1>1, AppendOnce DEF NoTaskOf
<1>3. t = u
  BY <1>1, <1>2, AppendOnce
<1> QED
  BY <1>2, <1>3

(* Every step keeps the commands unused until they are inserted. *)
LEMMA UnusedStep ==
  ASSUME TypeInv, OrderInv, OwnRow, UnusedInv, [Next]_vars, ~CrashAndRestart
  PROVE  UnusedInv'
<1>1. Ops \in Nat /\ Ops' \in Nat
  <2>1. TypeInv'
    BY TypeStep
  <2> QED
    BY <2>1 DEF TypeInv, TypeOK, Ops
<1>2. PICK k \in {0, 1} : OpsMove(k) /\ (Consumes => k = 1)
  BY OpsStep
<1>3. ASSUME NEW i \in 1 .. Ops
      PROVE  Op(i).kind = "insert" => Op(i).id \in Ids /\ info[Op(i).id] # NoRequest
  <2>1. Len(dbr) \in Nat /\ Len(dbq) \in Nat
    BY DEF TypeInv, TypeOK
  <2>2. TaskOK(Op(i))
    BY <2>1 DEF TypeInv, QueuesOK, ResultOK, Ops, Op
  <2> QED
    BY <2>2 DEF TaskOK, UnusedInv
<1>4. ASSUME NEW id \in Ids, info[id] = NoRequest
      PROVE  Idle(id)' /\ NoTaskOf(id)
  <2>1. Idle(id) /\ \A i \in 1 .. Ops : Op(i).id # id
    BY <1>4 DEF UnusedInv
  <2>2. ~(Consumes /\ Head(dbr).task.id = id)
    BY <2>1, HeadIsFirstOp
  <2> QED
    BY <2>1, <2>2, IdleStep
<1>5. ASSUME NEW id \in Ids, info'[id] = NoRequest
      PROVE  Idle(id)' /\ \A i \in 1 .. Ops' : Op(i)'.id # id
  <2>1. info[id] = NoRequest
    BY <1>5, InfoStep
  <2>2. Idle(id)' /\ NoTaskOf(id)
    BY <1>4, <2>1
  <2>3. ASSUME NEW i \in 1 .. Ops'
        PROVE  Op(i)'.id # id
    <3>1. CASE i + k \in 1 .. Ops /\ Op(i)' = Op(i + k)
      BY <2>1, <3>1 DEF UnusedInv
    <3>2. CASE dbq' = Append(dbq, Op(i)')
      BY <1>5, <2>2, <3>2, AppendedIsOther DEF FreshInsert
    <3> QED
      BY <1>2, <3>1, <3>2 DEF OpsMove
  <2> QED
    BY <2>2, <2>3
<1>6. ASSUME NEW i \in 1 .. Ops', Op(i)'.kind = "insert", NEW id, id = Op(i)'.id
      PROVE  Idle(id)' /\ \A j \in 1 .. Ops' : j # i => Op(j)'.id # id
  <2>1. CASE i + k \in 1 .. Ops /\ Op(i)' = Op(i + k)
    <3>1. /\ id \in Ids /\ info[id] # NoRequest /\ Idle(id)
          /\ \A j \in 1 .. Ops : j # i + k => Op(j).id # id
      BY <1>3, <1>6, <2>1 DEF UnusedInv
    <3>2. ~(Consumes /\ Head(dbr).task.id = id)
      <4> SUFFICES ASSUME Consumes, Head(dbr).task.id = id PROVE FALSE
        OBVIOUS
      <4>1. k = 1 /\ 1 \in 1 .. Ops /\ Op(1) = Head(dbr).task
        BY <1>2, HeadIsFirstOp
      <4>2. 1 # i + k
        BY <4>1
      <4> QED
        BY <3>1, <4>1, <4>2
    <3>3. Idle(id)' /\ NoTaskOf(id)
      BY <3>1, <3>2, IdleStep
    <3>4. ASSUME NEW j \in 1 .. Ops', j # i
          PROVE  Op(j)'.id # id
      <4>1. CASE j + k \in 1 .. Ops /\ Op(j)' = Op(j + k)
        <5>1. j + k # i + k
          BY <3>4
        <5> QED
          BY <3>1, <4>1, <5>1
      <4>2. CASE dbq' = Append(dbq, Op(j)')
        BY <3>1, <3>3, <4>2, AppendedIsOther DEF FreshInsert
      <4> QED
        BY <1>2, <4>1, <4>2 DEF OpsMove
    <3> QED
      BY <3>3, <3>4
  <2>2. CASE i = Ops' /\ FreshInsert(Op(i)')
    <3>1. id \in Ids /\ info[id] = NoRequest
      BY <1>6, <2>2 DEF FreshInsert
    <3>2. Idle(id)' /\ \A j \in 1 .. Ops : Op(j).id # id
      BY <1>4, <3>1 DEF UnusedInv
    <3>3. ASSUME NEW j \in 1 .. Ops', j # i
          PROVE  Op(j)'.id # id
      BY <1>2, <2>2, <3>2, <3>3 DEF OpsMove
    <3> QED
      BY <3>2, <3>3
  <2> QED
    BY <1>2, <1>6, <2>1, <2>2 DEF OpsMove
<1> QED
  BY <1>5, <1>6 DEF UnusedInv, Idle, Untouched

(* A restart loads no command that was never stored. *)
LEMMA UnusedRestart ==
  ASSUME TypeInv, OrderInv, UnusedInv, CrashAndRestart
  PROVE  UnusedInv'
<1>1. Ops' = 0
  BY DEF CrashAndRestart, Ops
<1> SUFFICES ASSUME NEW id \in Ids, info[id] = NoRequest PROVE Idle(id)'
  BY <1>1 DEF UnusedInv, CrashAndRestart
<1>2. row[id] = "absent" /\ verdicts[id] = 0
  BY DEF OrderInv, FreshIsAbsent, UnusedInv, Idle
<1>3. active'[id] = Inactive
  BY <1>2 DEF CrashAndRestart, LoadActive, Unfinished, ActiveStatus
<1>4. deferred'[id] = NothingDeferred /\ scan' = {} /\ verdicts'[id] = 0
  BY <1>2 DEF CrashAndRestart, historyVars
<1>5. \A k \in Slots : pubs'[id][k] = FreeSlot
  BY DEF CrashAndRestart
<1> QED
  BY <1>3, <1>4, <1>5 DEF Idle, Untouched, Inactive, FreeSlot

VerdictInv ==
    /\ OneVerdict
    /\ \A id \in Ids : verdicts[id] > 0 =>
         /\ IsTerminal(told[id]) /\ active[id].status = "none"
         /\ \A i \in 1 .. Len(dbr) : ~Finishes(dbr[i], id)
    /\ \A id \in Ids : \A i, j \in 1 .. Len(dbr) :
         (i < j /\ Shows(dbr[i], id)) => ~Finishes(dbr[j], id)

(* An answer that finishes a command is of a transition, which found the   *)
(* row unfinished, or of the insertion, before anything else happened to   *)
(* the command.                                                            *)
LEMMA FinishStep ==
  ASSUME TypeInv, UnusedInv, dbq # <<>>, NEW id \in Ids, Finishes(Answer(Head(dbq)), id)
  PROVE  \/ row[id] \in ActiveStatus
         \/ verdicts[id] = 0 /\ \A i \in 1 .. Len(dbr) : dbr[i].task.id # id
<1>1. dbq \in Seq(Task) /\ dbr \in Seq(Result) /\ Len(dbq) \in Nat /\ Len(dbr) \in Nat
  BY DEF TypeInv, TypeOK
<1>2. Head(dbq) \in Task /\ TaskOK(Head(dbq)) /\ Head(dbq) = dbq[1] /\ Len(dbq) >= 1
  BY <1>1, TailElements DEF TypeInv, QueuesOK
<1>3. /\ Head(dbq).kind \in {"insert", "transition"} /\ Head(dbq).id = id
      /\ Answer(Head(dbq)).out = "row"
  BY <1>2, AnswerTypes DEF Finishes, Shows
<1>4. CASE Head(dbq).kind = "transition"
  BY <1>2, <1>3, <1>4, AnswerOwn
<1>5. CASE Head(dbq).kind = "insert"
  <2>1. Len(dbr) + 1 \in 1 .. Ops /\ Op(Len(dbr) + 1) = Head(dbq)
    BY <1>1, <1>2 DEF Ops, Op
  <2>2. Idle(id) /\ \A j \in 1 .. Ops : j # Len(dbr) + 1 => Op(j).id # id
    BY <1>3, <1>5, <2>1 DEF UnusedInv
  <2>3. ASSUME NEW i \in 1 .. Len(dbr)
        PROVE  dbr[i].task.id # id
    <3>1. i \in 1 .. Ops /\ Op(i) = dbr[i].task /\ i # Len(dbr) + 1
      BY <1>1 DEF Ops, Op
    <3> QED
      BY <2>2, <3>1
  <2> QED
    BY <2>2, <2>3 DEF Idle
<1> QED
  BY <1>3, <1>4, <1>5

(* Every step leaves at most one verdict of a command. *)
LEMMA VerdictInvStep ==
  ASSUME TypeInv, OrderInv, OwnRow, UnusedInv, VerdictInv, [Next]_vars
  PROVE  VerdictInv'
<1>1. dbr \in Seq(Result) /\ Len(dbr) \in Nat /\ verdicts \in [Ids -> 0 .. 2] /\ TypeInv'
  BY TypeStep DEF TypeInv, TypeOK
<1>2. PICK k \in {0, 1} : ResultsMove(k)
  BY ResultsStep
<1>3. ASSUME NEW id \in Ids, NEW i \in 1 .. Len(dbr'), Finishes(dbr'[i], id)
      PROVE  \/ i + k \in 1 .. Len(dbr) /\ dbr'[i] = dbr[i + k]
             \/ /\ i = Len(dbr')
                /\ \/ row[id] \in ActiveStatus
                   \/ verdicts[id] = 0 /\ \A j \in 1 .. Len(dbr) : dbr[j].task.id # id
  <2>1. CASE dbq # <<>> /\ i = Len(dbr') /\ dbr'[i] = Answer(Head(dbq))
    BY <1>3, <2>1, FinishStep
  <2>2. dbr'[i] # Unanswered(Head(dbq), "failed")
    <3>1. Unanswered(Head(dbq), "failed").out = "failed"
      BY DEF Unanswered
    <3> QED
      BY <1>3, <3>1 DEF Finishes, Shows
  <2> QED
    BY <1>2, <2>1, <2>2 DEF ResultsMove
<1>4. ASSUME NEW id \in Ids, NEW i \in 1 .. Len(dbr'), NEW j \in 1 .. Len(dbr'), i < j,
             Shows(dbr'[i], id), Finishes(dbr'[j], id)
      PROVE  FALSE
  <2>1. Len(dbr') \in Nat
    BY <1>1 DEF TypeInv, TypeOK
  <2>2. i + k \in 1 .. Len(dbr) /\ dbr'[i] = dbr[i + k]
    BY <1>2, <1>4, <2>1 DEF ResultsMove
  <2>3. CASE j + k \in 1 .. Len(dbr) /\ dbr'[j] = dbr[j + k]
    <3>1. i + k < j + k
      BY <1>4, <2>1
    <3> QED
      BY <1>4, <2>2, <2>3, <3>1 DEF VerdictInv
  <2>4. CASE row[id] \in ActiveStatus
    <3>1. Later(dbr[i + k].st, row[id]) /\ IsTerminal(dbr[i + k].st)
      BY <1>4, <2>2 DEF OrderInv, SnapshotIsBetween, Shows
    <3> QED
      BY <2>4, <3>1 DEF Later, IsTerminal, ActiveStatus, TerminalStatus, CommandStatus
  <2>5. CASE \A n \in 1 .. Len(dbr) : dbr[n].task.id # id
    BY <1>4, <2>2, <2>5 DEF Shows
  <2> QED
    BY <1>3, <1>4, <2>3, <2>4, <2>5
<1>5. ASSUME NEW id \in Ids, verdicts'[id] = verdicts[id], verdicts[id] > 0
      PROVE  /\ IsTerminal(told'[id]) /\ active'[id].status = "none"
             /\ \A i \in 1 .. Len(dbr') : ~Finishes(dbr'[i], id)
  <2>1. IsTerminal(told[id]) /\ active[id].status = "none" /\ Later(told[id], row[id])
    BY <1>5 DEF VerdictInv, OrderInv, ToldIsDurable
  <2>2. told'[id] = told[id]
    BY <2>1, ToldStep DEF Later, IsTerminal, CommandStatus, ActiveStatus, TerminalStatus
  <2>3. row[id] \notin ActiveStatus
    BY <2>1 DEF Later, IsTerminal, CommandStatus, ActiveStatus, TerminalStatus
  <2>4. ~(/\ dbr # <<>> /\ Head(dbr).out = "row" /\ Head(dbr).rid = id
          /\ active'[id].status = Head(dbr).st)
    <3> SUFFICES ASSUME dbr # <<>>, Head(dbr).out = "row", Head(dbr).rid = id,
                        active'[id].status = Head(dbr).st
                 PROVE  FALSE
      OBVIOUS
    <3>1. Later(told[id], Head(dbr).st) /\ Head(dbr).st \in CommandStatus
      BY HeadTypes, TailElements DEF OrderInv, SnapshotIsBetween, ResultOK, TypeInv, TypeOK
    <3>2. Head(dbr).st \in TerminalStatus
      BY <2>1, <3>1 DEF Later, IsTerminal, CommandStatus, ActiveStatus, TerminalStatus
    <3>3. active'[id].status \in ActiveStatus \cup {"none"}
      BY <1>1 DEF TypeInv, TypeOK
    <3> QED
      BY <3>2, <3>3 DEF ActiveStatus, TerminalStatus
  <2>5. active'[id].status = "none"
    BY <2>1, <2>3, <2>4, ActiveStep
  <2>6. ASSUME NEW i \in 1 .. Len(dbr'), Finishes(dbr'[i], id)
        PROVE  FALSE
    BY <1>3, <1>5, <2>3, <2>6 DEF VerdictInv
  <2> QED
    BY <2>1, <2>2, <2>5, <2>6
<1>6. ASSUME NEW id \in Ids, verdicts'[id] # verdicts[id]
      PROVE  /\ verdicts'[id] = 1
             /\ IsTerminal(told'[id]) /\ active'[id].status = "none"
             /\ \A i \in 1 .. Len(dbr') : ~Finishes(dbr'[i], id)
  <2>1. /\ Consumes /\ Shows(Head(dbr), id)
        /\ Finishes(Head(dbr), id) \/ active[id].status # "none"
        /\ told'[id] = Head(dbr).st /\ active'[id].status = "none"
        /\ verdicts'[id] = IF verdicts[id] = 0 THEN 1 ELSE 2
    BY <1>6, VerdictStep
  <2>2. /\ 1 \in 1 .. Len(dbr) /\ Head(dbr) = dbr[1] /\ Len(dbr') = Len(dbr) - 1
        /\ \A i \in 1 .. Len(dbr) - 1 : dbr'[i] = dbr[i + 1] /\ i + 1 \in 1 .. Len(dbr)
    BY <1>1, <2>1, TailElements DEF Consumes
  <2>3. verdicts[id] = 0
    BY <1>1, <2>1, <2>2 DEF VerdictInv
  <2>4. ASSUME NEW i \in 1 .. Len(dbr')
        PROVE  ~Finishes(dbr'[i], id)
    <3>1. dbr'[i] = dbr[i + 1] /\ i + 1 \in 1 .. Len(dbr) /\ 1 < i + 1
      BY <1>1, <2>2
    <3> QED
      BY <2>1, <2>2, <3>1 DEF VerdictInv
  <2>5. IsTerminal(told'[id])
    BY <2>1 DEF Shows
  <2> QED
    BY <2>1, <2>3, <2>4, <2>5
<1>7. OneVerdict'
  <2>1. ASSUME NEW id \in Ids PROVE verdicts'[id] <= 1
    <3>1. CASE verdicts'[id] = verdicts[id]
      BY <3>1 DEF VerdictInv, OneVerdict
    <3>2. CASE verdicts'[id] # verdicts[id]
      BY <1>6, <3>2
    <3> QED
      BY <3>1, <3>2
  <2> QED
    BY <2>1 DEF OneVerdict
<1>8. ASSUME NEW id \in Ids, verdicts'[id] > 0
      PROVE  /\ IsTerminal(told'[id]) /\ active'[id].status = "none"
             /\ \A i \in 1 .. Len(dbr') : ~Finishes(dbr'[i], id)
  <2>1. CASE verdicts'[id] = verdicts[id]
    BY <1>5, <1>8, <2>1
  <2>2. CASE verdicts'[id] # verdicts[id]
    BY <1>6, <2>2
  <2> QED
    BY <2>1, <2>2
<1> QED
  BY <1>4, <1>7, <1>8 DEF VerdictInv, Finishes, Shows

(* Initially there is no operation and no verdict. *)
LEMMA VerdictInit == Init => OwnRow /\ UnusedInv /\ VerdictInv
<1> SUFFICES ASSUME Init PROVE OwnRow /\ UnusedInv /\ VerdictInv
  OBVIOUS
<1>1. dbq = <<>> /\ dbr = <<>> /\ scan = {} /\ \A id \in Ids : verdicts[id] = 0
  BY DEF Init, DatabaseInit
<1>2. Ops = 0 /\ Len(dbr) = 0
  BY <1>1 DEF Ops
<1>3. \A id \in Ids : /\ active[id].status = "none" /\ deferred[id] = NothingDeferred
                      /\ \A k \in Slots : pubs[id][k].st = "free"
  BY DEF Init, PublicationsInit, Inactive, FreeSlot
<1> QED
  BY <1>1, <1>2, <1>3 DEF OwnRow, UnusedInv, Idle, Untouched, VerdictInv, OneVerdict

(* For every value of the constants, whatever acks, timeouts, completions  *)
(* and repeated statements race: the source of a command is answered with  *)
(* one result, apart from the answers to repeated requests.                *)
THEOREM OneVerdictPerCommand == Spec => []OneVerdict
<1> DEFINE Inv == TypeInv /\ OrderInv /\ OwnRow /\ UnusedInv /\ VerdictInv
<1>1. Init => Inv
  BY TypeInit, OrderInit, VerdictInit
<1>2. Inv /\ [Next]_vars => Inv'
  BY TypeStep, OrderStep, OwnRowStep, UnusedStep, UnusedRestart, VerdictInvStep
<1>3. Inv => OneVerdict
  BY DEF VerdictInv
<1> QED
  BY <1>1, <1>2, <1>3, PTL DEF Spec

-------------------------------------------------------------------------------
(* A command that is not active and whose source has no result yet is      *)
(* worked on by nothing but its insertion.                                 *)
OnlyInserted(id) ==
    /\ Untouched(id)
    /\ \A i \in 1 .. Ops : Op(i).id = id => Op(i).kind \notin {"transition", "findById"}

BusyInv ==
    \A id \in Ids : (active[id].status = "none" /\ ~IsTerminal(told[id])) => OnlyInserted(id)

(* The result of an insertion is handled: the command becomes active, its  *)
(* result is told, or nothing changes for it.                              *)
LEMMA OwnResultFrame ==
  ASSUME TypeInv, HandleDatabaseResult, NEW id \in Ids, Head(dbr).task.id = id,
         Head(dbr).task.kind \notin {"transition", "findById"}, Untouched(id),
         active'[id].status = "none"
  PROVE  IsTerminal(told'[id]) \/ (Untouched(id)' /\ NoTaskOf(id))
<1>1. /\ active \in [Ids -> [status : ActiveStatus \cup {"none"}, dl : Nat]]
      /\ told \in [Ids -> RowStatus]
  BY DEF TypeInv, TypeOK
<1>2. CASE HandleFound \/ HandleInsertLost \/ HandleLoggedResult
  <2>1. UNCHANGED <<active, scan, deferred, pubs, dbq>>
    BY <1>2 DEF HandleFound, HandleInsertLost, HandleLoggedResult, serviceVars, mqttVars,
       threadVars
  <2> QED
    BY <2>1 DEF Untouched, NoTaskOf
<1>3. CASE HandleNotFound
  <2>1. UNCHANGED <<active, scan, deferred, pubs>>
    BY <1>3 DEF HandleNotFound, serviceVars, mqttVars, threadVars
  <2>2. dbr # <<>> /\ Head(dbr).task.kind = "find"
    BY <1>3 DEF HandleNotFound, NextResult
  <2>3. Head(dbr).task.req \in Requests
    BY <2>2, HeadTypes DEF ResultOK, TaskOK
  <2>4. PICK i \in Ids :
          /\ info[i] = NoRequest /\ info' = [info EXCEPT ![i] = Head(dbr).task.req]
          /\ \/ dbq' = dbq
             \/ dbq' = Append(dbq, InsertTask(i, InitialStatus(Head(dbr).task.req)))
    <3>1. \A i \in Ids : i >= i
      BY DEF Ids
    <3> QED
      BY <1>3, <3>1 DEF HandleNotFound
  <2> DEFINE t == InsertTask(i, InitialStatus(Head(dbr).task.req))
  <2>5. t \in Task /\ t.id = i /\ t.kind = "insert"
    <3>1. InitialStatus(Head(dbr).task.req) \in {"pending", "failed"}
      BY DEF InitialStatus
    <3> QED
      BY <3>1, TaskTypes DEF InsertTask
  <2>6. dbq' = dbq \/ dbq' = Append(dbq, t)
    BY <2>4
  <2> HIDE DEF t
  <2>7. FreshInsert(t)
    BY <2>3, <2>4, <2>5, DatabaseAssumption DEF FreshInsert, TypeInv, TypeOK
  <2>8. NoTaskOf(id)
    BY <2>5, <2>6, <2>7 DEF NoTaskOf
  <2> QED
    BY <2>1, <2>8 DEF Untouched
<1>4. CASE HandleInserted
  <2>1. dbr # <<>> /\ Head(dbr).out = "row"
    BY <1>4 DEF HandleInserted, NextResult
  <2>2. Head(dbr).st # "none"
    BY <2>1, HeadTypes DEF ResultOK, CommandStatus, ActiveStatus, TerminalStatus
  <2>3. ~ \E dl : active' = [active EXCEPT ![id] = [status |-> Head(dbr).st, dl |-> dl]]
    <3> SUFFICES ASSUME NEW dl, active' = [active EXCEPT ![id] = [status |-> Head(dbr).st, dl |-> dl]]
                 PROVE  active'[id].status = Head(dbr).st
      BY <2>2
    <3> QED
      BY StatusSet
  <2>4. IsTerminal(Head(dbr).st) /\ told' = [told EXCEPT ![id] = Head(dbr).st]
    BY <1>4, <2>3 DEF HandleInserted, PublishAck
  <2> QED
    BY <1>1, <2>4
<1> QED
  BY <1>2, <1>3, <1>4 DEF HandleDatabaseResult, HandleTransitioned, HandleTransitionConflict,
     ConvergeAfterConflict, NextResult

(* Every step leaves such commands to their insertion. *)
LEMMA BusyStep ==
  ASSUME TypeInv, OrderInv, OwnRow, BusyInv, [Next]_vars
  PROVE  BusyInv'
<1> SUFFICES ASSUME NEW id \in Ids, active'[id].status = "none", ~IsTerminal(told'[id])
             PROVE  OnlyInserted(id)'
  BY DEF BusyInv
<1>1. CASE CrashAndRestart
  <2>1. Ops' = 0 /\ scan' = {} /\ deferred'[id] = NothingDeferred
    BY <1>1 DEF CrashAndRestart, Ops
  <2>2. \A k \in Slots : pubs'[id][k] = FreeSlot
    BY <1>1 DEF CrashAndRestart
  <2> QED
    BY <2>1, <2>2 DEF OnlyInserted, Untouched, FreeSlot
<1>2. CASE ~CrashAndRestart
  <2>1. active[id].status = "none"
    BY <1>2, ActiveEnds
  <2>2. ~IsTerminal(told[id])
    BY ToldStep DEF Later, IsTerminal, CommandStatus, ActiveStatus, TerminalStatus
  <2>3. Untouched(id)
    BY <2>1, <2>2 DEF BusyInv, OnlyInserted
  <2>4. ASSUME NEW i \in 1 .. Ops, Op(i).id = id
        PROVE  Op(i).kind \notin {"transition", "findById"}
    BY <2>1, <2>2, <2>4 DEF BusyInv, OnlyInserted
  <2>5. Untouched(id)' /\ NoTaskOf(id)
    <3>1. CASE Consumes /\ Head(dbr).task.id = id
      <4>1. HandleDatabaseResult
        BY <1>2, <3>1, TakenByHandler
      <4>2. Head(dbr).task.kind \notin {"transition", "findById"}
        BY <2>4, <3>1, HeadIsFirstOp
      <4> QED
        BY <2>3, <3>1, <4>1, <4>2, OwnResultFrame
    <3> QED
      BY <1>2, <2>3, <3>1, UntouchedStep
  <2>6. PICK k \in {0, 1} : OpsMove(k)
    BY OpsStep
  <2>7. ASSUME NEW i \in 1 .. Ops', Op(i)'.id = id
        PROVE  Op(i)'.kind \notin {"transition", "findById"}
    <3>1. CASE i + k \in 1 .. Ops /\ Op(i)' = Op(i + k)
      BY <2>4, <2>7, <3>1
    <3>2. CASE dbq' = Append(dbq, Op(i)')
      BY <2>5, <2>7, <3>2, AppendedIsOther
    <3> QED
      BY <2>6, <3>1, <3>2 DEF OpsMove
  <2> QED
    BY <2>5, <2>7 DEF OnlyInserted
<1> QED
  BY <1>1, <1>2

(* Initially no command is worked on. *)
LEMMA BusyInit == Init => BusyInv
<1> SUFFICES ASSUME Init PROVE BusyInv
  OBVIOUS
<1>1. Ops = 0 /\ scan = {}
  BY DEF Init, DatabaseInit, Ops
<1>2. \A id \in Ids : /\ active[id].status = "none" /\ deferred[id] = NothingDeferred
                      /\ \A k \in Slots : pubs[id][k].st = "free"
  BY DEF Init, PublicationsInit, Inactive, FreeSlot
<1> QED
  BY <1>1, <1>2 DEF BusyInv, OnlyInserted, Untouched

-------------------------------------------------------------------------------
(* A restart is never refused.  A request in the pipeline is an operation  *)
(* that looks it up or inserts it; admission bounds the active commands,   *)
(* these operations and the insertions that were dropped together by       *)
(* max_inflight_commands.                                                  *)
InPipeline == {"find", "insert"}
Pipeline == {i \in 1 .. Ops : Op(i).kind \in InPipeline}

AdmitInv ==
    Cardinality(Active) + Cardinality(Pipeline) + Cardinality(dropped) <= MaxInflight

(* A step other than these two submits nothing that is in the pipeline. *)
LateTask == \/ dbq' = dbq
            \/ dbq # <<>> /\ dbq' = Tail(dbq)
            \/ \E t \in Task : t.kind \notin InPipeline /\ dbq' = Append(dbq, t)

(* What is submitted for an active command is late. *)
LEMMA SubmitsLate ==
  ASSUME NEW i, SubmitsFor(i)
  PROVE  LateTask
<1>1. "transition" \notin InPipeline
  BY DEF InPipeline
<1> QED
  BY <1>1 DEF SubmitsFor, LateTask

(* Only an accepted request and a free key put an operation in the         *)
(* pipeline.                                                               *)
LEMMA PipelineStep ==
  ASSUME TypeInv, [Next]_vars, ~CrashAndRestart, ~WorkerGivesUp, ~HandleNotFound,
         \A req \in Requests : ~HandleSourceRequest(req)
  PROVE  LateTask
<1>1. CASE HandleDatabaseResult
  <2>1. CASE HandleFound \/ HandleInsertLost \/ HandleLoggedResult
    BY <2>1 DEF HandleFound, HandleInsertLost, HandleLoggedResult, LateTask
  <2>2. CASE HandleInserted
    <3>1. dbr # <<>> /\ Head(dbr).out = "row" /\ Head(dbr).task.kind = "insert"
      BY <2>2 DEF HandleInserted, NextResult
    <3>2. Head(dbr).task.id \in Ids /\ Head(dbr).st \in Carried /\ Head(dbr).task.dl \in Nat
      BY <3>1, HeadTypes
    <3>3. dbq' = dbq \/ PublishRecord(Head(dbr).task.id, Head(dbr).st, Head(dbr).task.dl)
      BY <2>2 DEF HandleInserted
    <3>4. dbq' = dbq \/ SubmitsFor(Head(dbr).task.id)
      BY <3>2, <3>3, PublishFrame
    <3> QED
      BY <3>4, SubmitsLate DEF LateTask
  <2>3. CASE HandleTransitioned
    <3>1. dbr # <<>> /\ Head(dbr).out = "row"
      BY <2>3 DEF HandleTransitioned, NextResult
    <3>2. Head(dbr).rid \in Ids /\ Head(dbr).st \in Carried /\ Head(dbr).task.dl \in Nat
      BY <3>1, HeadTypes
    <3>3. \/ dbq' = dbq
          \/ /\ early[Head(dbr).rid] # "none"
             /\ ApplyDeviceAck(Head(dbr).rid, Head(dbr).st, Head(dbr).task.dl,
                               early[Head(dbr).rid])
      BY <2>3 DEF HandleTransitioned, EarlyAckWaits
    <3>4. dbq' = dbq \/ SubmitsFor(Head(dbr).rid)
      BY <3>2, <3>3, ApplyFrame, ReadTypes
    <3> QED
      BY <3>4, SubmitsLate DEF LateTask
  <2>4. CASE HandleTransitionConflict
    <3> DEFINE f == FindByIdTask(Head(dbr).task.id, Head(dbr).task.to, Head(dbr).task.dl)
    <3>1. dbr # <<>> /\ Head(dbr).task.kind = "transition"
      BY <2>4 DEF HandleTransitionConflict, NextResult
    <3>2. f \in Task /\ f.kind \notin InPipeline
      BY <3>1, HeadTypes, TaskTypes DEF FindByIdTask, InPipeline
    <3>3. dbq' = dbq \/ dbq' = Append(dbq, f)
      BY <2>4 DEF HandleTransitionConflict
    <3> HIDE DEF f
    <3> QED
      BY <3>2, <3>3 DEF LateTask
  <2>5. CASE ConvergeAfterConflict
    <3>1. dbr # <<>> /\ Head(dbr).out = "row"
      BY <2>5 DEF ConvergeAfterConflict, NextResult
    <3>2. Head(dbr).rid \in Ids /\ Head(dbr).st \in Carried /\ Head(dbr).task.dl \in Nat
          /\ Head(dbr).task.to \in Carried
      BY <3>1, HeadTypes
    <3>3. \/ dbq' = dbq
          \/ SubmitTransitionOrDefer(Head(dbr).rid, Head(dbr).st, Head(dbr).task.to,
                                     Head(dbr).task.dl)
      BY <2>5 DEF ConvergeAfterConflict
    <3>4. dbq' = dbq \/ SubmitsFor(Head(dbr).rid)
      BY <3>2, <3>3, SubmitFrame
    <3> QED
      BY <3>4, SubmitsLate DEF LateTask
  <2> QED
    BY <1>1, <2>1, <2>2, <2>3, <2>4, <2>5 DEF HandleDatabaseResult
<1>2. ASSUME NEW i \in Ids, NEW ack \in AckStatus, HandleDeviceAck(i, ack)
      PROVE  LateTask
  <2>1. dbq' = dbq \/ ApplyDeviceAck(i, active[i].status, active[i].dl, ack)
    BY <1>2 DEF HandleDeviceAck
  <2>2. dbq' = dbq \/ SubmitsFor(i)
    BY <2>1, ApplyFrame, ReadTypes
  <2> QED
    BY <2>2, SubmitsLate DEF LateTask
<1>3. ASSUME NEW i \in Ids, NEW k \in Slots, HandlePublishCompletion(i, k)
      PROVE  LateTask
  <2>1. \/ dbq' = dbq
        \/ \E to \in {"dispatched", "delivery_uncertain", "failed"} :
             SubmitTransitionOrDefer(i, pubs[i][k].prev, to, pubs[i][k].dl)
    BY <1>3 DEF HandlePublishCompletion
  <2>2. dbq' = dbq \/ SubmitsFor(i)
    BY <2>1, SubmitFrame, ReadTypes
  <2> QED
    BY <2>2, SubmitsLate DEF LateTask
<1>4. CASE RetryDeferredTransitions
  <2>1. \/ dbq' = dbq
        \/ \E i \in Ids : SubmitTransitionOrDefer(i, deferred[i].from, deferred[i].to,
                                                  deferred[i].dl)
    BY <1>4 DEF RetryDeferredTransitions
  <2>2. dbq' = dbq \/ \E i \in Ids : SubmitsFor(i)
    BY <2>1, SubmitFrame, ReadTypes
  <2> QED
    BY <2>2, SubmitsLate DEF LateTask
<1>5. CASE StartScan
  <2>1. CleanupTask \in Task /\ CleanupTask.kind \notin InPipeline
    BY TaskTypes DEF CleanupTask, InPipeline
  <2> QED
    BY <1>5, <2>1 DEF StartScan, LateTask
<1>6. ASSUME NEW i \in Ids, Scan(i)
      PROVE  LateTask
  <2>1. \/ dbq' = dbq
        \/ SubmitTransitionOrDefer(i, active[i].status, "timeout", active[i].dl)
        \/ PublishRecord(i, active[i].status, active[i].dl)
    BY <1>6 DEF Scan, ScanTimesOut, ScanRepublishes, ScanSkips
  <2>2. dbq' = dbq \/ SubmitsFor(i)
    BY <2>1, SubmitFrame, PublishFrame, ReadTypes
  <2> QED
    BY <2>2, SubmitsLate DEF LateTask
<1>7. CASE \/ CallCycleHook \/ \E d \in Devices : OnTargetOnline(d) \/ DeviceGoesOffline(d)
           \/ WaitForNextCheck \/ \E i \in Ids : DeadlinePasses(i)
           \/ MqttThread \/ UNCHANGED vars
  BY <1>7 DEF CallCycleHook, OnTargetOnline, DeviceGoesOffline, WaitForNextCheck,
     DeadlinePasses, MqttThread, OutsideMqtt, vars, databaseVars, LateTask
<1>8. CASE DatabaseThread
  BY <1>8 DEF DatabaseThread, WorkerRunsCommand, WorkerCommandFails, WorkerLosesConnection,
     WorkerReconnects, LateTask
<1> QED
  BY <1>1, <1>2, <1>3, <1>4, <1>5, <1>6, <1>7, <1>8 DEF Next, BusinessThread

(* A command becomes active by its insertion. *)
LEMMA ActiveGrows ==
  ASSUME TypeInv, OrderInv, OwnRow, BusyInv, [Next]_vars, ~CrashAndRestart, NEW id \in Ids,
         active[id].status = "none", active'[id].status # "none"
  PROVE  Consumes /\ Head(dbr).task.kind = "insert" /\ Head(dbr).task.id = id
<1>1. /\ dbr # <<>> /\ dbr' = Tail(dbr) /\ Head(dbr).out = "row" /\ Head(dbr).rid = id
      /\ \/ Head(dbr).task.kind \in {"transition", "findById"}
         \/ Head(dbr).task.kind = "insert" /\ Head(dbr).task.id = id
      /\ active'[id].status = Head(dbr).st
  BY ActiveStep
<1>2. Consumes
  BY <1>1 DEF Consumes
<1>3. CASE Head(dbr).task.kind \in {"transition", "findById"}
  <2>1. Head(dbr).task.id = id
    BY <1>1, <1>3, HeadIsOwn
  <2>2. IsTerminal(told[id])
    BY <1>2, <1>3, <2>1, HeadIsFirstOp DEF BusyInv, OnlyInserted
  <2>3. Later(told[id], Head(dbr).st) /\ Head(dbr).st \in CommandStatus
    BY <1>1, HeadTypes, TailElements DEF OrderInv, SnapshotIsBetween, ResultOK, TypeInv, TypeOK
  <2>4. Head(dbr).st \in TerminalStatus
    BY <2>2, <2>3 DEF Later, IsTerminal, CommandStatus, ActiveStatus, TerminalStatus
  <2>5. active'[id].status \in ActiveStatus \cup {"none"}
    BY TypeStep DEF TypeInv, TypeOK
  <2> QED
    BY <1>1, <2>4, <2>5 DEF ActiveStatus, TerminalStatus
<1> QED
  BY <1>1, <1>2, <1>3

(* Operations that move forward are not more than they were, and fewer     *)
(* when the first one is among them and leaves.                            *)
LEMMA MovedCount ==
  ASSUME NEW P \in SUBSET (Nat \ {0}), IsFiniteSet(P), NEW k \in {0, 1},
         NEW Q \in SUBSET (Nat \ {0}), \A i \in Q : i + k \in P
  PROVE  /\ IsFiniteSet(Q) /\ Cardinality(Q) \in Nat /\ Cardinality(P) \in Nat
         /\ Cardinality(Q) <= Cardinality(P)
         /\ (k = 1 /\ 1 \in P) => Cardinality(Q) <= Cardinality(P) - 1
<1> DEFINE R == IF k = 1 THEN P \ {1} ELSE P
           f == [i \in Q |-> i + k]
<1>1. /\ IsFiniteSet(R) /\ Cardinality(P) \in Nat
      /\ Cardinality(R) <= Cardinality(P)
      /\ (k = 1 /\ 1 \in P) => Cardinality(R) = Cardinality(P) - 1
  <2>1. IsFiniteSet(P \ {1}) /\ Cardinality(P) \in Nat
        /\ Cardinality(P \ {1}) = IF 1 \in P THEN Cardinality(P) - 1 ELSE Cardinality(P)
    BY FS_RemoveElement, FS_CardinalityType
  <2> QED
    BY <2>1
<1>2. \A i \in Q : f[i] \in R
  OBVIOUS
<1>3. \A i, j \in Q : f[i] = f[j] => i = j
  OBVIOUS
<1>4. f \in [Q -> R]
  BY <1>2
<1> HIDE DEF f, R
<1>5. f \in Injection(Q, R)
  BY <1>3, <1>4 DEF Injection, IsInjective
<1>6. IsFiniteSet(Q) /\ Cardinality(Q) <= Cardinality(R)
  BY <1>1, <1>5, FS_Injection
<1>7. Cardinality(Q) \in Nat /\ Cardinality(R) \in Nat
  BY <1>1, <1>6, FS_CardinalityType
<1> QED
  BY <1>1, <1>6, <1>7

(* The sets that are counted are finite. *)
LEMMA CountTypes ==
  ASSUME TypeInv
  PROVE  /\ IsFiniteSet(Active) /\ Cardinality(Active) \in Nat
         /\ IsFiniteSet(Pipeline) /\ Cardinality(Pipeline) \in Nat
         /\ Pipeline \in SUBSET (Nat \ {0})
         /\ Ops \in Nat /\ Cardinality(Pipeline) <= Ops
         /\ IsFiniteSet(Unfinished)
         /\ IsFiniteSet(dropped) /\ Cardinality(dropped) \in Nat
<1>1. Ops \in Nat /\ MaxRequests \in Nat
  BY DatabaseAssumption DEF TypeInv, TypeOK, Ops
<1>2. IsFiniteSet(Ids) /\ IsFiniteSet(1 .. Ops) /\ Cardinality(1 .. Ops) = Ops
  BY <1>1, FS_Interval DEF Ids
<1>3. Active \in SUBSET Ids /\ Unfinished \in SUBSET Ids /\ Pipeline \in SUBSET (1 .. Ops)
  BY DEF Active, Unfinished, Pipeline
<1>3a. dropped \in SUBSET Ids
  BY DEF TypeInv, TypeOK
<1>4. IsFiniteSet(Active) /\ IsFiniteSet(Unfinished) /\ IsFiniteSet(dropped)
  BY <1>2, <1>3, <1>3a, FS_Subset
<1>5. IsFiniteSet(Pipeline) /\ Cardinality(Pipeline) <= Ops
  BY <1>2, <1>3, FS_Subset
<1>6. Pipeline \in SUBSET (Nat \ {0})
  BY <1>1, <1>3
<1> QED
  BY <1>1, <1>4, <1>5, <1>6, FS_CardinalityType

(* A step with nothing new in the pipeline. *)
LEMMA AdmitLate ==
  ASSUME TypeInv, OrderInv, OwnRow, BusyInv, AdmitInv, [Next]_vars, ~CrashAndRestart,
         ~WorkerGivesUp, LateTask
  PROVE  AdmitInv'
<1>1. TypeInv'
  BY TypeStep
<1>2. /\ IsFiniteSet(Active) /\ Cardinality(Active) \in Nat
      /\ IsFiniteSet(Pipeline) /\ Cardinality(Pipeline) \in Nat /\ Pipeline \in SUBSET (Nat \ {0})
  BY CountTypes
<1>3. IsFiniteSet(Active') /\ Cardinality(Active') \in Nat /\ Pipeline' \in SUBSET (Nat \ {0})
  <2>1. IsFiniteSet(Ids) /\ Active' \in SUBSET Ids
    BY DatabaseAssumption, FS_Interval DEF Ids, Active
  <2>2. Ops' \in Nat
    BY <1>1 DEF TypeInv, TypeOK, Ops
  <2>3. Pipeline' \in SUBSET (Nat \ {0})
    BY <2>2 DEF Pipeline
  <2> QED
    BY <2>1, <2>3, FS_Subset, FS_CardinalityType
<1>4. PICK k \in {0, 1} : OpsMove(k) /\ (Consumes => k = 1)
  BY OpsStep
<1>5. ASSUME NEW i \in Pipeline' PROVE i + k \in Pipeline
  <2>1. i \in 1 .. Ops' /\ Op(i)'.kind \in InPipeline
    BY DEF Pipeline
  <2>2. dbq' # Append(dbq, Op(i)')
    <3> SUFFICES ASSUME dbq' = Append(dbq, Op(i)') PROVE FALSE
      OBVIOUS
    <3>1. dbq \in Seq(Task)
      BY DEF TypeInv, TypeOK
    <3>2. PICK t \in Task : t.kind \notin InPipeline /\ dbq' = Append(dbq, t)
      BY <3>1, AppendOnce DEF LateTask
    <3>3. Op(i)' = t
      BY <3>1, <3>2, AppendOnce
    <3> QED
      BY <2>1, <3>2, <3>3
  <2> QED
    BY <1>4, <2>1, <2>2 DEF OpsMove, Pipeline
<1>6. /\ Cardinality(Pipeline') \in Nat /\ Cardinality(Pipeline') <= Cardinality(Pipeline)
      /\ (k = 1 /\ 1 \in Pipeline) => Cardinality(Pipeline') <= Cardinality(Pipeline) - 1
  BY <1>2, <1>3, <1>5, MovedCount
<1>7. MaxInflight \in Nat /\ Cardinality(dropped) \in Nat /\ dropped' = dropped
  BY DatabaseAssumption, CountTypes, DroppedStep
<1>8. CASE Active' \subseteq Active
  <2>1. Cardinality(Active') <= Cardinality(Active)
    BY <1>2, <1>8, FS_Subset
  <2> QED
    BY <1>2, <1>3, <1>6, <1>7, <2>1 DEF AdmitInv
<1>9. CASE ~(Active' \subseteq Active)
  <2>1. PICK id \in Ids : active[id].status = "none" /\ active'[id].status # "none"
    BY <1>9 DEF Active
  <2>2. Consumes /\ Head(dbr).task.kind = "insert" /\ Head(dbr).task.id = id
    BY <2>1, ActiveGrows
  <2>3. Active' \subseteq Active \cup {id}
    <3> SUFFICES ASSUME NEW j \in Ids, active'[j].status # "none", active[j].status = "none"
                 PROVE  j = id
      BY DEF Active
    <3> QED
      BY <2>2, ActiveGrows
  <2>4. /\ IsFiniteSet(Active \cup {id}) /\ Cardinality(Active \cup {id}) = Cardinality(Active) + 1
    BY <1>2, <2>1, FS_AddElement DEF Active
  <2>5. Cardinality(Active') <= Cardinality(Active) + 1
    BY <2>3, <2>4, FS_Subset
  <2>6. k = 1 /\ 1 \in Pipeline
    BY <1>4, <2>2, HeadIsFirstOp DEF Pipeline, InPipeline
  <2> QED
    BY <1>2, <1>3, <1>6, <1>7, <2>5, <2>6 DEF AdmitInv
<1> QED
  BY <1>8, <1>9

(* A request is accepted: everything in service leaves room for it. *)
LEMMA AdmitRequest ==
  ASSUME TypeInv, DroppedInv, AdmitInv, NEW req \in Requests, HandleSourceRequest(req)
  PROVE  AdmitInv'
<1>1. /\ dbq \in Seq(Task) /\ Len(dbq) \in Nat /\ FindTask(req) \in Task
  BY TaskTypes DEF TypeInv, TypeOK
<1>2. /\ dbr = <<>> /\ dbr' = dbr /\ dbq' = Append(dbq, FindTask(req)) /\ UNCHANGED active
      /\ CommandsInService < MaxInflight
  BY DEF HandleSourceRequest, serviceVars
<1>3. Ops' = Len(dbq) + 1
  <2>1. Len(dbr') = 0
    BY <1>2
  <2>2. Len(dbq') = Len(dbq) + 1
    BY <1>1, <1>2, AppendElements
  <2> QED
    BY <1>1, <2>1, <2>2 DEF Ops
<1>4. IsFiniteSet(1 .. Ops') /\ Cardinality(1 .. Ops') = Len(dbq) + 1
  BY <1>1, <1>3, FS_Interval
<1>5. Pipeline' \in SUBSET (1 .. Ops')
  BY DEF Pipeline
<1>6. Cardinality(Pipeline') <= Len(dbq) + 1 /\ Cardinality(Pipeline') \in Nat
  BY <1>4, <1>5, FS_Subset, FS_CardinalityType
<1>7. Cardinality(Publications) \in Nat
  <2>1. IsFiniteSet(Ids) /\ IsFiniteSet(Slots)
    BY DatabaseAssumption, PublicationsAssumption, FS_Interval DEF Ids, Slots
  <2>2. IsFiniteSet(Ids \X Slots)
    BY <2>1, FS_Product
  <2>3. Publications \in SUBSET (Ids \X Slots)
    BY DEF Publications, InState
  <2> QED
    BY <2>2, <2>3, FS_Subset, FS_CardinalityType
<1>8. Cardinality(Active) \in Nat /\ Active' = Active
  BY <1>2, CountTypes DEF Active
<1>9. Cardinality(Active) + Len(dbq) + Cardinality(Publications) < MaxInflight
  BY <1>2 DEF CommandsInService
<1>10. MaxInflight \in Nat
  BY DatabaseAssumption
<1>11. dropped' = {}
  BY DEF HandleSourceRequest, CanSubmit, workerVars, DroppedInv
<1>12. Cardinality(dropped') = 0
  BY <1>11, FS_EmptySet
<1> QED
  BY <1>1, <1>6, <1>7, <1>8, <1>9, <1>10, <1>12 DEF AdmitInv

(* The insertion of a new command takes the place of its look-up. *)
LEMMA AdmitNew ==
  ASSUME TypeInv, AdmitInv, [Next]_vars, HandleNotFound
  PROVE  AdmitInv'
<1>1. TypeInv' /\ Consumes /\ Head(dbr).task.kind = "find" /\ UNCHANGED active
  BY TypeStep DEF HandleNotFound, NextResult, Consumes, serviceVars
<1>2. OpsMove(1) /\ 1 \in Pipeline
  BY <1>1, OpsStep, HeadIsFirstOp DEF Pipeline, InPipeline
<1>3. /\ IsFiniteSet(Pipeline) /\ Cardinality(Pipeline) \in Nat
      /\ Pipeline \in SUBSET (Nat \ {0}) /\ Cardinality(Active) \in Nat
  BY CountTypes
<1>4. Ops' \in Nat
  BY <1>1 DEF TypeInv, TypeOK, Ops
<1> DEFINE Q == {i \in Pipeline' : i + 1 \in Pipeline}
<1>5. Q \in SUBSET (Nat \ {0})
  BY <1>4 DEF Pipeline
<1>6. /\ IsFiniteSet(Q) /\ Cardinality(Q) \in Nat
      /\ Cardinality(Q) <= Cardinality(Pipeline) - 1
  BY <1>2, <1>3, <1>5, MovedCount
<1>7. Pipeline' \in SUBSET (Q \cup {Ops'})
  BY <1>2 DEF OpsMove, Pipeline
<1> HIDE DEF Q
<1>8. /\ IsFiniteSet(Q \cup {Ops'}) /\ Cardinality(Q \cup {Ops'}) <= Cardinality(Q) + 1
      /\ Cardinality(Q \cup {Ops'}) \in Nat
  BY <1>6, FS_AddElement
<1>9. Cardinality(Pipeline') <= Cardinality(Pipeline) /\ Cardinality(Pipeline') \in Nat
  <2>1. Cardinality(Pipeline') <= Cardinality(Q \cup {Ops'}) /\ Cardinality(Pipeline') \in Nat
    BY <1>7, <1>8, FS_Subset, FS_CardinalityType
  <2> QED
    BY <1>3, <1>6, <1>8, <2>1
<1>10. /\ Active' = Active /\ MaxInflight \in Nat
       /\ dropped' = dropped /\ Cardinality(dropped) \in Nat
  BY <1>1, DatabaseAssumption, CountTypes DEF Active, HandleNotFound, workerVars
<1> QED
  BY <1>3, <1>9, <1>10 DEF AdmitInv

(* A restart loads no more commands than it is allowed to find. *)
LEMMA AdmitRestart ==
  ASSUME TypeInv, CrashAndRestart
  PROVE  AdmitInv'
<1>1. Ops' = 0 /\ Cardinality(Unfinished) <= MaxInflight
  BY DEF CrashAndRestart, Ops
<1>2. Pipeline' = {}
  BY <1>1 DEF Pipeline
<1>3. Active' \in SUBSET Unfinished
  BY DEF CrashAndRestart, LoadActive, Active, Inactive
<1>4. IsFiniteSet(Unfinished)
  BY CountTypes
<1>5. Cardinality(Active') <= Cardinality(Unfinished) /\ Cardinality(Active') \in Nat
      /\ Cardinality(Unfinished) \in Nat
  BY <1>3, <1>4, FS_Subset, FS_CardinalityType
<1>6. Cardinality(Pipeline') = 0 /\ MaxInflight \in Nat
  BY <1>2, FS_EmptySet, DatabaseAssumption
<1>7. Cardinality(dropped') = 0
  BY FS_EmptySet DEF CrashAndRestart
<1> QED
  BY <1>1, <1>5, <1>6, <1>7 DEF AdmitInv

(* The insertions a worker drops leave the pipeline. *)
LEMMA AdmitGivesUp ==
  ASSUME TypeInv, DroppedInv, AdmitInv, WorkerGivesUp, UNCHANGED active
  PROVE  AdmitInv'
<1> DEFINE D == {i \in Pipeline : i > Len(dbr)}
           P == {i \in Pipeline : i <= Len(dbr)}
<1>1. /\ IsFiniteSet(Pipeline) /\ Cardinality(Pipeline) \in Nat
      /\ Cardinality(Active) \in Nat /\ Cardinality(dropped) \in Nat
  BY CountTypes
<1>2. /\ dropped' = {dbq[i].id : i \in InsertsQueued} /\ dbq' = <<>> /\ dbr' = dbr
      /\ dbq \in Seq(Task) /\ Len(dbr) \in Nat /\ Len(dbq) \in Nat
  BY DEF WorkerGivesUp, TypeInv, TypeOK
<1>3. Active' = Active /\ MaxInflight \in Nat
  BY DatabaseAssumption DEF Active
<1>4. Pipeline' = P
  <2>1. Ops' = Len(dbr)
    BY <1>2 DEF Ops
  <2>2. \A i \in 1 .. Len(dbr) : Op(i)' = Op(i) /\ i \in 1 .. Ops
    BY <1>2 DEF Op, Ops
  <2> QED
    BY <1>2, <2>1, <2>2 DEF Pipeline
<1>5. ASSUME NEW id \in dropped'
      PROVE  \E i \in D : Op(i).id = id
  <2>1. PICK i \in 1 .. Len(dbq) : dbq[i].kind = "insert" /\ dbq[i].id = id
    BY <1>2 DEF InsertsQueued
  <2>2. Len(dbr) + i \in 1 .. Ops /\ Op(Len(dbr) + i) = dbq[i] /\ Len(dbr) + i > Len(dbr)
    BY <1>2 DEF Ops, Op
  <2> QED
    BY <2>1, <2>2 DEF Pipeline, InPipeline
<1>6. /\ IsFiniteSet(D) /\ Cardinality(D) \in Nat
      /\ IsFiniteSet(P) /\ Cardinality(P) \in Nat
  BY <1>1, FS_Subset, FS_CardinalityType
<1>7. Cardinality(P) + Cardinality(D) = Cardinality(Pipeline)
  <2>1. P \cup D = Pipeline /\ P \cap D = {}
    BY <1>2, CountTypes
  <2> HIDE DEF P, D
  <2>2. Cardinality(P \cap D) = 0
    BY <2>1, FS_EmptySet
  <2>3. Cardinality(P \cup D) = Cardinality(P) + Cardinality(D) - Cardinality(P \cap D)
    BY <1>6, FS_Union
  <2>4. Cardinality(P \cup D) = Cardinality(Pipeline)
    BY <2>1
  <2>5. Cardinality(P) \in Nat /\ Cardinality(D) \in Nat
    BY <1>6
  <2> QED
    BY <2>2, <2>3, <2>4, <2>5
<1> HIDE DEF D, P
<1> DEFINE f == [id \in dropped' |-> CHOOSE i \in D : Op(i).id = id]
<1>8. \A id \in dropped' : f[id] \in D /\ Op(f[id]).id = id
  BY <1>5
<1> HIDE DEF f
<1>9. f \in Injection(dropped', D)
  <2>1. f \in [dropped' -> D]
    BY <1>8 DEF f
  <2> QED
    BY <1>8, <2>1 DEF Injection, IsInjective
<1>10. Cardinality(dropped') <= Cardinality(D) /\ Cardinality(dropped') \in Nat
  BY <1>6, <1>9, FS_Injection, FS_CardinalityType
<1> QED
  BY <1>1, <1>3, <1>4, <1>6, <1>7, <1>10 DEF AdmitInv

(* Admission bounds what is in service at any time. *)
LEMMA AdmitHolds == Spec => [](TypeInv /\ AdmitInv)
<1> DEFINE Inv == TypeInv /\ OrderInv /\ OwnRow /\ BusyInv /\ DroppedInv /\ AdmitInv
<1>1. Init => Inv
  <2>1. Init => DroppedInv /\ AdmitInv
    <3> SUFFICES ASSUME Init PROVE DroppedInv /\ AdmitInv
      OBVIOUS
    <3>1. Active = {} /\ Ops = 0 /\ dropped = {}
      BY DEF Init, DatabaseInit, Active, Inactive, Ops
    <3>2. Pipeline = {}
      BY <3>1 DEF Pipeline
    <3> QED
      BY <3>1, <3>2, FS_EmptySet, DatabaseAssumption DEF DroppedInv, AdmitInv
  <2> QED
    BY <2>1, TypeInit, OrderInit, VerdictInit, BusyInit
<1>2. Inv /\ [Next]_vars => Inv'
  <2> SUFFICES ASSUME Inv, [Next]_vars PROVE Inv'
    OBVIOUS
  <2>1. WorkerGivesUp /\ ~CrashAndRestart => UNCHANGED active
    BY DroppedStep DEF WorkerGivesUp
  <2>2. AdmitInv'
    BY <2>1, PipelineStep, AdmitLate, AdmitRequest, AdmitNew, AdmitGivesUp, AdmitRestart
  <2> QED
    BY <2>2, TypeStep, OrderStep, OwnRowStep, BusyStep, DroppedInvStep
<1> QED
  BY <1>1, <1>2, PTL DEF Spec

(* Unfinished rows are not more than the active commands, the pipeline and *)
(* the insertions that were dropped.                                       *)
LEMMA UnfinishedCount ==
  ASSUME TypeInv, AdmitInv, SupervisedInv
  PROVE  RestartNeverRefused
<1>1. /\ IsFiniteSet(Active) /\ Cardinality(Active) \in Nat
      /\ IsFiniteSet(Pipeline) /\ Cardinality(Pipeline) \in Nat
      /\ IsFiniteSet(Unfinished)
      /\ IsFiniteSet(dropped) /\ Cardinality(dropped) \in Nat
  BY CountTypes
<1>2. Len(dbr) \in Nat /\ Len(dbq) \in Nat
  BY DEF TypeInv, TypeOK
<1>3. ASSUME NEW id \in Unfinished \ (Active \cup dropped)
      PROVE  \E i \in Pipeline : Op(i).id = id
  <2>1. Inserting(id)
    BY DEF Unfinished, Active, SupervisedInv, Open
  <2>2. CASE \E i \in 1 .. Len(dbq) : dbq[i].kind = "insert" /\ dbq[i].id = id
    <3>1. PICK i \in 1 .. Len(dbq) : dbq[i].kind = "insert" /\ dbq[i].id = id
      BY <2>2
    <3>2. Len(dbr) + i \in 1 .. Ops /\ Op(Len(dbr) + i) = dbq[i]
      BY <1>2 DEF Ops, Op
    <3> QED
      BY <3>1, <3>2 DEF Pipeline, InPipeline
  <2>3. CASE \E i \in 1 .. Len(dbr) : StoredBy(dbr[i], id)
    <3>1. PICK i \in 1 .. Len(dbr) : StoredBy(dbr[i], id)
      BY <2>3
    <3>2. i \in 1 .. Ops /\ Op(i) = dbr[i].task
      BY <1>2 DEF Ops, Op
    <3> QED
      BY <3>1, <3>2 DEF Pipeline, InPipeline, StoredBy
  <2> QED
    BY <2>1, <2>2, <2>3 DEF Inserting
<1> DEFINE W == Unfinished \ (Active \cup dropped)
           f == [id \in W |-> CHOOSE i \in Pipeline : Op(i).id = id]
<1>4. \A id \in W : f[id] \in Pipeline /\ Op(f[id]).id = id
  BY <1>3
<1> HIDE DEF f
<1>5. f \in Injection(W, Pipeline)
  <2>1. f \in [W -> Pipeline]
    BY <1>4 DEF f
  <2> QED
    BY <1>4, <2>1 DEF Injection, IsInjective
<1>6. IsFiniteSet(W) /\ Cardinality(W) <= Cardinality(Pipeline) /\ Cardinality(W) \in Nat
  BY <1>1, <1>5, FS_Injection, FS_CardinalityType
<1>7. /\ IsFiniteSet(Active \cup W)
      /\ Cardinality(Active \cup W) <= Cardinality(Active) + Cardinality(W)
      /\ Cardinality(Active \cup W) \in Nat
  <2>1. Active \cap W = {}
    OBVIOUS
  <2> HIDE DEF W
  <2>2. Cardinality(Active \cap W) = 0
    BY <2>1, FS_EmptySet
  <2>3. /\ IsFiniteSet(Active \cup W)
        /\ Cardinality(Active \cup W) =
             Cardinality(Active) + Cardinality(W) - Cardinality(Active \cap W)
    BY <1>1, <1>6, FS_Union
  <2>4. Cardinality(Active \cup W) \in Nat
    BY <2>3, FS_CardinalityType
  <2> QED
    BY <1>1, <1>6, <2>2, <2>3, <2>4
<1> DEFINE A == Active \cup W
<1>8. Unfinished \in SUBSET (A \cup dropped)
  OBVIOUS
<1> HIDE DEF A
<1>8a. /\ IsFiniteSet(A \cup dropped) /\ Cardinality(A \cup dropped) \in Nat
       /\ Cardinality(A \cup dropped) <= Cardinality(A) + Cardinality(dropped)
  <2>1. IsFiniteSet(A) /\ Cardinality(A) \in Nat
    BY <1>7 DEF A
  <2>2. /\ IsFiniteSet(A \cup dropped)
        /\ Cardinality(A \cup dropped) =
             Cardinality(A) + Cardinality(dropped) - Cardinality(A \cap dropped)
    BY <1>1, <2>1, FS_Union
  <2>3. Cardinality(A \cup dropped) \in Nat /\ Cardinality(A \cap dropped) \in Nat
    BY <1>1, <2>1, <2>2, FS_CardinalityType, FS_Intersection
  <2> QED
    BY <1>1, <2>1, <2>2, <2>3
<1>9. Cardinality(Unfinished) <= Cardinality(A \cup dropped) /\ Cardinality(Unfinished) \in Nat
  BY <1>1, <1>8, <1>8a, FS_Subset, FS_CardinalityType
<1>10. MaxInflight \in Nat
  BY DatabaseAssumption
<1>11. Cardinality(A) <= Cardinality(Active) + Cardinality(W) /\ Cardinality(A) \in Nat
  BY <1>7 DEF A
<1> HIDE DEF W
<1> QED
  BY <1>1, <1>6, <1>8a, <1>9, <1>10, <1>11 DEF AdmitInv, RestartNeverRefused

(* For every limit and every number of requests: the admission check keeps *)
(* the unfinished rows within max_inflight_commands, so the next start is  *)
(* not refused.                                                            *)
THEOREM RestartIsNeverRefused == NoLostInsert => (Spec => []RestartNeverRefused)
<1> SUFFICES ASSUME NoLostInsert PROVE Spec => []RestartNeverRefused
  OBVIOUS
<1>1. TypeInv /\ AdmitInv /\ SupervisedInv => RestartNeverRefused
  BY UnfinishedCount
<1> QED
  BY <1>1, AdmitHolds, SupervisedHolds, PTL

-------------------------------------------------------------------------------
(* Acks that come before the publish completion.  Without commits in doubt *)
(* the row of a command that is pending in memory has moved on only if the *)
(* result of pending -> dispatched waits, before any result that shows the *)
(* later row: it is the one that applies the ack.                          *)
NoDoubtfulCommit == "db" \notin Faults

Beyond == {"dispatched", "in_progress"}

Dispatches(r, id) == /\ r.task.kind = "transition" /\ r.out = "row"
                     /\ r.rid = id /\ r.st = "dispatched"

ShowsBeyond(r, id) == /\ r.task.kind \in {"transition", "findById"} /\ r.out = "row"
                      /\ r.rid = id /\ r.st \in Beyond

(* The status in memory is not ahead of the row, nor of a waiting result.  *)
ActivePast ==
    \A id \in Ids : active[id].status # "none" =>
       /\ Later(active[id].status, row[id])
       /\ \A i \in 1 .. Len(dbr) :
            (dbr[i].out = "row" /\ dbr[i].rid = id) => Later(active[id].status, dbr[i].st)

(* The row of a command stays as inserted until that result is handled.    *)
InsertCurrent ==
    \A i \in 1 .. Len(dbr), id \in Ids : StoredBy(dbr[i], id) => row[id] = dbr[i].st

(* No transition leads back to pending. *)
NotBack ==
    \A i \in 1 .. Len(dbr) :
       (dbr[i].out = "row" /\ dbr[i].task.kind = "transition") => dbr[i].st # "pending"

PendingInv ==
    \A id \in Ids : active[id].status = "pending" =>
       /\ row[id] \in Beyond => \E j \in 1 .. Len(dbr) : Dispatches(dbr[j], id)
       /\ \A i \in 1 .. Len(dbr) : ShowsBeyond(dbr[i], id) =>
            \E j \in 1 .. i : Dispatches(dbr[j], id)

EarlyInv == \A id \in Ids : early[id] # "none" => active[id].status = "pending"

(* Every step keeps memory behind the table. *)
LEMMA PastStep ==
  ASSUME TypeInv, OrderInv, ActivePast, [Next]_vars
  PROVE  ActivePast'
<1> SUFFICES ASSUME NEW id \in Ids, active'[id].status # "none"
             PROVE  /\ Later(active'[id].status, row'[id])
                    /\ \A i \in 1 .. Len(dbr') :
                         (dbr'[i].out = "row" /\ dbr'[i].rid = id)
                            => Later(active'[id].status, dbr'[i].st)
  BY DEF ActivePast
<1> DEFINE s == active'[id].status
<1>1. /\ dbr \in Seq(Result) /\ Len(dbr) \in Nat /\ row[id] \in RowStatus
      /\ row \in [Ids -> RowStatus]
  BY DEF TypeInv, TypeOK
<1>2. s \in RowStatus /\ row'[id] \in RowStatus
  <2>1. TypeInv'
    BY TypeStep
  <2> QED
    BY <2>1 DEF TypeInv, TypeOK, RowStatus, CommandStatus
<1>3. CASE CrashAndRestart
  <2>1. dbr' = <<>> /\ s = row[id] /\ row'[id] = row[id]
    BY <1>3 DEF CrashAndRestart, LoadActive, Inactive, Unfinished
  <2> QED
    BY <1>1, <2>1, LaterBounds
<1>4. CASE ~CrashAndRestart
  <2>1. \/ active'[id] = active[id]
        \/ /\ dbr # <<>> /\ Head(dbr).out = "row" /\ Head(dbr).rid = id
           /\ s = Head(dbr).st
    BY <1>4, ActiveStep
  <2>2. Later(s, row[id])
    <3>1. CASE active'[id] = active[id]
      BY <3>1 DEF ActivePast
    <3>2. CASE dbr # <<>> /\ Head(dbr).out = "row" /\ Head(dbr).rid = id /\ s = Head(dbr).st
      BY <1>1, <3>2, TailElements DEF OrderInv, SnapshotIsBetween
    <3> QED
      BY <2>1, <3>1, <3>2
  <2>3. ASSUME NEW j \in 1 .. Len(dbr), dbr[j].out = "row", dbr[j].rid = id
        PROVE  Later(s, dbr[j].st)
    <3>1. CASE active'[id] = active[id]
      BY <2>3, <3>1 DEF ActivePast
    <3>2. CASE dbr # <<>> /\ Head(dbr).out = "row" /\ Head(dbr).rid = id /\ s = Head(dbr).st
      <4>1. Head(dbr) = dbr[1] /\ 1 \in 1 .. Len(dbr)
        BY <1>1, <3>2, TailElements
      <4>2. CASE j = 1
        BY <1>2, <3>2, <4>1, <4>2, LaterBounds
      <4>3. CASE j # 1
        <5>1. 1 < j
          BY <1>1, <4>3
        <5> QED
          BY <2>3, <3>2, <4>1, <5>1 DEF OrderInv, SnapshotsInOrder
      <4> QED
        BY <4>2, <4>3
    <3> QED
      BY <2>1, <3>1, <3>2
  <2>4. Later(s, row'[id])
    <3>1. Later(row[id], row'[id])
      BY RowStep
    <3> HIDE DEF s
    <3> QED
      BY <1>1, <1>2, <2>2, <3>1, LaterTransitive
  <2>5. ASSUME NEW i \in 1 .. Len(dbr'), dbr'[i].out = "row", dbr'[i].rid = id
        PROVE  Later(s, dbr'[i].st)
    <3>1. PICK k \in {0, 1} : ResultsMove(k)
      BY ResultsStep
    <3>2. CASE i + k \in 1 .. Len(dbr) /\ dbr'[i] = dbr[i + k]
      BY <2>3, <2>5, <3>2
    <3>3. CASE dbq # <<>> /\ dbr'[i] = Answer(Head(dbq)) /\ row' \in Table(Head(dbq))
      <4>1. Head(dbq) \in Task /\ TaskOK(Head(dbq))
        BY <3>3, TailElements DEF TypeInv, TypeOK, QueuesOK
      <4>2. dbr'[i].st = row'[id]
        BY <2>5, <3>3, <4>1, AnswerIsCurrent
      <4> QED
        BY <2>4, <4>2
    <3>4. CASE dbr'[i] = Unanswered(Head(dbq), "failed")
      BY <2>5, <3>4 DEF Unanswered
    <3> QED
      BY <3>1, <3>2, <3>3, <3>4 DEF ResultsMove
  <2> QED
    BY <2>4, <2>5
<1> QED
  BY <1>3, <1>4

(* No step answers a transition with a pending row. *)
LEMMA NotBackStep ==
  ASSUME TypeInv, NotBack, [Next]_vars
  PROVE  NotBack'
<1> SUFFICES ASSUME NEW i \in 1 .. Len(dbr'), dbr'[i].out = "row",
                    dbr'[i].task.kind = "transition"
             PROVE  dbr'[i].st # "pending"
  BY DEF NotBack
<1>1. PICK k \in {0, 1} : ResultsMove(k)
  BY ResultsStep
<1>2. CASE i + k \in 1 .. Len(dbr) /\ dbr'[i] = dbr[i + k]
  BY <1>2 DEF NotBack
<1>3. CASE dbq # <<>> /\ dbr'[i] = Answer(Head(dbq))
  <2> DEFINE t == Head(dbq)
  <2>1. t \in Task /\ TaskOK(t)
    BY <1>3, TailElements DEF TypeInv, TypeOK, QueuesOK
  <2>2. t.kind = "transition"
    BY <1>3, <2>1, AnswerTypes
  <2>3. \A out : Unanswered(t, out).out = out
    BY DEF Unanswered
  <2>4. Answer(t) = IF ~CanTransition(t.from, t.to) THEN Unanswered(t, "failed")
                    ELSE IF row[t.id] = t.from THEN Answered(t, t.id, t.to)
                    ELSE Unanswered(t, "conflict")
    BY <2>2, AnswerCases
  <2>5. CanTransition(t.from, t.to) /\ Answer(t) = Answered(t, t.id, t.to)
    BY <1>3, <2>3, <2>4
  <2>6. Answer(t).st = t.to
    BY <2>5 DEF Answered
  <2> QED
    BY <1>3, <2>5, <2>6 DEF CanTransition, TerminalStatus
<1>4. CASE dbr'[i] = Unanswered(Head(dbq), "failed")
  BY <1>4 DEF Unanswered
<1> QED
  BY <1>1, <1>2, <1>3, <1>4 DEF ResultsMove

(* A statement about another command leaves a row with a waiting result.   *)
LEMMA RowElsewhere ==
  ASSUME TypeInv, dbq # <<>>, NEW table \in Table(Head(dbq)), NEW id \in Ids,
         Head(dbq).id # id, NEW j \in 1 .. Len(dbr), dbr[j].task.id = id
  PROVE  table[id] = row[id]
<1> DEFINE t == Head(dbq)
<1>1. t \in Task /\ row \in [Ids -> RowStatus]
  BY TailElements DEF TypeInv, TypeOK
<1>2. CASE t.kind = "insert"
  <2>1. table = row \/ table = [row EXCEPT ![t.id] = t.to]
    BY <1>2, TableCases
  <2> QED
    BY <1>1, <2>1
<1>3. CASE t.kind = "transition"
  <2>1. table = row \/ table = [row EXCEPT ![t.id] = t.to]
    BY <1>3, TableCases
  <2> QED
    BY <1>1, <2>1
<1>4. CASE t.kind = "cleanup"
  <2>1. PICK S \in SUBSET Expendable : table = [i \in Ids |-> IF i \in S THEN "gone" ELSE row[i]]
    BY <1>4, TableCases
  <2>2. id \notin Expendable
    BY DEF Expendable
  <2> QED
    BY <2>1, <2>2
<1>5. CASE t.kind \in {"find", "findById"}
  BY <1>5, TableCases
<1> QED
  BY <1>1, <1>2, <1>3, <1>4, <1>5 DEF Task

(* Every step keeps the row as inserted until the result is handled. *)
LEMMA CurrentStep ==
  ASSUME TypeInv, OrderInv, UnusedInv, InsertCurrent, [Next]_vars
  PROVE  InsertCurrent'
<1> SUFFICES ASSUME NEW i \in 1 .. Len(dbr'), NEW id \in Ids, StoredBy(dbr'[i], id)
             PROVE  row'[id] = dbr'[i].st
  BY DEF InsertCurrent
<1>1. dbq \in Seq(Task) /\ dbr \in Seq(Result) /\ Len(dbr) \in Nat /\ Len(dbq) \in Nat
  BY DEF TypeInv, TypeOK
<1>2. PICK k \in {0, 1} : ResultsMove(k)
  BY ResultsStep
<1>3. ASSUME i + k \in 1 .. Len(dbr), dbr'[i] = dbr[i + k]
      PROVE  row'[id] = dbr'[i].st
  <2> DEFINE j == i + k
  <2>1. j \in 1 .. Len(dbr) /\ StoredBy(dbr[j], id) /\ row[id] = dbr'[i].st
    BY <1>3 DEF InsertCurrent
  <2>2. CASE row' = row
    BY <2>1, <2>2
  <2>3. CASE dbq # <<>> /\ row' \in Table(Head(dbq))
    <3> HIDE DEF j
    <3>1. j \in 1 .. Ops /\ Op(j) = dbr[j].task
      BY <1>1, <2>1 DEF Ops, Op
    <3>2. Len(dbr) + 1 \in 1 .. Ops /\ Op(Len(dbr) + 1) = Head(dbq)
      BY <1>1, <2>3 DEF Ops, Op
    <3>3. Len(dbr) + 1 # j
      BY <1>1, <2>1
    <3>4. Head(dbq).id # id
      BY <2>1, <3>1, <3>2, <3>3 DEF UnusedInv, StoredBy
    <3>5. dbr[j].task.id = id
      BY <2>1 DEF StoredBy
    <3> QED
      BY <2>1, <2>3, <3>4, <3>5, RowElsewhere
  <2>4. CASE Restarts
    BY <1>1, <2>4 DEF Restarts
  <2> QED
    BY <2>2, <2>3, <2>4, StepKinds DEF Quiet, Handles, Generates, Executes, GivesUp
<1>4. CASE dbq # <<>> /\ dbr'[i] = Answer(Head(dbq)) /\ row' \in Table(Head(dbq))
  <2>1. Head(dbq) \in Task /\ TaskOK(Head(dbq))
    BY <1>4, TailElements DEF TypeInv, TypeOK, QueuesOK
  <2> QED
    BY <1>4, <2>1, AnswerIsCurrent DEF StoredBy
<1>5. CASE dbr'[i] = Unanswered(Head(dbq), "failed")
  BY <1>5 DEF Unanswered, StoredBy
<1> QED
  BY <1>2, <1>3, <1>4, <1>5 DEF ResultsMove

(* Results wait until they are handled. *)
LEMMA ResultsKept ==
  ASSUME TypeInv, [Next]_vars, ~CrashAndRestart, NEW j \in 1 .. Len(dbr)
  PROVE  /\ Consumes => j = 1 \/ (j - 1 \in 1 .. Len(dbr') /\ dbr'[j - 1] = dbr[j])
         /\ ~Consumes => j \in 1 .. Len(dbr') /\ dbr'[j] = dbr[j]
<1>1. dbq \in Seq(Task) /\ dbr \in Seq(Result) /\ Len(dbr) \in Nat
  BY DEF TypeInv, TypeOK
<1>2. CASE Consumes
  <2>1. Len(dbr') = Len(dbr) - 1 /\ \A i \in 1 .. Len(dbr) - 1 : dbr'[i] = dbr[i + 1]
    BY <1>1, <1>2, TailElements DEF Consumes
  <2>2. ASSUME j # 1
        PROVE  j - 1 \in 1 .. Len(dbr) - 1 /\ (j - 1) + 1 = j
    BY <1>1, <2>2
  <2> QED
    BY <1>2, <2>1, <2>2
<1>3. CASE dbr' = dbr
  <2>1. ~Consumes
    BY <1>1, <1>3, TailElements DEF Consumes
  <2> QED
    BY <1>3, <2>1
<1>4. CASE Executes
  <2>1. dbq # <<>> => Head(dbq) \in Task /\ TaskOK(Head(dbq))
    BY <1>1, TailElements DEF TypeInv, QueuesOK
  <2>2. dbq # <<>> => /\ Answer(Head(dbq)) \in Result
                      /\ Unanswered(Head(dbq), "failed") \in Result
    BY <2>1, AnswerTypes DEF Unanswered, Result, RowStatus
  <2>3. dbr' = dbr \/ \E r \in Result : dbr' = Append(dbr, r)
    BY <1>4, <2>2 DEF Executes
  <2>4. ASSUME NEW r \in Result, dbr' = Append(dbr, r)
        PROVE  ~Consumes /\ j \in 1 .. Len(dbr') /\ dbr'[j] = dbr[j]
    <3>1. Len(dbr') = Len(dbr) + 1 /\ \A i \in 1 .. Len(dbr) : dbr'[i] = dbr[i]
      BY <1>1, <2>4, AppendElements
    <3>2. ~Consumes
      BY <1>1, <3>1, TailElements DEF Consumes
    <3> QED
      BY <1>1, <3>1, <3>2
  <2> QED
    BY <1>3, <2>3, <2>4
<1> QED
  BY <1>2, <1>3, <1>4, StepKinds DEF Quiet, Handles, Generates, GivesUp, Consumes

(* Without commits in doubt a row is dispatched together with the result   *)
(* that says so.                                                           *)
LEMMA RowAdvances ==
  ASSUME NoDoubtfulCommit, TypeInv, OrderInv, [Next]_vars, ~CrashAndRestart, NEW id \in Ids,
         row[id] \notin Beyond, row'[id] \in Beyond
  PROVE  \E j \in 1 .. Len(dbr') : Dispatches(dbr'[j], id)
<1> DEFINE t == Head(dbq)
<1>1. row' # row /\ row \in [Ids -> RowStatus] /\ dbr \in Seq(Result) /\ Len(dbr) \in Nat
  BY DEF TypeInv, TypeOK
<1>2. dbq # <<>> /\ row' \in Table(t) /\ dbr' = Append(dbr, Answer(t))
  BY <1>1, StepKinds DEF Quiet, Handles, Generates, Executes, GivesUp, NoDoubtfulCommit
<1>3. t \in Task /\ TaskOK(t)
  BY <1>2, TailElements DEF TypeInv, TypeOK, QueuesOK
<1>4. CASE t.kind = "insert"
  <2>1. row' = [row EXCEPT ![t.id] = t.to] /\ t.to \in {"pending", "failed"}
    BY <1>1, <1>2, <1>3, <1>4, TableCases DEF TaskOK
  <2> QED
    BY <1>1, <2>1 DEF Beyond
<1>5. CASE t.kind = "transition"
  <2>1. CanTransition(t.from, t.to) /\ row[t.id] = t.from /\ row' = [row EXCEPT ![t.id] = t.to]
    BY <1>1, <1>2, <1>5, TableCases
  <2>2. t.id = id /\ t.to = row'[id] /\ t.from = row[id]
    BY <1>1, <2>1
  <2>3. t.to = "dispatched"
    BY <2>1, <2>2 DEF CanTransition, Beyond, TerminalStatus
  <2>4. Answer(t) = Answered(t, t.id, t.to)
    BY <1>5, <2>1, AnswerCases
  <2>5. Dispatches(Answer(t), id)
    BY <1>5, <2>2, <2>3, <2>4 DEF Answered, Dispatches
  <2>6. Answer(t) \in Result
    BY <1>3, AnswerTypes
  <2> HIDE DEF t
  <2>7. Len(dbr') = Len(dbr) + 1 /\ dbr'[Len(dbr) + 1] = Answer(t)
    BY <1>1, <1>2, <2>6, AppendElements
  <2> QED
    BY <1>1, <2>5, <2>7
<1>6. CASE t.kind = "cleanup"
  <2>1. PICK S \in SUBSET Expendable : row' = [i \in Ids |-> IF i \in S THEN "gone" ELSE row[i]]
    <3>1. Table(t) = {[i \in Ids |-> IF i \in S THEN "gone" ELSE row[i]] :
                        S \in SUBSET Expendable}
      BY <1>6, TableCases
    <3> QED
      BY <1>2, <3>1
  <2> QED
    BY <2>1 DEF Beyond
<1>7. CASE t.kind \in {"find", "findById"}
  BY <1>1, <1>2, <1>7, TableCases
<1> QED
  BY <1>3, <1>4, <1>5, <1>6, <1>7 DEF Task

(* A result that dispatches a pending command makes it dispatched. *)
LEMMA DispatchTaken ==
  ASSUME TypeInv, [Next]_vars, ~CrashAndRestart, NEW id \in Ids, Consumes,
         Dispatches(Head(dbr), id)
  PROVE  active'[id].status = "dispatched"
<1>1. HandleTransitioned
  BY TakenByHandler DEF HandleDatabaseResult, HandleFound, HandleNotFound, HandleInsertLost,
     HandleInserted, HandleTransitionConflict, ConvergeAfterConflict, HandleLoggedResult,
     NextResult, Dispatches
<1>2. Head(dbr).rid = id /\ Head(dbr).st = "dispatched"
  BY DEF Dispatches
<1>3. ~IsTerminal("dispatched")
  BY DEF IsTerminal, TerminalStatus
<1>4. \E dl : active' = [active EXCEPT ![id] = [status |-> "dispatched", dl |-> dl]]
  BY <1>1, <1>2, <1>3 DEF HandleTransitioned
<1> QED
  BY <1>4, StatusSet

(* A command becomes pending by its insertion, before anything else        *)
(* happened to it, or by a restart.                                        *)
LEMMA BecomesPending ==
  ASSUME TypeInv, OrderInv, OwnRow, UnusedInv, BusyInv, ActivePast, InsertCurrent, NotBack,
         [Next]_vars, ~CrashAndRestart, NEW id \in Ids,
         active[id].status # "pending", active'[id].status = "pending"
  PROVE  /\ Consumes /\ row'[id] = "pending"
         /\ \A i \in 1 .. Len(dbr') : ~ShowsBeyond(dbr'[i], id)
<1>1. /\ dbr \in Seq(Result) /\ Len(dbr) \in Nat /\ Len(dbq) \in Nat
      /\ active \in [Ids -> [status : ActiveStatus \cup {"none"}, dl : Nat]]
  BY DEF TypeInv, TypeOK
<1>2. /\ dbr # <<>> /\ dbr' = Tail(dbr) /\ Head(dbr).out = "row" /\ Head(dbr).rid = id
      /\ \/ Head(dbr).task.kind \in {"transition", "findById"}
         \/ Head(dbr).task.kind = "insert" /\ Head(dbr).task.id = id
      /\ Head(dbr).st = "pending"
  BY ActiveStep
<1>3. Consumes /\ Head(dbr) = dbr[1] /\ 1 \in 1 .. Len(dbr)
  BY <1>1, <1>2, TailElements DEF Consumes
<1>4. Head(dbr).task.kind = "insert" /\ Head(dbr).task.id = id
  <2>1. CASE active[id].status = "none"
    BY <2>1, ActiveGrows
  <2>2. CASE active[id].status # "none"
    <3>1. active[id].status \in Beyond
      BY <1>1, <2>2 DEF ActiveStatus, Beyond
    <3>2. Later(active[id].status, "pending")
      BY <1>2, <1>3, <2>2 DEF ActivePast
    <3> QED
      BY <3>1, <3>2 DEF Beyond, Later, TerminalStatus
  <2> QED
    BY <2>1, <2>2
<1>5. row[id] = "pending"
  BY <1>2, <1>3, <1>4 DEF InsertCurrent, StoredBy
<1>6. row' = row
  <2>1. HandleDatabaseResult
    BY <1>3, TakenByHandler
  <2> QED
    BY <2>1 DEF HandleDatabaseResult, HandleFound, HandleNotFound, HandleInsertLost,
       HandleInserted, HandleTransitioned, HandleTransitionConflict, ConvergeAfterConflict,
       HandleLoggedResult
<1>7. ASSUME NEW i \in 1 .. Len(dbr'), ShowsBeyond(dbr'[i], id)
      PROVE  FALSE
  <2>1. i + 1 \in 1 .. Len(dbr) /\ dbr'[i] = dbr[i + 1]
    BY <1>1, <1>2, TailElements
  <2>2. dbr[i + 1].task.id = id
    BY <1>7, <2>1 DEF OwnRow, ShowsBeyond
  <2>3. i + 1 \in 1 .. Ops /\ Op(i + 1) = dbr[i + 1].task
    BY <1>1, <2>1 DEF Ops, Op
  <2>4. 1 \in 1 .. Ops /\ Op(1) = Head(dbr).task
    BY <1>3, HeadIsFirstOp
  <2>5. i + 1 # 1
    BY <2>1, <1>7
  <2> QED
    BY <1>4, <2>2, <2>3, <2>4, <2>5 DEF UnusedInv
<1> QED
  BY <1>3, <1>5, <1>6, <1>7

(* Every step keeps the dispatching result ahead. *)
LEMMA PendingStep ==
  ASSUME NoDoubtfulCommit, TypeInv, OrderInv, OwnRow, UnusedInv, BusyInv, ActivePast,
         InsertCurrent, NotBack, PendingInv, [Next]_vars
  PROVE  PendingInv'
<1> SUFFICES ASSUME NEW id \in Ids, active'[id].status = "pending"
             PROVE  /\ row'[id] \in Beyond => \E j \in 1 .. Len(dbr') : Dispatches(dbr'[j], id)
                    /\ \A i \in 1 .. Len(dbr') : ShowsBeyond(dbr'[i], id) =>
                         \E j \in 1 .. i : Dispatches(dbr'[j], id)
  BY DEF PendingInv, Dispatches, ShowsBeyond
<1>1. dbr \in Seq(Result) /\ Len(dbr) \in Nat /\ dbr' \in Seq(Result) /\ Len(dbr') \in Nat
  <2>1. TypeInv'
    BY TypeStep
  <2> QED
    BY <2>1 DEF TypeInv, TypeOK
<1>2. CASE CrashAndRestart
  <2>1. dbr' = <<>> /\ row'[id] = "pending"
    BY <1>2 DEF CrashAndRestart, LoadActive, Inactive, Unfinished
  <2> QED
    BY <2>1 DEF Beyond
<1>3. CASE ~CrashAndRestart /\ active[id].status # "pending"
  BY <1>3, BecomesPending DEF Beyond
<1>4. CASE ~CrashAndRestart /\ active[id].status = "pending"
  <2>1. Consumes => ~Dispatches(Head(dbr), id)
    BY <1>4, DispatchTaken
  <2>2. Consumes => ~Dispatches(dbr[1], id)
    BY <1>1, <2>1, TailElements DEF Consumes
  <2>3. PICK k \in {0, 1} : ResultsMove(k) /\ (k = 1 <=> Consumes)
    BY ResultsStep
  <2>4. ASSUME NEW j \in 1 .. Len(dbr), Dispatches(dbr[j], id)
        PROVE  j - k \in 1 .. Len(dbr') /\ Dispatches(dbr'[j - k], id)
    <3>1. CASE Consumes
      <4>1. k = 1 /\ j # 1
        BY <2>2, <2>3, <2>4, <3>1
      <4> QED
        BY <1>4, <2>4, <3>1, <4>1, ResultsKept
    <3>2. CASE ~Consumes
      <4>1. k = 0 /\ j - 0 = j
        BY <1>1, <2>3, <3>2
      <4> QED
        BY <1>4, <2>4, <3>2, <4>1, ResultsKept
    <3> QED
      BY <3>1, <3>2
  <2>5. ASSUME row'[id] \in Beyond
        PROVE  \E j \in 1 .. Len(dbr') : Dispatches(dbr'[j], id)
    <3>1. CASE row[id] \in Beyond
      <4>1. PICK j \in 1 .. Len(dbr) : Dispatches(dbr[j], id)
        BY <1>4, <3>1 DEF PendingInv
      <4> QED
        BY <2>4, <4>1
    <3>2. CASE row[id] \notin Beyond
      BY <1>4, <2>5, <3>2, RowAdvances
    <3> QED
      BY <3>1, <3>2
  <2>6. ASSUME NEW i \in 1 .. Len(dbr'), ShowsBeyond(dbr'[i], id)
        PROVE  \E j \in 1 .. i : Dispatches(dbr'[j], id)
    <3>1. CASE i + k \in 1 .. Len(dbr) /\ dbr'[i] = dbr[i + k]
      <4>1. PICK j \in 1 .. (i + k) : Dispatches(dbr[j], id)
        BY <1>4, <2>6, <3>1 DEF PendingInv
      <4>2. j \in 1 .. Len(dbr)
        BY <1>1, <3>1, <4>1
      <4>3. j - k \in 1 .. Len(dbr') /\ Dispatches(dbr'[j - k], id)
        BY <2>4, <4>1, <4>2
      <4>4. j - k \in 1 .. i
        BY <1>1, <2>3, <4>1, <4>3
      <4> QED
        BY <4>3, <4>4
    <3>2. CASE i = Len(dbr') /\ dbq # <<>> /\ dbr'[i] = Answer(Head(dbq)) /\ row' \in Table(Head(dbq))
      <4>1. Head(dbq) \in Task /\ TaskOK(Head(dbq))
        BY <3>2, TailElements DEF TypeInv, TypeOK, QueuesOK
      <4>2. dbr'[i].st = row'[id]
        BY <2>6, <3>2, <4>1, AnswerIsCurrent DEF ShowsBeyond
      <4>3. row'[id] \in Beyond
        BY <2>6, <4>2 DEF ShowsBeyond
      <4> QED
        BY <2>5, <3>2, <4>3
    <3>3. CASE dbr'[i] = Unanswered(Head(dbq), "failed")
      BY <2>6, <3>3 DEF Unanswered, ShowsBeyond
    <3> QED
      BY <2>3, <3>1, <3>2, <3>3 DEF ResultsMove
  <2> QED
    BY <2>5, <2>6
<1> QED
  BY <1>2, <1>3, <1>4

(* An ack is kept only for a command that is pending, and is gone when the *)
(* command is not pending any more.                                        *)
LEMMA EarlyStep ==
  ASSUME TypeInv, UnusedInv, NotBack, PendingInv, EarlyInv, [Next]_vars
  PROVE  EarlyInv'
<1> SUFFICES ASSUME NEW id \in Ids, early'[id] # "none"
             PROVE  active'[id].status = "pending"
  BY DEF EarlyInv
<1> DEFINE r == Head(dbr)
<1>1. /\ active \in [Ids -> [status : ActiveStatus \cup {"none"}, dl : Nat]]
      /\ early \in [Ids -> AckStatus \cup {"none"}] /\ dbr \in Seq(Result)
  BY DEF TypeInv, TypeOK
<1>2. early[id] # "none" => active[id].status = "pending"
  BY DEF EarlyInv
<1>3. CASE early' = early /\ active' = active
  BY <1>2, <1>3
<1>4. CASE CrashAndRestart
  BY <1>4 DEF CrashAndRestart
<1>5. ASSUME NEW i \in Ids, NEW ack \in AckStatus, HandleDeviceAck(i, ack)
      PROVE  active'[id].status = "pending"
  <2>1. active' = active
    BY <1>5 DEF HandleDeviceAck
  <2>2. \/ active[i].status = "pending" /\ early' = [early EXCEPT ![i] = KeepEarly(i, ack)]
        \/ early' = early
    BY <1>5 DEF HandleDeviceAck
  <2> QED
    BY <1>1, <1>2, <2>1, <2>2
<1>6. ASSUME dbr # <<>>, Forget(r.rid), r.rid \in Ids
      PROVE  active'[id].status = "pending"
  <2>1. /\ active' = [active EXCEPT ![r.rid] = Inactive]
        /\ early' = [early EXCEPT ![r.rid] = "none"]
    BY <1>6 DEF Forget
  <2>2. id # r.rid
    BY <1>1, <1>6, <2>1
  <2> QED
    BY <1>1, <1>2, <1>6, <2>1, <2>2
<1>7. ASSUME dbr # <<>>, r.rid \in Ids, early' = early, NEW dl,
             active' = [active EXCEPT ![r.rid] = [status |-> r.st, dl |-> dl]],
             (r.rid = id /\ active[id].status = "pending") => r.st = "pending"
      PROVE  active'[id].status = "pending"
  <2>1. active[id].status = "pending"
    BY <1>2, <1>7
  <2>2. CASE r.rid = id
    BY <1>7, <2>1, <2>2, StatusSet
  <2>3. CASE r.rid # id
    BY <1>1, <1>7, <2>1, <2>3
  <2> QED
    BY <2>2, <2>3
<1>8. ASSUME dbr # <<>>, r.out = "row", r.task.kind \in {"transition", "findById"},
             r.rid = id, active[id].status = "pending", ~IsTerminal(r.st)
      PROVE  r.st = "pending" \/ (r.task.kind = "transition" /\ r.st = "dispatched")
  <2>1. r = dbr[1] /\ 1 \in 1 .. Len(dbr) /\ r.st \in CommandStatus
    BY <1>1, <1>8, HeadTypes, TailElements DEF ResultOK
  <2>2. r.st = "pending" \/ r.st \in Beyond
    BY <1>8, <2>1 DEF CommandStatus, ActiveStatus, IsTerminal, Beyond
  <2>3. CASE r.st \in Beyond
    <3>1. ShowsBeyond(dbr[1], id)
      BY <1>8, <2>1, <2>3 DEF ShowsBeyond
    <3>2. PICK j \in 1 .. 1 : Dispatches(dbr[j], id)
      BY <1>8, <2>1, <3>1 DEF PendingInv
    <3>3. j = 1
      BY <3>2
    <3> QED
      BY <2>1, <3>2, <3>3 DEF Dispatches
  <2> QED
    BY <2>2, <2>3
<1>9. CASE HandleInserted
  <2>1. /\ dbr # <<>> /\ dbr' = Tail(dbr) /\ r.out = "row" /\ r.task.kind = "insert"
        /\ r.rid = r.task.id
    BY <1>9 DEF HandleInserted, NextResult
  <2>2. r.rid \in Ids
    BY <2>1, HeadTypes
  <2>3. active[r.rid].status = "none"
    <3>1. 1 \in 1 .. Ops /\ Op(1) = r.task
      BY <2>1, HeadIsFirstOp DEF Consumes
    <3> QED
      BY <2>1, <3>1 DEF UnusedInv, Idle, Untouched
  <2>4. \/ Forget(r.rid)
        \/ early' = early /\ active' = [active EXCEPT ![r.rid] = [status |-> r.st, dl |-> r.task.dl]]
    BY <1>9, <2>1 DEF HandleInserted
  <2> QED
    BY <1>6, <1>7, <2>1, <2>2, <2>3, <2>4
<1>10. CASE HandleTransitioned
  <2>1. dbr # <<>> /\ r.out = "row" /\ r.task.kind = "transition" /\ r.rid \in Ids
    BY <1>10, HeadTypes DEF HandleTransitioned, NextResult
  <2>2. CASE IsTerminal(r.st)
    BY <1>6, <1>10, <2>1, <2>2 DEF HandleTransitioned
  <2>3. CASE ~IsTerminal(r.st) /\ EarlyAckWaits(r.rid, r.st)
    <3>1. /\ early' = [early EXCEPT ![r.rid] = "none"]
          /\ active' = [active EXCEPT ![r.rid] = [status |-> r.st, dl |-> r.task.dl]]
      BY <1>10, <2>3 DEF HandleTransitioned
    <3>2. id # r.rid /\ early'[id] = early[id]
      BY <1>1, <2>1, <3>1
    <3>3. active'[id] = active[id]
      BY <1>1, <3>1, <3>2
    <3> QED
      BY <1>2, <3>2, <3>3
  <2>4. CASE ~IsTerminal(r.st) /\ ~EarlyAckWaits(r.rid, r.st)
    <3>1. /\ early' = early
          /\ active' = [active EXCEPT ![r.rid] = [status |-> r.st, dl |-> r.task.dl]]
      BY <1>10, <2>4 DEF HandleTransitioned
    <3>2. ASSUME r.rid = id, active[id].status = "pending"
          PROVE  r.st = "pending"
      <4>1. r.st # "dispatched"
        BY <2>4, <3>1, <3>2 DEF EarlyAckWaits
      <4> QED
        BY <1>8, <2>1, <2>4, <3>2, <4>1
    <3> QED
      BY <1>7, <2>1, <3>1, <3>2
  <2> QED
    BY <2>2, <2>3, <2>4
<1>11. CASE ConvergeAfterConflict
  <2>1. dbr # <<>> /\ r.out = "row" /\ r.task.kind = "findById" /\ r.rid \in Ids
    BY <1>11, HeadTypes DEF ConvergeAfterConflict, NextResult
  <2>2. \/ Forget(r.rid)
        \/ early' = early /\ active' = active
        \/ /\ ~IsTerminal(r.st) /\ early' = early
           /\ active' = [active EXCEPT ![r.rid] = [status |-> r.st, dl |-> r.task.dl]]
    BY <1>11 DEF ConvergeAfterConflict
  <2>3. CASE /\ ~IsTerminal(r.st) /\ early' = early
             /\ active' = [active EXCEPT ![r.rid] = [status |-> r.st, dl |-> r.task.dl]]
    <3>1. (r.rid = id /\ active[id].status = "pending") => r.st = "pending"
      BY <1>8, <2>1, <2>3
    <3> QED
      BY <1>7, <2>1, <2>3, <3>1
  <2> QED
    BY <1>3, <1>6, <2>1, <2>2, <2>3
<1>12. CASE /\ HandleDatabaseResult
            /\ ~(HandleInserted \/ HandleTransitioned \/ ConvergeAfterConflict)
  BY <1>3, <1>12 DEF HandleDatabaseResult, HandleFound, HandleNotFound, HandleInsertLost,
     HandleTransitionConflict, HandleLoggedResult, serviceVars
<1>13. CASE \/ \E req \in Requests : HandleSourceRequest(req)
            \/ \E i \in Ids, k \in Slots : HandlePublishCompletion(i, k)
            \/ RetryDeferredTransitions \/ StartScan \/ \E i \in Ids : Scan(i)
  BY <1>3, <1>13 DEF HandleSourceRequest, HandlePublishCompletion, RetryDeferredTransitions,
     StartScan, Scan, serviceVars
<1>14. CASE \/ CallCycleHook \/ \E d \in Devices : OnTargetOnline(d) \/ DeviceGoesOffline(d)
            \/ WaitForNextCheck \/ \E i \in Ids : DeadlinePasses(i)
  BY <1>3, <1>14 DEF CallCycleHook, OnTargetOnline, DeviceGoesOffline, WaitForNextCheck,
     DeadlinePasses, serviceVars
<1>15. CASE DatabaseThread \/ MqttThread \/ UNCHANGED vars
  BY <1>3, <1>15 DEF DatabaseThread, MqttThread, OutsideDatabase, OutsideMqtt, vars, serviceVars
<1> QED
  BY <1>4, <1>5, <1>9, <1>10, <1>11, <1>12, <1>13, <1>14, <1>15 DEF Next, BusinessThread

(* Without commits in doubt, for every number of commands, acks, restarts  *)
(* and failures: an ack that came before the publish completion does not   *)
(* stay behind when the command leaves pending.                            *)
THEOREM EarlyAcksAreApplied == NoDoubtfulCommit => (Spec => []EarlyAckIsApplied)
<1> SUFFICES ASSUME NoDoubtfulCommit PROVE Spec => []EarlyAckIsApplied
  OBVIOUS
<1> DEFINE Inv == /\ TypeInv /\ OrderInv /\ OwnRow /\ UnusedInv /\ BusyInv
                  /\ ActivePast /\ InsertCurrent /\ NotBack /\ PendingInv /\ EarlyInv
<1>1. Init => Inv
  <2>1. Init => ActivePast /\ InsertCurrent /\ NotBack /\ PendingInv /\ EarlyInv
    <3> SUFFICES ASSUME Init
                 PROVE  ActivePast /\ InsertCurrent /\ NotBack /\ PendingInv /\ EarlyInv
      OBVIOUS
    <3>1. dbr = <<>> /\ \A id \in Ids : active[id].status = "none" /\ early[id] = "none"
      BY DEF Init, DatabaseInit, Inactive
    <3>2. Len(dbr) = 0
      BY <3>1
    <3> QED
      BY <3>1, <3>2 DEF ActivePast, InsertCurrent, NotBack, PendingInv, EarlyInv
  <2> QED
    BY <2>1, TypeInit, OrderInit, VerdictInit, BusyInit
<1>2. Inv /\ [Next]_vars => Inv'
  BY TypeStep, OrderStep, OwnRowStep, UnusedStep, UnusedRestart, BusyStep, PastStep,
     CurrentStep, NotBackStep, PendingStep, EarlyStep
<1>3. Inv => EarlyAckIsApplied
  BY DEF EarlyInv, EarlyAckIsApplied, Active
<1> QED
  BY <1>1, <1>2, <1>3, PTL DEF Spec
===============================================================================
