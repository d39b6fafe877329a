------------------------- MODULE CommandServiceTypes --------------------------
(***************************************************************************)
(* Type correctness of CommandService, for every value of its constants,   *)
(* and the lemmas on statuses, queues and statements the other theorems    *)
(* rest on.  One lemma per action: each shows first what the steps shared  *)
(* by the handlers (SubmitTransitionOrDefer, PublishRecord, Forget) leave, *)
(* then the variables the handler itself assigns.                          *)
(***************************************************************************)
EXTENDS CommandService, TLAPS

-------------------------------------------------------------------------------
(* The order of statuses *)

(* What was seen before what was seen before is older still. *)
LEMMA LaterTransitive ==
  ASSUME NEW s \in RowStatus, NEW t \in RowStatus, NEW u \in RowStatus,
         Later(s, t), Later(t, u)
  PROVE  Later(s, u)
  BY DEF Later, RowStatus, CommandStatus, ActiveStatus, TerminalStatus

(* A move of the state machine makes a row later, and starts from a status *)
(* that is not terminal.                                                   *)
LEMMA TransitionIsLater ==
  ASSUME NEW s, NEW t, CanTransition(s, t)
  PROVE  /\ s \in ActiveStatus
         /\ t \in CommandStatus
         /\ Later(s, t)
  BY DEF CanTransition, Later, CommandStatus, ActiveStatus, TerminalStatus

(* Every status is later than "absent" and earlier than "gone". *)
LEMMA LaterBounds ==
  ASSUME NEW s \in RowStatus
  PROVE  Later("absent", s) /\ Later(s, s) /\ Later(s, "gone")
  BY DEF Later

-------------------------------------------------------------------------------
(* Sequences *)

(* The elements of a queue after Append. *)
LEMMA AppendElements ==
  ASSUME NEW S, NEW s \in Seq(S), NEW e \in S
  PROVE  /\ Append(s, e) \in Seq(S)
         /\ Len(s) \in Nat
         /\ Len(Append(s, e)) = Len(s) + 1
         /\ \A i \in 1 .. Len(s) : Append(s, e)[i] = s[i]
         /\ Append(s, e)[Len(s) + 1] = e
  OBVIOUS

(* The elements of a queue after its head was taken. *)
LEMMA TailElements ==
  ASSUME NEW S, NEW s \in Seq(S), s # <<>>
  PROVE  /\ Tail(s) \in Seq(S)
         /\ Len(s) \in Nat
         /\ Len(Tail(s)) = Len(s) - 1
         /\ 1 \in 1 .. Len(s)
         /\ Head(s) = s[1] /\ Head(s) \in S
         /\ \A i \in 1 .. Len(s) - 1 : /\ Tail(s)[i] = s[i + 1]
                                       /\ i + 1 \in 1 .. Len(s)
  OBVIOUS

-------------------------------------------------------------------------------
(* What TypeOK leaves open of the queues: a task names the command its     *)
(* statement works on, and a row that was answered has a status.           *)
TaskOK(t) ==
    /\ t.kind \in {"insert", "transition", "findById"} => t.id \in Ids
    /\ t.kind = "insert" => t.to \in {"pending", "failed"}
    /\ t.kind = "find" => t.req \in Requests

ResultOK(r) ==
    /\ TaskOK(r.task)
    /\ r.out = "row" => r.rid \in Ids /\ r.st \in CommandStatus

QueuesOK ==
    /\ \A i \in 1 .. Len(dbq) : TaskOK(dbq[i])
    /\ \A i \in 1 .. Len(dbr) : ResultOK(dbr[i])

TypeInv == TypeOK /\ QueuesOK

(* The statuses a transition or a publication may carry. *)
Carried == CommandStatus \cup {"none"}

(* The tasks the service submits are tasks. *)
LEMMA TaskTypes ==
  /\ \A req \in Requests : FindTask(req) \in Task /\ TaskOK(FindTask(req))
  /\ \A id \in Ids, st \in {"pending", "failed"} :
       InsertTask(id, st) \in Task /\ TaskOK(InsertTask(id, st))
  /\ \A id \in Ids, from, to \in Carried, dl \in Nat :
       /\ TransitionTask(id, from, to, dl) \in Task
       /\ TaskOK(TransitionTask(id, from, to, dl))
       /\ FindByIdTask(id, to, dl) \in Task
       /\ TaskOK(FindByIdTask(id, to, dl))
  /\ CleanupTask \in Task /\ TaskOK(CleanupTask)
  BY DEF Task, TaskOK, FindTask, InsertTask, TransitionTask, FindByIdTask,
         CleanupTask, Carried, CommandStatus, ActiveStatus, TerminalStatus

(* Appending a sound task keeps the task queue sound. *)
LEMMA AppendTask ==
  ASSUME TypeInv, NEW t \in Task, TaskOK(t)
  PROVE  /\ Append(dbq, t) \in Seq(Task)
         /\ \A i \in 1 .. Len(Append(dbq, t)) : TaskOK(Append(dbq, t)[i])
<1>1. dbq \in Seq(Task) /\ \A i \in 1 .. Len(dbq) : TaskOK(dbq[i])
  BY DEF TypeInv, TypeOK, QueuesOK
<1>2. SUFFICES ASSUME NEW i \in 1 .. Len(dbq) + 1
               PROVE  TaskOK(Append(dbq, t)[i])
  BY <1>1, AppendElements
<1>3. i \in 1 .. Len(dbq) \/ i = Len(dbq) + 1
  BY <1>1, AppendElements
<1> QED
  BY <1>1, <1>3, AppendElements

(* SubmitTransitionOrDefer keeps the types. *)
LEMMA SubmitTypes ==
  ASSUME TypeInv, NEW id \in Ids, NEW from \in Carried, NEW to \in Carried,
         NEW dl \in Nat, SubmitTransitionOrDefer(id, from, to, dl)
  PROVE  /\ dbq' \in Seq(Task)
         /\ \A i \in 1 .. Len(dbq') : TaskOK(dbq'[i])
         /\ deferred' \in [Ids -> [from : Carried, to : Carried, dl : Nat]]
         /\ dbAvail' \in BOOLEAN
<1>1. /\ dbq \in Seq(Task) /\ \A i \in 1 .. Len(dbq) : TaskOK(dbq[i])
      /\ deferred \in [Ids -> [from : Carried, to : Carried, dl : Nat]]
      /\ dbAvail \in BOOLEAN
  BY DEF TypeInv, TypeOK, QueuesOK, Carried
<1>2. /\ TransitionTask(id, from, to, dl) \in Task
      /\ TaskOK(TransitionTask(id, from, to, dl))
  BY TaskTypes
<1>3. NothingDeferred \in [from : Carried, to : Carried, dl : Nat]
  BY DEF NothingDeferred, Carried
<1>4. CASE CanSubmit
  BY <1>1, <1>2, <1>3, <1>4, AppendTask DEF SubmitTransitionOrDefer
<1>5. CASE ~CanSubmit
  <2>1. /\ dbAvail' = FALSE /\ dbq' = dbq
        /\ deferred' = [deferred EXCEPT ![id] = [from |-> from, to |-> to, dl |-> dl]]
    BY <1>5 DEF SubmitTransitionOrDefer
  <2> QED
    BY <1>1, <2>1
<1> QED
  BY <1>4, <1>5

(* PublishRecord keeps the types. *)
LEMMA PublishTypes ==
  ASSUME TypeInv, NEW id \in Ids, NEW status \in Carried, NEW dl \in Nat,
         PublishRecord(id, status, dl)
  PROVE  /\ dbq' \in Seq(Task)
         /\ \A i \in 1 .. Len(dbq') : TaskOK(dbq'[i])
         /\ deferred' \in [Ids -> [from : Carried, to : Carried, dl : Nat]]
         /\ dbAvail' \in BOOLEAN
         /\ recovery' \subseteq Ids
         /\ pubs' \in [Ids -> [Slots -> Publication]]
         /\ sent' \in [Ids -> 0 .. 2]
<1>1. /\ dbq \in Seq(Task) /\ \A i \in 1 .. Len(dbq) : TaskOK(dbq[i])
      /\ deferred \in [Ids -> [from : Carried, to : Carried, dl : Nat]]
      /\ dbAvail \in BOOLEAN /\ recovery \subseteq Ids
      /\ pubs \in [Ids -> [Slots -> Publication]] /\ sent \in [Ids -> 0 .. 2]
  BY DEF TypeInv, TypeOK, QueuesOK, Carried
<1>2. CASE ~mqttAvail
  BY <1>1, <1>2 DEF PublishRecord
<1>3. CASE mqttAvail /\ PublishCommandSet(id, status, dl)
                     /\ UNCHANGED <<dbq, deferred, dbAvail>>
  <2>1. [st |-> "inflight", prev |-> status, dl |-> dl] \in Publication
    BY DEF Publication, Carried
  <2>2. pubs' \in [Ids -> [Slots -> Publication]] /\ sent' \in [Ids -> 0 .. 2]
    BY <1>1, <1>3, <2>1 DEF PublishCommandSet
  <2>3. recovery' \subseteq Ids
    BY <1>1, <1>3 DEF PublishRecord
  <2> QED
    BY <1>1, <1>3, <2>2, <2>3
<1>4. CASE mqttAvail /\ PublishCommandSetRefused
                     /\ SubmitTransitionOrDefer(id, status, "failed", dl)
  <2>1. "failed" \in Carried
    BY DEF Carried, CommandStatus, TerminalStatus
  <2>2. recovery' \subseteq Ids /\ UNCHANGED <<pubs, sent>>
    BY <1>1, <1>4 DEF PublishRecord, PublishCommandSetRefused
  <2> QED
    BY <1>1, <1>4, <2>1, <2>2, SubmitTypes
<1> QED
  BY <1>2, <1>3, <1>4 DEF PublishRecord

(* The first result of the queue, and the queue without it. *)
LEMMA NextResultTypes ==
  ASSUME TypeInv, dbr # <<>>, dbr' = Tail(dbr)
  PROVE  /\ Head(dbr) \in Result /\ ResultOK(Head(dbr))
         /\ dbr' \in Seq(Result)
         /\ \A i \in 1 .. Len(dbr') : ResultOK(dbr'[i])
<1>1. dbr \in Seq(Result) /\ \A i \in 1 .. Len(dbr) : ResultOK(dbr[i])
  BY DEF TypeInv, TypeOK, QueuesOK
<1> QED
  BY <1>1, TailElements

(* A request that is looked up keeps the types. *)
LEMMA TypeHandleSourceRequest ==
  ASSUME TypeInv, NEW req \in Requests, HandleSourceRequest(req)
  PROVE  TypeInv'
<1>1. FindTask(req) \in Task /\ TaskOK(FindTask(req))
  BY TaskTypes
<1>2. /\ dbq' \in Seq(Task)
      /\ \A i \in 1 .. Len(dbq') : TaskOK(dbq'[i])
  BY <1>1, AppendTask DEF HandleSourceRequest
<1>3. accepted' \in 0 .. MaxRequests
  BY DatabaseAssumption DEF TypeInv, TypeOK, HandleSourceRequest
<1> QED
  BY <1>2, <1>3 DEF TypeInv, TypeOK, QueuesOK, TaskOK, ResultOK, HandleSourceRequest,
      mqttVars, serviceVars, threadVars, historyVars, workerVars

(* A device ack, kept for later or applied, keeps the types. *)
LEMMA TypeHandleDeviceAck ==
  ASSUME TypeInv, NEW id \in Ids, NEW ack \in AckStatus, HandleDeviceAck(id, ack)
  PROVE  TypeInv'
<1>1. CASE /\ early' = [early EXCEPT ![id] = KeepEarly(id, ack)]
           /\ UNCHANGED <<dbq, deferred, dbAvail>>
  <2>1. early' \in [Ids -> AckStatus \cup {"none"}]
    BY <1>1 DEF TypeInv, TypeOK, KeepEarly
  <2> QED
    BY <1>1, <2>1 DEF TypeInv, TypeOK, QueuesOK, TaskOK, ResultOK, HandleDeviceAck,
      mqttVars, threadVars, environmentVars, historyVars, workerVars
<1>2. CASE /\ ApplyDeviceAck(id, active[id].status, active[id].dl, ack)
           /\ UNCHANGED early
  <2>1. active[id].status \in Carried /\ active[id].dl \in Nat /\ passed[id] \in Nat
    BY DEF TypeInv, TypeOK, Carried, CommandStatus
  <2>2. DesiredAfter(ack) \in Carried
    BY DEF DesiredAfter, AckStatus, Carried, CommandStatus, ActiveStatus, TerminalStatus
  <2>3. (IF ack = "in_progress" THEN Extended(id, active[id].dl) ELSE active[id].dl) \in Nat
    BY <2>1 DEF Extended
  <2>4. /\ dbq' \in Seq(Task)
        /\ \A i \in 1 .. Len(dbq') : TaskOK(dbq'[i])
        /\ deferred' \in [Ids -> [from : Carried, to : Carried, dl : Nat]]
        /\ dbAvail' \in BOOLEAN
    BY <1>2, <2>1, <2>2, <2>3, SubmitTypes DEF ApplyDeviceAck
  <2> QED
    BY <1>2, <2>4 DEF TypeInv, TypeOK, QueuesOK, TaskOK, ResultOK, HandleDeviceAck, Carried,
      mqttVars, threadVars, environmentVars, historyVars, workerVars
<1> QED
  BY <1>1, <1>2 DEF HandleDeviceAck

(* A publish completion keeps the types. *)
LEMMA TypeHandlePublishCompletion ==
  ASSUME TypeInv, NEW id \in Ids, NEW k \in Slots, HandlePublishCompletion(id, k)
  PROVE  TypeInv'
<1>1. pubs[id][k].prev \in Carried /\ pubs[id][k].dl \in Nat
  BY DEF TypeInv, TypeOK, Publication, Carried
<1>2. pubs' \in [Ids -> [Slots -> Publication]]
  BY DEF TypeInv, TypeOK, HandlePublishCompletion, Publication, FreeSlot
<1>3. CASE UNCHANGED <<dbq, deferred, dbAvail>>
  BY <1>2, <1>3 DEF TypeInv, TypeOK, QueuesOK, TaskOK, ResultOK,
     HandlePublishCompletion, threadVars, environmentVars, historyVars, workerVars
<1>4. CASE \E to \in Carried :
             SubmitTransitionOrDefer(id, pubs[id][k].prev, to, pubs[id][k].dl)
  <2>1. /\ dbq' \in Seq(Task)
        /\ \A i \in 1 .. Len(dbq') : TaskOK(dbq'[i])
        /\ deferred' \in [Ids -> [from : Carried, to : Carried, dl : Nat]]
        /\ dbAvail' \in BOOLEAN
    BY <1>1, <1>4, SubmitTypes
  <2> QED
    BY <1>2, <2>1 DEF TypeInv, TypeOK, QueuesOK, TaskOK, ResultOK, Carried,
       HandlePublishCompletion, threadVars, environmentVars, historyVars, workerVars
<1>5. {"dispatched", "delivery_uncertain", "failed"} \subseteq Carried
  BY DEF Carried, CommandStatus, ActiveStatus, TerminalStatus
<1> QED
  BY <1>3, <1>4, <1>5 DEF HandlePublishCompletion

(* Replaying the state of an existing command keeps the types. *)
LEMMA TypeHandleFound ==
  ASSUME TypeInv, HandleFound \/ HandleInsertLost
  PROVE  TypeInv'
<1>1. dbr # <<>> /\ dbr' = Tail(dbr) /\ Head(dbr).out = "row"
  BY DEF HandleFound, HandleInsertLost, NextResult
<1>2. /\ Head(dbr) \in Result /\ ResultOK(Head(dbr))
      /\ dbr' \in Seq(Result)
      /\ \A i \in 1 .. Len(dbr') : ResultOK(dbr'[i])
  BY <1>1, NextResultTypes
<1>3. told' \in [Ids -> RowStatus]
  BY <1>1, <1>2 DEF TypeInv, TypeOK, HandleFound, HandleInsertLost, PublishAck,
     Result
<1> QED
  BY <1>2, <1>3 DEF TypeInv, TypeOK, QueuesOK, TaskOK, ResultOK, HandleFound,
     HandleInsertLost, mqttVars, serviceVars, threadVars, environmentVars, workerVars

(* Generating a command keeps the types. *)
LEMMA TypeHandleNotFound ==
  ASSUME TypeInv, HandleNotFound
  PROVE  TypeInv'
<1>1. dbr # <<>> /\ dbr' = Tail(dbr) /\ Head(dbr).task.kind = "find"
  BY DEF HandleNotFound, NextResult
<1>2. /\ Head(dbr) \in Result /\ ResultOK(Head(dbr))
      /\ dbr' \in Seq(Result)
      /\ \A i \in 1 .. Len(dbr') : ResultOK(dbr'[i])
  BY <1>1, NextResultTypes
<1>3. Head(dbr).task.req \in Requests
  BY <1>1, <1>2 DEF ResultOK, TaskOK
<1>4. PICK id \in Ids :
        /\ info' = [info EXCEPT ![id] = Head(dbr).task.req]
        /\ dbq' = IF CanSubmit
                  THEN Append(dbq, InsertTask(id, InitialStatus(Head(dbr).task.req)))
                  ELSE dbq
  BY DEF HandleNotFound
<1>5. InitialStatus(Head(dbr).task.req) \in {"pending", "failed"}
  BY DEF InitialStatus
<1>6. /\ dbq' \in Seq(Task)
      /\ \A i \in 1 .. Len(dbq') : TaskOK(dbq'[i])
  <2>1. CASE CanSubmit
    <3> DEFINE t == InsertTask(id, InitialStatus(Head(dbr).task.req))
    <3>1. t \in Task /\ TaskOK(t)
      BY <1>5, TaskTypes
    <3> HIDE DEF t
    <3>2. dbq' = Append(dbq, t)
      BY <1>4, <2>1 DEF t
    <3> QED
      BY <3>1, <3>2, AppendTask
  <2>2. CASE ~CanSubmit
    BY <1>4, <2>2 DEF TypeInv, TypeOK, QueuesOK
  <2> QED
    BY <2>1, <2>2
<1>7. info' \in [Ids -> Requests \cup {NoRequest}]
  BY <1>3, <1>4 DEF TypeInv, TypeOK
<1> QED
  BY <1>2, <1>6, <1>7 DEF TypeInv, TypeOK, QueuesOK, TaskOK, ResultOK, HandleNotFound,
     mqttVars, serviceVars, threadVars, environmentVars, historyVars, workerVars

(* Forget keeps the types. *)
LEMMA ForgetTypes ==
  ASSUME TypeInv, NEW id \in Ids, Forget(id)
  PROVE  /\ active' \in [Ids -> [status : ActiveStatus \cup {"none"}, dl : Nat]]
         /\ recovery' \subseteq Ids
         /\ early' \in [Ids -> AckStatus \cup {"none"}]
  BY DEF TypeInv, TypeOK, Forget, Inactive

(* A stored command, published or failed at once, keeps the types. *)
LEMMA TypeHandleInserted ==
  ASSUME TypeInv, HandleInserted
  PROVE  TypeInv'
<1> DEFINE r == Head(dbr)
           id == r.task.id
<1>1. dbr # <<>> /\ dbr' = Tail(dbr) /\ r.out = "row" /\ r.rid = id
  BY DEF HandleInserted, NextResult
<1>2. /\ r \in Result /\ ResultOK(r)
      /\ dbr' \in Seq(Result)
      /\ \A i \in 1 .. Len(dbr') : ResultOK(dbr'[i])
  BY <1>1, NextResultTypes
<1>3. id \in Ids /\ r.st \in CommandStatus /\ r.st \in RowStatus /\ r.task.dl \in Nat
  BY <1>1, <1>2 DEF ResultOK, Result, Task, RowStatus
<1>4. CASE IsTerminal(r.st)
  <2>1. /\ told' = [told EXCEPT ![id] = r.st]
        /\ verdicts' = [verdicts EXCEPT ![id] = IF @ = 0 THEN 1 ELSE 2]
        /\ Forget(id)
        /\ UNCHANGED <<dbq, pubs, sent, deferred, dbAvail>>
    BY <1>4 DEF HandleInserted, PublishAck, CountVerdict
  <2>2. told' \in [Ids -> RowStatus] /\ verdicts' \in [Ids -> 0 .. 2]
    BY <1>3, <2>1 DEF TypeInv, TypeOK
  <2>3. /\ active' \in [Ids -> [status : ActiveStatus \cup {"none"}, dl : Nat]]
        /\ recovery' \subseteq Ids
        /\ early' \in [Ids -> AckStatus \cup {"none"}]
    BY <1>3, <2>1, ForgetTypes
  <2> QED
    BY <1>2, <2>1, <2>2, <2>3 DEF TypeInv, TypeOK, QueuesOK, TaskOK, ResultOK,
       HandleInserted, threadVars, environmentVars, workerVars
<1>5. CASE ~IsTerminal(r.st)
  <2>1. /\ active' = [active EXCEPT ![id] = [status |-> r.st, dl |-> r.task.dl]]
        /\ PublishRecord(id, r.st, r.task.dl)
        /\ UNCHANGED <<early, historyVars>>
    BY <1>5 DEF HandleInserted
  <2>2. r.st \in ActiveStatus /\ r.st \in Carried
    BY <1>3, <1>5 DEF IsTerminal, CommandStatus, Carried
  <2>3. active' \in [Ids -> [status : ActiveStatus \cup {"none"}, dl : Nat]]
    BY <1>3, <2>1, <2>2 DEF TypeInv, TypeOK
  <2>4. /\ dbq' \in Seq(Task)
        /\ \A i \in 1 .. Len(dbq') : TaskOK(dbq'[i])
        /\ deferred' \in [Ids -> [from : Carried, to : Carried, dl : Nat]]
        /\ dbAvail' \in BOOLEAN
        /\ recovery' \subseteq Ids
        /\ pubs' \in [Ids -> [Slots -> Publication]]
        /\ sent' \in [Ids -> 0 .. 2]
    BY <1>3, <2>1, <2>2, PublishTypes
  <2> QED
    BY <1>2, <2>1, <2>3, <2>4 DEF TypeInv, TypeOK, QueuesOK, TaskOK, ResultOK, Carried,
       HandleInserted, threadVars, environmentVars, historyVars, workerVars
<1> QED
  BY <1>4, <1>5

(* A stored transition keeps the types. *)
LEMMA TypeHandleTransitioned ==
  ASSUME TypeInv, HandleTransitioned
  PROVE  TypeInv'
<1> DEFINE r == Head(dbr)
           id == r.rid
<1>1. dbr # <<>> /\ dbr' = Tail(dbr) /\ r.out = "row"
  BY DEF HandleTransitioned, NextResult
<1>2. /\ r \in Result /\ ResultOK(r)
      /\ dbr' \in Seq(Result)
      /\ \A i \in 1 .. Len(dbr') : ResultOK(dbr'[i])
  BY <1>1, NextResultTypes
<1>3. id \in Ids /\ r.st \in CommandStatus /\ r.st \in RowStatus /\ r.task.dl \in Nat
  BY <1>1, <1>2 DEF ResultOK, Result, Task, RowStatus
<1>4. told' \in [Ids -> RowStatus]
  BY <1>3 DEF HandleTransitioned, PublishAck, TypeInv, TypeOK
<1>5. CASE IsTerminal(r.st)
  <2>1. /\ verdicts' = [verdicts EXCEPT ![id] = IF @ = 0 THEN 1 ELSE 2]
        /\ Forget(id)
        /\ UNCHANGED <<dbq, deferred, dbAvail>>
    BY <1>5 DEF HandleTransitioned, CountVerdict
  <2>2. verdicts' \in [Ids -> 0 .. 2]
    BY <1>3, <2>1 DEF TypeInv, TypeOK
  <2>3. /\ active' \in [Ids -> [status : ActiveStatus \cup {"none"}, dl : Nat]]
        /\ recovery' \subseteq Ids
        /\ early' \in [Ids -> AckStatus \cup {"none"}]
    BY <1>3, <2>1, ForgetTypes
  <2> QED
    BY <1>2, <1>4, <2>1, <2>2, <2>3 DEF TypeInv, TypeOK, QueuesOK, TaskOK, ResultOK,
       HandleTransitioned, mqttVars, threadVars, environmentVars, workerVars
<1>6. CASE ~IsTerminal(r.st)
  <2>1. /\ active' = [active EXCEPT ![id] = [status |-> r.st, dl |-> r.task.dl]]
        /\ \/ /\ early[id] # "none"
              /\ early' = [early EXCEPT ![id] = "none"]
              /\ ApplyDeviceAck(id, r.st, r.task.dl, early[id])
           \/ UNCHANGED <<early, dbq, deferred, dbAvail>>
        /\ UNCHANGED <<recovery, verdicts>>
    BY <1>6 DEF HandleTransitioned, EarlyAckWaits
  <2>2. r.st \in ActiveStatus /\ r.st \in Carried
    BY <1>3, <1>6 DEF IsTerminal, CommandStatus, Carried
  <2>3. active' \in [Ids -> [status : ActiveStatus \cup {"none"}, dl : Nat]]
    BY <1>3, <2>1, <2>2 DEF TypeInv, TypeOK
  <2>4. CASE UNCHANGED <<early, dbq, deferred, dbAvail>>
    BY <1>2, <1>4, <2>1, <2>3, <2>4 DEF TypeInv, TypeOK, QueuesOK, TaskOK, ResultOK,
       HandleTransitioned, mqttVars, threadVars, environmentVars, workerVars
  <2>5. CASE /\ early[id] # "none"
             /\ early' = [early EXCEPT ![id] = "none"]
             /\ ApplyDeviceAck(id, r.st, r.task.dl, early[id])
    <3>1. early[id] \in AckStatus /\ passed[id] \in Nat
      BY <1>3, <2>5 DEF TypeInv, TypeOK
    <3>2. DesiredAfter(early[id]) \in Carried
      BY <3>1 DEF DesiredAfter, AckStatus, Carried, CommandStatus, ActiveStatus,
                  TerminalStatus
    <3>3. (IF early[id] = "in_progress" THEN Extended(id, r.task.dl)
           ELSE r.task.dl) \in Nat
      BY <1>3, <3>1 DEF Extended
    <3>4. /\ dbq' \in Seq(Task)
          /\ \A i \in 1 .. Len(dbq') : TaskOK(dbq'[i])
          /\ deferred' \in [Ids -> [from : Carried, to : Carried, dl : Nat]]
          /\ dbAvail' \in BOOLEAN
      BY <1>3, <2>2, <2>5, <3>2, <3>3, SubmitTypes DEF ApplyDeviceAck
    <3>5. early' \in [Ids -> AckStatus \cup {"none"}]
      BY <2>5 DEF TypeInv, TypeOK
    <3> QED
      BY <1>2, <1>4, <2>1, <2>3, <3>4, <3>5 DEF TypeInv, TypeOK, QueuesOK, TaskOK,
         ResultOK, Carried, HandleTransitioned, mqttVars, threadVars, environmentVars,
         workerVars
  <2> QED
    BY <2>1, <2>4, <2>5
<1> QED
  BY <1>5, <1>6

(* Reading a row again after a conflict keeps the types. *)
LEMMA TypeHandleTransitionConflict ==
  ASSUME TypeInv, HandleTransitionConflict
  PROVE  TypeInv'
<1> DEFINE t == Head(dbr).task
           f == FindByIdTask(t.id, t.to, t.dl)
<1>1. dbr # <<>> /\ dbr' = Tail(dbr) /\ t.kind = "transition"
  BY DEF HandleTransitionConflict, NextResult
<1>2. /\ Head(dbr) \in Result /\ ResultOK(Head(dbr))
      /\ dbr' \in Seq(Result)
      /\ \A i \in 1 .. Len(dbr') : ResultOK(dbr'[i])
  BY <1>1, NextResultTypes
<1>3. t.id \in Ids /\ t.to \in Carried /\ t.dl \in Nat
  BY <1>1, <1>2 DEF ResultOK, TaskOK, Result, Task, Carried
<1>4. f \in Task /\ TaskOK(f)
  BY <1>3, TaskTypes
<1>5. /\ dbq' \in Seq(Task)
      /\ \A i \in 1 .. Len(dbq') : TaskOK(dbq'[i])
  <2>1. dbq' = Append(dbq, f) \/ dbq' = dbq
    BY DEF HandleTransitionConflict
  <2> HIDE DEF f
  <2> QED
    BY <1>4, <2>1, AppendTask DEF TypeInv, TypeOK, QueuesOK
<1>6. dbAvail' \in BOOLEAN
  <2>1. dbAvail' = dbAvail \/ dbAvail' = FALSE
    BY DEF HandleTransitionConflict
  <2> QED
    BY <2>1 DEF TypeInv, TypeOK
<1> QED
  BY <1>2, <1>5, <1>6 DEF TypeInv, TypeOK, QueuesOK, TaskOK, ResultOK,
     HandleTransitionConflict, mqttVars, threadVars, environmentVars, historyVars,
     workerVars

(* Converging to the row that was read keeps the types. *)
LEMMA TypeConvergeAfterConflict ==
  ASSUME TypeInv, ConvergeAfterConflict
  PROVE  TypeInv'
<1> DEFINE r == Head(dbr)
           id == r.rid
<1>1. dbr # <<>> /\ dbr' = Tail(dbr) /\ r.out = "row"
  BY DEF ConvergeAfterConflict, NextResult
<1>2. /\ r \in Result /\ ResultOK(r)
      /\ dbr' \in Seq(Result)
      /\ \A i \in 1 .. Len(dbr') : ResultOK(dbr'[i])
  BY <1>1, NextResultTypes
<1>3. /\ id \in Ids /\ r.st \in CommandStatus /\ r.st \in RowStatus
      /\ r.task.dl \in Nat /\ r.task.to \in Carried
  BY <1>1, <1>2 DEF ResultOK, Result, Task, RowStatus, Carried
<1>4. CASE IsTerminal(r.st)
  <2>1. /\ Forget(id)
        /\ \/ /\ told' = [told EXCEPT ![id] = r.st]
              /\ verdicts' = [verdicts EXCEPT ![id] = IF @ = 0 THEN 1 ELSE 2]
           \/ UNCHANGED historyVars
        /\ UNCHANGED <<dbq, deferred, dbAvail>>
    BY <1>4 DEF ConvergeAfterConflict, PublishAck, CountVerdict
  <2>2. told' \in [Ids -> RowStatus] /\ verdicts' \in [Ids -> 0 .. 2]
    <3>1. told \in [Ids -> RowStatus] /\ verdicts \in [Ids -> 0 .. 2]
      BY DEF TypeInv, TypeOK
    <3>2. CASE UNCHANGED historyVars
      BY <3>1, <3>2 DEF historyVars
    <3>3. CASE /\ told' = [told EXCEPT ![id] = r.st]
               /\ verdicts' = [verdicts EXCEPT ![id] = IF @ = 0 THEN 1 ELSE 2]
      BY <1>3, <3>1, <3>3
    <3> QED
      BY <2>1, <3>2, <3>3
  <2>3. /\ active' \in [Ids -> [status : ActiveStatus \cup {"none"}, dl : Nat]]
        /\ recovery' \subseteq Ids
        /\ early' \in [Ids -> AckStatus \cup {"none"}]
    BY <1>3, <2>1, ForgetTypes
  <2> QED
    BY <1>2, <2>1, <2>2, <2>3 DEF TypeInv, TypeOK, QueuesOK, TaskOK, ResultOK,
       ConvergeAfterConflict, mqttVars, threadVars, environmentVars, workerVars
<1>5. CASE /\ SubmitTransitionOrDefer(id, r.st, r.task.to, r.task.dl)
           /\ UNCHANGED <<active, recovery, early, historyVars>>
  <2>1. r.st \in Carried
    BY <1>3 DEF Carried
  <2>2. /\ dbq' \in Seq(Task)
        /\ \A i \in 1 .. Len(dbq') : TaskOK(dbq'[i])
        /\ deferred' \in [Ids -> [from : Carried, to : Carried, dl : Nat]]
        /\ dbAvail' \in BOOLEAN
    BY <1>3, <1>5, <2>1, SubmitTypes
  <2> QED
    BY <1>2, <1>5, <2>2 DEF TypeInv, TypeOK, QueuesOK, TaskOK, ResultOK, Carried,
       ConvergeAfterConflict, mqttVars, threadVars, environmentVars, historyVars, workerVars
<1>6. CASE /\ ~IsTerminal(r.st)
           /\ active' = [active EXCEPT ![id] = [status |-> r.st, dl |-> r.task.dl]]
           /\ UNCHANGED <<recovery, early, dbq, deferred, dbAvail, historyVars>>
  <2>1. r.st \in ActiveStatus
    BY <1>3, <1>6 DEF IsTerminal, CommandStatus
  <2>2. active' \in [Ids -> [status : ActiveStatus \cup {"none"}, dl : Nat]]
    BY <1>3, <1>6, <2>1 DEF TypeInv, TypeOK
  <2> QED
    BY <1>2, <1>6, <2>2 DEF TypeInv, TypeOK, QueuesOK, TaskOK, ResultOK,
       ConvergeAfterConflict, mqttVars, threadVars, environmentVars, historyVars, workerVars
<1> QED
  BY <1>4, <1>5, <1>6 DEF ConvergeAfterConflict

(* A result that is only logged keeps the types. *)
LEMMA TypeHandleLoggedResult ==
  ASSUME TypeInv, HandleLoggedResult
  PROVE  TypeInv'
<1>1. /\ dbr' \in Seq(Result)
      /\ \A i \in 1 .. Len(dbr') : ResultOK(dbr'[i])
  BY NextResultTypes DEF HandleLoggedResult
<1> QED
  BY <1>1 DEF TypeInv, TypeOK, QueuesOK, TaskOK, ResultOK, HandleLoggedResult,
     mqttVars, serviceVars, threadVars, environmentVars, historyVars, workerVars

(* Retrying a deferred transition keeps the types. *)
LEMMA TypeRetryDeferredTransitions ==
  ASSUME TypeInv, RetryDeferredTransitions
  PROVE  TypeInv'
<1>1. CASE UNCHANGED <<dbq, deferred, dbAvail>>
  BY <1>1 DEF TypeInv, TypeOK, QueuesOK, TaskOK, ResultOK, RetryDeferredTransitions,
     mqttVars, environmentVars, historyVars, workerVars
<1>2. CASE \E id \in Ids : SubmitTransitionOrDefer(id, deferred[id].from,
                                deferred[id].to, deferred[id].dl)
  <2>1. \A id \in Ids : /\ deferred[id].from \in Carried /\ deferred[id].to \in Carried
                        /\ deferred[id].dl \in Nat
    BY DEF TypeInv, TypeOK, Carried
  <2>2. /\ dbq' \in Seq(Task)
        /\ \A i \in 1 .. Len(dbq') : TaskOK(dbq'[i])
        /\ deferred' \in [Ids -> [from : Carried, to : Carried, dl : Nat]]
        /\ dbAvail' \in BOOLEAN
    BY <1>2, <2>1, SubmitTypes
  <2> QED
    BY <2>2 DEF TypeInv, TypeOK, QueuesOK, TaskOK, ResultOK, Carried,
       RetryDeferredTransitions, mqttVars, environmentVars, historyVars, workerVars
<1> QED
  BY <1>1, <1>2 DEF RetryDeferredTransitions

(* Starting a scan, with a clean-up or without, keeps the types. *)
LEMMA TypeStartScan ==
  ASSUME TypeInv, StartScan
  PROVE  TypeInv'
<1>1. /\ dbq' \in Seq(Task)
      /\ \A i \in 1 .. Len(dbq') : TaskOK(dbq'[i])
  BY TaskTypes, AppendTask DEF StartScan, TypeInv, TypeOK, QueuesOK
<1> QED
  BY <1>1 DEF TypeInv, TypeOK, QueuesOK, TaskOK, ResultOK, StartScan, Active,
     mqttVars, serviceVars, environmentVars, historyVars, workerVars

(* Visiting a command in a scan keeps the types. *)
LEMMA TypeScan ==
  ASSUME TypeInv, NEW id \in Ids, Scan(id)
  PROVE  TypeInv'
<1>1. active[id].status \in Carried /\ active[id].dl \in Nat /\ "timeout" \in Carried
  BY DEF TypeInv, TypeOK, Carried, CommandStatus, TerminalStatus
<1>2. /\ dbq' \in Seq(Task)
      /\ \A i \in 1 .. Len(dbq') : TaskOK(dbq'[i])
      /\ deferred' \in [Ids -> [from : Carried, to : Carried, dl : Nat]]
      /\ dbAvail' \in BOOLEAN
      /\ recovery' \subseteq Ids
      /\ pubs' \in [Ids -> [Slots -> Publication]]
      /\ sent' \in [Ids -> 0 .. 2]
  <2>1. CASE ScanTimesOut(id)
    <3>1. SubmitTransitionOrDefer(id, active[id].status, "timeout", active[id].dl)
      BY <2>1 DEF ScanTimesOut
    <3>2. /\ dbq' \in Seq(Task)
          /\ \A i \in 1 .. Len(dbq') : TaskOK(dbq'[i])
          /\ deferred' \in [Ids -> [from : Carried, to : Carried, dl : Nat]]
          /\ dbAvail' \in BOOLEAN
      BY <1>1, <3>1, SubmitTypes
    <3> QED
      BY <2>1, <3>2 DEF ScanTimesOut, TypeInv, TypeOK
  <2>2. CASE ScanRepublishes(id)
    BY <1>1, <2>2, PublishTypes DEF ScanRepublishes
  <2>3. CASE ScanSkips(id)
    BY <2>3 DEF ScanSkips, TypeInv, TypeOK, QueuesOK, Carried
  <2> QED
    BY <2>1, <2>2, <2>3 DEF Scan
<1> QED
  BY <1>2 DEF TypeInv, TypeOK, QueuesOK, TaskOK, ResultOK, Carried, Scan,
     environmentVars, historyVars, workerVars

(* The steps of the device phase keep the types. *)
LEMMA TypeDevicePhase ==
  ASSUME TypeInv,
         CallCycleHook \/ \E d \in Devices : OnTargetOnline(d) \/ DeviceGoesOffline(d)
  PROVE  TypeInv'
  BY DEF TypeInv, TypeOK, QueuesOK, TaskOK, ResultOK, CallCycleHook, OnTargetOnline,
     DeviceGoesOffline, CommandsOf, databaseVars, workerVars, mqttVars, serviceVars, threadVars,
     environmentVars, historyVars

(* The poll of the main thread keeps the types. *)
LEMMA TypeWaitForNextCheck ==
  ASSUME TypeInv, WaitForNextCheck
  PROVE  TypeInv'
  BY DEF TypeInv, TypeOK, QueuesOK, TaskOK, ResultOK, WaitForNextCheck,
     IsDatabaseAvailable,
     databaseVars, workerVars, mqttVars, threadVars, environmentVars, historyVars

(* The passing of time keeps the types. *)
LEMMA TypeDeadlinePasses ==
  ASSUME TypeInv, NEW id \in Ids, DeadlinePasses(id)
  PROVE  TypeInv'
  BY DEF TypeInv, TypeOK, QueuesOK, TaskOK, ResultOK, DeadlinePasses,
     databaseVars, workerVars, mqttVars, serviceVars, threadVars, historyVars

(* A restart keeps the types. *)
LEMMA TypeCrashAndRestart ==
  ASSUME TypeInv, CrashAndRestart
  PROVE  TypeInv'
<1>1. row' \in [Ids -> RowStatus]
  BY DEF TypeInv, TypeOK, CrashAndRestart, RowStatus, CommandStatus, TerminalStatus
<1>2. active' \in [Ids -> [status : ActiveStatus \cup {"none"}, dl : Nat]]
  BY DEF CrashAndRestart, LoadActive, Unfinished, Inactive
<1>3. crashes' \in 0 .. MaxCrashes
  BY ServiceAssumption DEF TypeInv, TypeOK, CrashAndRestart
<1>4. /\ pubs' \in [Ids -> [Slots -> Publication]]
      /\ deferred' \in [Ids -> [from : CommandStatus \cup {"none"},
                                to : CommandStatus \cup {"none"}, dl : Nat]]
  BY DEF CrashAndRestart, FreeSlot, Publication, NothingDeferred
<1>5. /\ dbUp' \in BOOLEAN /\ accepting' \in BOOLEAN /\ dbAvail' \in BOOLEAN
      /\ mqttUp' \in BOOLEAN /\ mqttAvail' \in BOOLEAN /\ dropped' \subseteq Ids
  BY DEF CrashAndRestart
<1>6. /\ dbq' \in Seq(Task) /\ Len(dbq') = 0
      /\ dbr' \in Seq(Result) /\ Len(dbr') = 0
  BY DEF CrashAndRestart
<1>7. QueuesOK'
  BY <1>6 DEF QueuesOK
<1>8. /\ early' \in [Ids -> AckStatus \cup {"none"}]
      /\ recovery' \subseteq Ids /\ scan' \subseteq Ids
      /\ pc' \in {"devices", "report", "commands", "sweep"}
  BY DEF CrashAndRestart
<1>9. UNCHANGED <<info, sent, passed, online, accepted, told, verdicts>>
  BY DEF CrashAndRestart, historyVars
<1> QED
  BY <1>1, <1>2, <1>3, <1>4, <1>5, <1>6, <1>7, <1>8, <1>9 DEF TypeInv, TypeOK

(* The MQTT thread keeps the types. *)
LEMMA TypeMqttThread ==
  ASSUME TypeInv, MqttThread
  PROVE  TypeInv'
<1>1. pubs' \in [Ids -> [Slots -> Publication]]
  <2>1. pubs \in [Ids -> [Slots -> Publication]]
    BY DEF TypeInv, TypeOK
  <2>a. \A pub \in Publication, result \in {"ok", "failed"} :
           Completed(pub, result) \in Publication
    BY DEF Completed, Publication
  <2>2. ASSUME NEW id \in Ids, NEW k \in Slots, BrokerCompletes(id, k)
        PROVE  pubs' \in [Ids -> [Slots -> Publication]]
    BY <2>1, <2>2, <2>a DEF BrokerCompletes
  <2>3. CASE MqttDisconnects
    BY <2>1, <2>3, <2>a DEF MqttDisconnects
  <2> QED
    BY <2>1, <2>2, <2>3 DEF MqttThread, MqttConnects
<1>2. mqttUp' \in BOOLEAN /\ UNCHANGED sent
  BY DEF TypeInv, TypeOK, MqttThread, BrokerCompletes, MqttDisconnects, MqttConnects
<1> QED
  BY <1>1, <1>2 DEF TypeInv, TypeOK, QueuesOK, TaskOK, ResultOK, MqttThread, OutsideMqtt,
     databaseVars, workerVars, serviceVars, threadVars, environmentVars, historyVars

(* What each statement answers. *)
LEMMA AnswerCases ==
  ASSUME NEW t
  PROVE  /\ t.kind = "find" => Answer(t) =
              IF WithKey(t.req.key) = {} THEN Unanswered(t, "none")
              ELSE Answered(t, CHOOSE i \in WithKey(t.req.key) : TRUE,
                            row[CHOOSE i \in WithKey(t.req.key) : TRUE])
         /\ t.kind = "insert" => Answer(t) =
              IF KeyOfInsert(t) = {} THEN Answered(t, t.id, t.to)
              ELSE Answered(t, CHOOSE i \in KeyOfInsert(t) : TRUE,
                            row[CHOOSE i \in KeyOfInsert(t) : TRUE])
         /\ t.kind = "transition" => Answer(t) =
              IF ~CanTransition(t.from, t.to) THEN Unanswered(t, "failed")
              ELSE IF row[t.id] = t.from THEN Answered(t, t.id, t.to)
              ELSE Unanswered(t, "conflict")
         /\ t.kind = "findById" => Answer(t) =
              IF Present(t.id) THEN Answered(t, t.id, row[t.id])
              ELSE Unanswered(t, "none")
         /\ t.kind = "cleanup" => Answer(t) = Unanswered(t, "none")
  BY DEF Answer, IsExpected

(* What each statement may do to the table. *)
LEMMA TableCases ==
  ASSUME NEW t
  PROVE  /\ t.kind = "insert" => Table(t) =
              {IF KeyOfInsert(t) = {} THEN [row EXCEPT ![t.id] = t.to] ELSE row}
         /\ t.kind = "transition" => Table(t) =
              {IF CanTransition(t.from, t.to) /\ row[t.id] = t.from
               THEN [row EXCEPT ![t.id] = t.to] ELSE row}
         /\ t.kind = "cleanup" => Table(t) =
              {[id \in Ids |-> IF id \in S THEN "gone" ELSE row[id]] :
                 S \in SUBSET Expendable}
         /\ t.kind \in {"find", "findById"} => Table(t) = {row}
  BY DEF Table, IsExpected

(* An answer is a result; a row it returns exists. *)
LEMMA AnswerTypes ==
  ASSUME TypeInv, NEW t \in Task, TaskOK(t)
  PROVE  /\ Answer(t) \in Result
         /\ ResultOK(Answer(t))
         /\ Answer(t).task = t
<1>1. row \in [Ids -> RowStatus]
  BY DEF TypeInv, TypeOK
<1>2. \A out \in {"none", "conflict", "failed"} :
        /\ Unanswered(t, out) \in Result /\ ResultOK(Unanswered(t, out))
        /\ Unanswered(t, out).task = t
  BY DEF Unanswered, Result, ResultOK, RowStatus
<1>3. \A id \in Ids, st \in CommandStatus :
        /\ Answered(t, id, st) \in Result /\ ResultOK(Answered(t, id, st))
        /\ Answered(t, id, st).task = t
  BY DEF Answered, Result, ResultOK, RowStatus
<1>4. ASSUME NEW key, WithKey(key) # {}
      PROVE  LET i == CHOOSE j \in WithKey(key) : TRUE
             IN  i \in Ids /\ row[i] \in CommandStatus
  BY <1>4 DEF WithKey, Generated, Present
<1>5. t.kind \in {"find", "insert", "transition", "findById", "cleanup"}
  BY DEF Task
<1>6. CASE t.kind = "find"
  <2> DEFINE W == WithKey(t.req.key)
             i == CHOOSE j \in W : TRUE
  <2>1. Answer(t) = IF W = {} THEN Unanswered(t, "none") ELSE Answered(t, i, row[i])
    BY <1>6, AnswerCases
  <2>2. W # {} => i \in Ids /\ row[i] \in CommandStatus
    BY <1>4
  <2> HIDE DEF W, i
  <2> QED
    BY <1>2, <1>3, <2>1, <2>2
<1>7. CASE t.kind = "insert"
  <2>1. t.id \in Ids /\ t.to \in CommandStatus
    BY <1>7 DEF TaskOK, CommandStatus, ActiveStatus, TerminalStatus
  <2> DEFINE W == KeyOfInsert(t)
             i == CHOOSE j \in W : TRUE
  <2>2. Answer(t) = IF W = {} THEN Answered(t, t.id, t.to) ELSE Answered(t, i, row[i])
    BY <1>7, AnswerCases
  <2>3. W # {} => i \in Ids /\ row[i] \in CommandStatus
    BY <1>4 DEF KeyOfInsert
  <2> HIDE DEF W, i
  <2> QED
    BY <1>3, <2>1, <2>2, <2>3
<1>8. CASE t.kind = "transition"
  <2>1. t.id \in Ids
    BY <1>8 DEF TaskOK
  <2>2. CanTransition(t.from, t.to) => t.to \in CommandStatus
    BY TransitionIsLater
  <2>3. Answer(t) = IF ~CanTransition(t.from, t.to) THEN Unanswered(t, "failed")
                    ELSE IF row[t.id] = t.from THEN Answered(t, t.id, t.to)
                    ELSE Unanswered(t, "conflict")
    BY <1>8, AnswerCases
  <2> QED
    BY <1>2, <1>3, <2>1, <2>2, <2>3
<1>9. CASE t.kind = "findById"
  <2>1. t.id \in Ids
    BY <1>9 DEF TaskOK
  <2> QED
    BY <1>2, <1>3, <1>9, <2>1, AnswerCases DEF Present
<1>10. CASE t.kind = "cleanup"
  BY <1>2, <1>10, AnswerCases
<1> QED
  BY <1>5, <1>6, <1>7, <1>8, <1>9, <1>10

(* A statement leaves a table. *)
LEMMA TableTypes ==
  ASSUME TypeInv, NEW t \in Task, TaskOK(t), NEW table \in Table(t)
  PROVE  table \in [Ids -> RowStatus]
<1>1. row \in [Ids -> RowStatus]
  BY DEF TypeInv, TypeOK
<1>2. t.kind \in {"find", "insert", "transition", "findById", "cleanup"}
  BY DEF Task
<1>3. CASE t.kind \in {"find", "findById"}
  BY <1>1, <1>3, TableCases
<1>4. CASE t.kind = "insert"
  <2>1. t.to \in RowStatus
    BY <1>4 DEF TaskOK, RowStatus, CommandStatus, ActiveStatus, TerminalStatus
  <2> QED
    BY <1>1, <1>4, <2>1, TableCases
<1>5. CASE t.kind = "transition"
  <2>1. CanTransition(t.from, t.to) => t.to \in RowStatus
    BY TransitionIsLater DEF RowStatus
  <2> QED
    BY <1>1, <1>5, <2>1, TableCases
<1>6. CASE t.kind = "cleanup"
  <2>1. PICK S \in SUBSET Expendable :
          table = [id \in Ids |-> IF id \in S THEN "gone" ELSE row[id]]
    BY <1>6, TableCases
  <2> QED
    BY <1>1, <2>1 DEF RowStatus
<1> QED
  BY <1>2, <1>3, <1>4, <1>5, <1>6

(* The task the worker takes, the queue it leaves, the result it delivers. *)
LEMMA WorkerTypes ==
  ASSUME TypeInv, dbq # <<>>, NEW r \in Result, ResultOK(r)
  PROVE  /\ Head(dbq) \in Task /\ TaskOK(Head(dbq))
         /\ Tail(dbq) \in Seq(Task)
         /\ \A i \in 1 .. Len(Tail(dbq)) : TaskOK(Tail(dbq)[i])
         /\ Append(dbr, r) \in Seq(Result)
         /\ \A i \in 1 .. Len(Append(dbr, r)) : ResultOK(Append(dbr, r)[i])
<1>1. dbq \in Seq(Task) /\ \A i \in 1 .. Len(dbq) : TaskOK(dbq[i])
  BY DEF TypeInv, TypeOK, QueuesOK
<1>2. dbr \in Seq(Result) /\ \A i \in 1 .. Len(dbr) : ResultOK(dbr[i])
  BY DEF TypeInv, TypeOK, QueuesOK
<1>3. /\ Head(dbq) \in Task /\ TaskOK(Head(dbq))
      /\ Tail(dbq) \in Seq(Task)
      /\ \A i \in 1 .. Len(Tail(dbq)) : TaskOK(Tail(dbq)[i])
  BY <1>1, TailElements
<1>4. ASSUME NEW i \in 1 .. Len(Append(dbr, r))
      PROVE  ResultOK(Append(dbr, r)[i])
  <2>1. i \in 1 .. Len(dbr) \/ i = Len(dbr) + 1
    BY <1>2, AppendElements
  <2> QED
    BY <1>2, <2>1, AppendElements
<1> QED
  BY <1>2, <1>3, <1>4, AppendElements

(* The database thread keeps the types. *)
LEMMA TypeDatabaseThread ==
  ASSUME TypeInv, DatabaseThread
  PROVE  TypeInv'
<1>1. ASSUME dbq # <<>>
      PROVE  /\ Head(dbq) \in Task /\ TaskOK(Head(dbq))
             /\ Answer(Head(dbq)) \in Result /\ ResultOK(Answer(Head(dbq)))
             /\ Unanswered(Head(dbq), "failed") \in Result
             /\ ResultOK(Unanswered(Head(dbq), "failed"))
  <2>1. Head(dbq) \in Task /\ TaskOK(Head(dbq))
    BY <1>1, TailElements DEF TypeInv, TypeOK, QueuesOK
  <2>2. /\ Unanswered(Head(dbq), "failed") \in Result
        /\ ResultOK(Unanswered(Head(dbq), "failed"))
    BY <2>1 DEF Unanswered, Result, ResultOK, RowStatus
  <2> QED
    BY <2>1, <2>2, AnswerTypes
<1>2. CASE WorkerRunsCommand
  <2>1. row' \in [Ids -> RowStatus]
    BY <1>1, <1>2, TableTypes DEF WorkerRunsCommand
  <2>2. /\ dbq' \in Seq(Task) /\ \A i \in 1 .. Len(dbq') : TaskOK(dbq'[i])
        /\ dbr' \in Seq(Result) /\ \A i \in 1 .. Len(dbr') : ResultOK(dbr'[i])
    BY <1>1, <1>2, WorkerTypes DEF WorkerRunsCommand
  <2> QED
    BY <1>2, <2>1, <2>2 DEF TypeInv, TypeOK, QueuesOK, TaskOK, ResultOK, DatabaseThread,
       WorkerRunsCommand, OutsideDatabase, mqttVars, serviceVars, threadVars,
       environmentVars, historyVars, workerVars
<1>3. CASE WorkerCommandFails
  <2>1. /\ dbq' \in Seq(Task) /\ \A i \in 1 .. Len(dbq') : TaskOK(dbq'[i])
        /\ dbr' \in Seq(Result) /\ \A i \in 1 .. Len(dbr') : ResultOK(dbr'[i])
    BY <1>1, <1>3, WorkerTypes DEF WorkerCommandFails
  <2> QED
    BY <1>3, <2>1 DEF TypeInv, TypeOK, QueuesOK, TaskOK, ResultOK, DatabaseThread,
       WorkerCommandFails, OutsideDatabase, mqttVars, serviceVars, threadVars,
       environmentVars, historyVars, workerVars
<1>4. CASE WorkerLosesConnection
  <2>1. row' \in [Ids -> RowStatus]
    <3>1. row' = row \/ (dbq # <<>> /\ row' \in Table(Head(dbq)))
      BY <1>4 DEF WorkerLosesConnection
    <3> QED
      BY <1>1, <3>1, TableTypes DEF TypeInv, TypeOK
  <2>2. dbUp' \in BOOLEAN /\ UNCHANGED <<info, dbq, dbr, accepting, dropped>>
    BY <1>4 DEF WorkerLosesConnection
  <2> QED
    BY <2>1, <2>2 DEF TypeInv, TypeOK, QueuesOK, TaskOK, ResultOK, DatabaseThread,
       OutsideDatabase, mqttVars, serviceVars, threadVars, environmentVars, historyVars
<1>5. CASE WorkerReconnects
  <2>1. dbUp' \in BOOLEAN /\ UNCHANGED <<info, row, dbq, dbr, accepting, dropped>>
    BY <1>5 DEF WorkerReconnects
  <2> QED
    BY <2>1 DEF TypeInv, TypeOK, QueuesOK, TaskOK, ResultOK, DatabaseThread,
       OutsideDatabase, mqttVars, serviceVars, threadVars, environmentVars, historyVars
<1>6. CASE WorkerGivesUp
  <2>1. accepting' \in BOOLEAN /\ UNCHANGED <<info, row, dbr, dbUp>>
    BY <1>6 DEF WorkerGivesUp
  <2>2. dbq' \in Seq(Task) /\ Len(dbq') = 0
    BY <1>6 DEF WorkerGivesUp
  <2>3. dropped' \subseteq Ids
    BY <1>6 DEF WorkerGivesUp, InsertsQueued, TypeInv, QueuesOK, TaskOK
  <2> QED
    BY <2>1, <2>2, <2>3 DEF TypeInv, TypeOK, QueuesOK, ResultOK, TaskOK, DatabaseThread,
       OutsideDatabase, mqttVars, serviceVars, threadVars, environmentVars, historyVars
<1> QED
  BY <1>2, <1>3, <1>4, <1>5, <1>6 DEF DatabaseThread

(* Initially the variables have their types and the queues are empty. *)
LEMMA TypeInit == Init => TypeInv
<1> SUFFICES ASSUME Init PROVE TypeInv
  OBVIOUS
<1>1. /\ row \in [Ids -> RowStatus] /\ told \in [Ids -> RowStatus]
      /\ info \in [Ids -> Requests \cup {NoRequest}]
  BY DEF Init, DatabaseInit, RowStatus
<1>2. /\ dbq \in Seq(Task) /\ Len(dbq) = 0
      /\ dbr \in Seq(Result) /\ Len(dbr) = 0
  BY DEF Init, DatabaseInit
<1>3. /\ dbUp \in BOOLEAN /\ accepting \in BOOLEAN /\ dbAvail \in BOOLEAN
      /\ mqttUp \in BOOLEAN /\ mqttAvail \in BOOLEAN /\ dropped \subseteq Ids
  BY DEF Init, DatabaseInit, PublicationsInit
<1>4. /\ pubs \in [Ids -> [Slots -> Publication]]
      /\ active \in [Ids -> [status : ActiveStatus \cup {"none"}, dl : Nat]]
      /\ deferred \in [Ids -> [from : CommandStatus \cup {"none"},
                               to : CommandStatus \cup {"none"}, dl : Nat]]
      /\ early \in [Ids -> AckStatus \cup {"none"}]
  BY DEF Init, PublicationsInit, FreeSlot, Publication, Inactive, NothingDeferred
<1>5. /\ sent \in [Ids -> 0 .. 2] /\ verdicts \in [Ids -> 0 .. 2]
      /\ passed \in [Ids -> Nat]
      /\ accepted \in 0 .. MaxRequests /\ crashes \in 0 .. MaxCrashes
  BY DatabaseAssumption, ServiceAssumption DEF Init, PublicationsInit
<1>6. /\ recovery \subseteq Ids /\ scan \subseteq Ids /\ online \subseteq Devices
      /\ pc \in {"devices", "report", "commands", "sweep"}
  BY DEF Init
<1> QED
  BY <1>1, <1>2, <1>3, <1>4, <1>5, <1>6 DEF TypeInv, TypeOK, QueuesOK

(* Every step keeps the types. *)
LEMMA TypeStep == TypeInv /\ [Next]_vars => TypeInv'
<1> SUFFICES ASSUME TypeInv, [Next]_vars PROVE TypeInv'
  OBVIOUS
<1>1. CASE BusinessThread
  BY <1>1, TypeHandleSourceRequest, TypeHandleDeviceAck, TypeHandlePublishCompletion,
     TypeHandleFound, TypeHandleNotFound, TypeHandleInserted, TypeHandleTransitioned,
     TypeHandleTransitionConflict, TypeConvergeAfterConflict, TypeHandleLoggedResult,
     TypeRetryDeferredTransitions, TypeStartScan, TypeScan, TypeDevicePhase
     DEF BusinessThread, HandleDatabaseResult
<1>2. CASE UNCHANGED vars
  BY <1>2 DEF TypeInv, TypeOK, QueuesOK, TaskOK, ResultOK, vars, databaseVars, workerVars, mqttVars,
     serviceVars, threadVars, environmentVars, historyVars
<1> QED
  BY <1>1, <1>2, TypeDatabaseThread, TypeMqttThread, TypeWaitForNextCheck,
     TypeDeadlinePasses, TypeCrashAndRestart DEF Next

(* The variables keep their types in every behaviour. *)
THEOREM TypeCorrect == Spec => []TypeOK
<1>1. TypeInv => TypeOK
  BY DEF TypeInv
<1> QED
  BY <1>1, TypeInit, TypeStep, PTL DEF Spec
===============================================================================
