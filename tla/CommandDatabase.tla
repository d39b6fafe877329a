--------------------------- MODULE CommandDatabase ----------------------------
(***************************************************************************)
(* The table commands and the database thread that serves it: the command  *)
(* statements of PostgresStore and the command branch of PostgresWorker.   *)
(*                                                                         *)
(* A command id stands for the UUID the service generates; info[id] is the *)
(* immutable part of the record (source_id and request_id together are the *)
(* key, type and target are part of the payload).  A task carries what its *)
(* statement needs and the context the service gets back with the result:  *)
(* operations_ of the service is dbq followed by dbr.  The worker drops    *)
(* its queue when it gives up; the entries of operations_ that stay behind *)
(* then play no role, since it accepts nothing any more.                   *)
(***************************************************************************)
EXTENDS CommandState, Sequences, FiniteSets

CONSTANTS Keys,         \* (source_id, request_id) pairs
          Payloads,     \* normalised request contents
          Devices,      \* devices that can be the target of a command
          NoDevice,     \* the target of a payload that does not resolve
          NoRequest,    \* the request of an id that was not generated yet
          MaxRequests,  \* bound: requests accepted in a behaviour
          MaxInflight,  \* command.max_inflight_commands
          Faults        \* the failures explored: a subset of FaultKinds

FaultKinds == {"db", "migration", "sql", "mqtt", "publish", "crash", "cleanup",
               "offline"}

Requests == [key : Keys, payload : Payloads]
Ids == 1 .. MaxRequests
NoId == 0

ASSUME DatabaseAssumption ==
    /\ Payloads \subseteq [type : {"config", "control"},
                           target : Devices \cup {NoDevice}, variant : Nat]
    /\ NoDevice \notin Devices
    /\ NoRequest \notin Requests
    /\ MaxRequests \in Nat
    /\ MaxInflight \in Nat \ {0}
    /\ Faults \subseteq FaultKinds

VARIABLES info,  \* info[id]: the request a generated command id belongs to
          row,   \* row[id]: status of the row with this command_id
          dbq,   \* PostgresWorker::commands_, its head may be executing
          dbr,   \* CommandService::database_results_
          dbUp,  \* ~PostgresWorker::unavailable_
          accepting,  \* PostgresWorker::accepting_
          dropped     \* history: commands whose insertion was in the queue
                      \* when the worker gave up

workerVars == <<dbUp, accepting, dropped>>
databaseVars == <<info, row, dbq, dbr, workerVars>>

Task == [kind : {"find", "insert", "transition", "findById", "cleanup"},
         id : Ids \cup {NoId}, req : Requests \cup {NoRequest},
         from : CommandStatus \cup {"none"}, to : CommandStatus \cup {"none"},
         dl : Nat]

Result == [task : Task, out : {"row", "none", "conflict", "failed"},
           rid : Ids \cup {NoId}, st : RowStatus]

FindTask(req) == [kind |-> "find", id |-> NoId, req |-> req,
                  from |-> "none", to |-> "none", dl |-> 0]
InsertTask(id, status) == [kind |-> "insert", id |-> id, req |-> NoRequest,
                           from |-> "none", to |-> status, dl |-> 0]
TransitionTask(id, from, to, dl) == [kind |-> "transition", id |-> id,
                                     req |-> NoRequest, from |-> from,
                                     to |-> to, dl |-> dl]
FindByIdTask(id, desired, dl) == [kind |-> "findById", id |-> id,
                                  req |-> NoRequest, from |-> "none",
                                  to |-> desired, dl |-> dl]
CleanupTask == [kind |-> "cleanup", id |-> NoId, req |-> NoRequest,
                from |-> "none", to |-> "none", dl |-> 0]

Present(id) == row[id] \in CommandStatus
Generated == {id \in Ids : info[id] # NoRequest}
WithKey(key) == {id \in Generated : Present(id) /\ info[id].key = key}

(***************************************************************************)
(* PostgresStore, one statement per task.  Table(t) is the set of tables   *)
(* the committed statement may leave, Answer(t) what it returns.  INSERT   *)
(* ... ON CONFLICT (source_id, request_id) returns the row that holds the  *)
(* key already; UPDATE ... WHERE status = expected changes nothing when    *)
(* another writer was faster.                                              *)
(***************************************************************************)
NoUniqueKey(t) == {}
KeyOfInsert(t) == WithKey(info[t.id].key)

(* The rows DELETE may take: terminal, and completed longer ago than the   *)
(* retention of days, so that no operation on them is still under way.     *)
Expendable ==
    {id \in Ids : /\ IsTerminal(row[id])
                  /\ \A i \in 1 .. Len(dbq) : dbq[i].id # id
                  /\ \A i \in 1 .. Len(dbr) : dbr[i].task.id # id}

IgnoresExpected(t) == CanTransition(t.from, t.to)
IsExpected(t) == CanTransition(t.from, t.to) /\ row[t.id] = t.from

Table(t) ==
    CASE t.kind = "insert" ->
           {IF KeyOfInsert(t) = {} THEN [row EXCEPT ![t.id] = t.to] ELSE row}
      [] t.kind = "transition" ->
           {IF IsExpected(t) THEN [row EXCEPT ![t.id] = t.to] ELSE row}
      [] t.kind = "cleanup" ->
           {[id \in Ids |-> IF id \in S THEN "gone" ELSE row[id]] :
              S \in SUBSET Expendable}
      [] OTHER -> {row}

Answered(t, id, status) == [task |-> t, out |-> "row", rid |-> id, st |-> status]
Unanswered(t, out) == [task |-> t, out |-> out, rid |-> NoId, st |-> "absent"]

AnswerWithoutRowCount(t) ==
    IF t.kind = "find" THEN Unanswered(t, "none") ELSE Answered(t, t.id, t.to)

Answer(t) ==
    CASE t.kind = "find" ->
           IF WithKey(t.req.key) = {} THEN Unanswered(t, "none")
           ELSE LET id == CHOOSE i \in WithKey(t.req.key) : TRUE
                IN  Answered(t, id, row[id])
      [] t.kind = "insert" ->
           IF KeyOfInsert(t) = {} THEN Answered(t, t.id, t.to)
           ELSE LET id == CHOOSE i \in KeyOfInsert(t) : TRUE
                IN  Answered(t, id, row[id])
      [] t.kind = "transition" ->
           IF ~CanTransition(t.from, t.to) THEN Unanswered(t, "failed")
           ELSE IF IsExpected(t) THEN Answered(t, t.id, t.to)
           ELSE Unanswered(t, "conflict")
      [] t.kind = "findById" ->
           IF Present(t.id) THEN Answered(t, t.id, row[t.id])
           ELSE Unanswered(t, "none")
      [] OTHER -> Unanswered(t, "none")

DatabaseInit ==
    /\ info = [id \in Ids |-> NoRequest]
    /\ row = [id \in Ids |-> "absent"]
    /\ dbq = <<>>
    /\ dbr = <<>>
    /\ dbUp = TRUE
    /\ accepting = TRUE
    /\ dropped = {}

IsDatabaseAvailable == accepting /\ dbUp

(* PostgresWorker::SubmitCommand: refused when max_inflight_commands       *)
(* operations are queued or executing, and once the worker has given up.   *)
CanSubmit == accepting /\ Len(dbq) < MaxInflight

(* Run takes the front task, executes it and hands the result over.        *)
WorkerRunsCommand ==
    /\ dbUp /\ dbq # <<>>
    /\ row' \in Table(Head(dbq))
    /\ dbr' = Append(dbr, Answer(Head(dbq)))
    /\ dbq' = Tail(dbq)
    /\ UNCHANGED <<info, workerVars>>

(* A statement fails while the connection stays open: a permanent error is *)
(* the result of the operation.                                            *)
WorkerCommandFails ==
    /\ "sql" \in Faults
    /\ dbUp /\ dbq # <<>>
    /\ dbr' = Append(dbr, Unanswered(Head(dbq), "failed"))
    /\ dbq' = Tail(dbq)
    /\ UNCHANGED <<info, row, workerVars>>

(* The connection breaks, possibly after the server committed the front    *)
(* task: it goes back to the front, to run again after the reconnection.   *)
WorkerLosesConnection ==
    /\ "db" \in Faults
    /\ dbUp
    /\ dbUp' = FALSE
    /\ row' \in {row} \cup (IF dbq = <<>> THEN {} ELSE Table(Head(dbq)))
    /\ UNCHANGED <<info, dbq, dbr, accepting, dropped>>

(* Run tries to reconnect until it succeeds ...                            *)
WorkerReconnects ==
    /\ ~dbUp /\ accepting
    /\ dbUp' = TRUE
    /\ UNCHANGED <<info, row, dbq, dbr, accepting, dropped>>

(* ... or until ReconnectAndValidate fails for good (the schema is not the *)
(* one of this program): the queued commands are dropped without a result  *)
(* and the thread ends.                                                    *)
InsertsQueued == {i \in 1 .. Len(dbq) : dbq[i].kind = "insert"}

WorkerGivesUp ==
    /\ "migration" \in Faults
    /\ ~dbUp /\ accepting
    /\ accepting' = FALSE
    /\ dbq' = <<>>
    /\ dropped' = {dbq[i].id : i \in InsertsQueued}
    /\ UNCHANGED <<info, row, dbr, dbUp>>
===============================================================================
