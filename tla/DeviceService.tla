---------------------------- MODULE DeviceService -----------------------------
(***************************************************************************)
(* Device persistence of route_service: DeviceService on the business      *)
(* thread between the devices' messages and the database thread            *)
(* (DeviceDatabase), and the main thread that closes and drains them.      *)
(*                                                                         *)
(* The business thread repeats ProcessReady (pc "results", "messages",     *)
(* "provision", "dispatch") and the test of its loop ("check", "decide").  *)
(* A round is "first", "second" (run again once the input is drained) or   *)
(* "final" (after the loop).  The queue of messages is merged with their   *)
(* arrival: a message arrives when it is handled, until the input is       *)
(* drained.  The clocks of the telemetry interval and of the activity      *)
(* timeout are nondeterministic choices.                                   *)
(***************************************************************************)
EXTENDS DeviceDatabase, FiniteSets

ASSUME FiniteDevices == IsFiniteSet(Devices)

VARIABLES ent,           \* dirty_
          pend,          \* pending_: latest registration and submitted flag
          submitted,     \* submitted_
          degraded,      \* degraded_ (0: not contained)
          dbUnavailable, \* database_unavailable_
          outstanding,   \* outstanding_database_work_; the code only tests it
                         \* for zero, so a negative number is the wrapped one
          results,       \* results_
          pc, round,     \* position of the business thread
          todo,          \* devices the current loop still has to visit
          noResults,     \* no_results of Run
          closed,        \* closed_
          inputDrained,  \* input_drained_
          drainPending,  \* drain_dispatch_pending_
          blocked,       \* drain_submission_blocked_
          cancel,        \* cancel_database_work_requested_
          main,          \* the main thread
          stopRequested  \* the stop tokens

threadVars == <<pc, round, todo, noResults>>
drainVars == <<closed, inputDrained, drainPending, blocked, cancel>>
mainVars == <<main, stopRequested>>
serviceVars == <<ent, pend, submitted, degraded, dbUnavailable, outstanding>>
deviceVars == <<registryVars, row, workerVars, serviceVars, results, threadVars,
                drainVars, mainVars>>

NotPending == [reg |-> NoCandidate, sent |-> FALSE]
Pending == {d \in Devices : pend[d] # NotPending}
SentCandidates == {d \in Devices : pend[d].sent}
Submitted == {d \in Devices : submitted[d] # NoWrite}

(* IsDeviceDegraded *)
DegradedIfListed(d) == degraded[d] # 0
IsDegraded(d) == dbUnavailable \/ degraded[d] # 0

(* processing_ready_ *)
Processing == pc \in {"results", "messages", "provision", "dispatch"}

HasOutstandingDatabaseWork == outstanding # 0 \/ drainPending

-------------------------------------------------------------------------------
(* WriteFor: only telemetry is not urgent and leaves the metadata alone. *)
TelemetryLeavesStatus(telemetry, statusChanged) ==
    IF telemetry THEN {"telemetry"} ELSE {"metadata", "status"}
GroupsOf(telemetry, statusChanged) ==
    IF ~telemetry THEN {"metadata", "status"}
    ELSE IF statusChanged THEN {"status", "telemetry"} ELSE {"telemetry"}
WriteFor(r, telemetry, statusChanged) ==
    [record |-> r, groups |-> GroupsOf(telemetry, statusChanged),
     urgent |-> ~telemetry]

(* DeviceService::Mark for a set of devices with their new records *)
MarkAll(S, w) ==
    /\ rec' = [d \in Devices |-> IF d \in S THEN w[d].record ELSE rec[d]]
    /\ ent' = [d \in Devices |-> IF d \in S THEN Mark(ent[d], w[d]) ELSE ent[d]]
    /\ degraded' = [d \in Devices |-> IF d \in S /\ IsDegraded(d)
                                      THEN w[d].record.rev ELSE degraded[d]]

MarkOne(d, w) == MarkAll({d}, [e \in {d} |-> w])

(* A device whose earlier write is not answered counts once. *)
CountsEvery(S) == S
NewlySubmitted(S) == S \ Submitted

(* DeviceService::SubmitWrite for a set of devices; entry is dirty_ after  *)
(* the writes were taken from it.                                          *)
SubmitWrites(S, w, entry) ==
    \/ /\ accepting
       /\ writes' = [d \in Devices |-> IF d \in S THEN MergeWrite(writes[d], w[d])
                                                  ELSE writes[d]]
       /\ submitted' = [d \in Devices |-> IF d \in S THEN w[d] ELSE submitted[d]]
       /\ outstanding' = outstanding + Cardinality(NewlySubmitted(S))
       /\ ent' = entry
       /\ UNCHANGED degraded
    \/ /\ ~accepting
       /\ ent' = [d \in Devices |-> IF d \in S THEN Restore(entry[d], w[d])
                                               ELSE entry[d]]
       /\ degraded' = [d \in Devices |-> IF d \in S THEN rec[d].rev ELSE degraded[d]]
       /\ UNCHANGED <<writes, submitted, outstanding>>

-------------------------------------------------------------------------------
(* Handle(DatabaseResult), one action per kind *)

NextResult(kind) ==
    /\ pc = "results" /\ results # <<>>
    /\ Head(results).kind = kind
    /\ results' = Tail(results)
    /\ UNCHANGED <<row, provisions, exec, emit, unavailable, accepting, draining,
                   stopped, outages, threadVars, drainVars, mainVars>>

(* An outage drops all candidates; those handed to the worker were         *)
(* outstanding.                                                            *)
AllCandidates == Pending
OutstandingCandidates == SentCandidates
CandidatesKept == pend
CandidatesAfterOutage == [d \in Devices |-> NotPending]

HandleUnavailable ==
    LET r == Head(results) IN
    /\ NextResult("unavailable")
    /\ dbUnavailable' = TRUE
    /\ degraded' = IF r.dev \in known
                   THEN [degraded EXCEPT ![r.dev] = Larger(rec[r.dev].rev, r.rev)]
                   ELSE degraded
    /\ pend' = CandidatesAfterOutage
    /\ outstanding' = outstanding - Cardinality(OutstandingCandidates)
    /\ UNCHANGED <<registryVars, writes, ent, submitted>>

(* of one device, or of all when the worker gave up *)
HandlePermanentFailure ==
    LET r == Head(results)
        failed == IF r.dev = NoDevice THEN Devices ELSE {r.dev}
    IN  /\ NextResult("permanent")
        /\ pend' = [d \in Devices |-> IF d \in failed THEN NotPending ELSE pend[d]]
        /\ submitted' = [d \in Devices |-> IF d \in failed THEN NoWrite ELSE submitted[d]]
        /\ outstanding' = outstanding - Cardinality(SentCandidates \cap failed)
                                      - Cardinality(Submitted \cap failed)
        /\ degraded' = IF r.dev \in known
                       THEN [degraded EXCEPT ![r.dev] = Larger(rec[r.dev].rev, r.rev)]
                       ELSE degraded
        /\ UNCHANGED <<registryVars, writes, ent, dbUnavailable>>

(* Every degraded device is written in full. *)
RecoveryWrite(d) ==
    [record |-> rec[d],
     groups |-> {"metadata", "status"} \cup (IF rec[d].tel # 0 THEN {"telemetry"} ELSE {}),
     urgent |-> TRUE]

HandleRecovered ==
    /\ NextResult("recovered")
    /\ dbUnavailable' = FALSE
    /\ SubmitWrites({d \in known : degraded[d] # 0},
                    [d \in Devices |-> RecoveryWrite(d)], ent)
    /\ UNCHANGED <<registryVars, pend>>

(* The record of the table enters the registry, then the latest            *)
(* registration is applied to it.                                          *)
HandleProvisioned ==
    LET r == Head(results)
        d == r.dev
        w == WriteFor(AfterRegistration(r.record, d, pend[d].reg), FALSE, TRUE)
    IN  /\ NextResult("provisioned")
        /\ \/ /\ d \notin Pending
              /\ UNCHANGED <<registryVars, ent, pend, degraded, outstanding>>
           \/ /\ d \in Pending /\ ~CanAdd(d, r.record)
              /\ outstanding' = outstanding - (IF pend[d].sent THEN 1 ELSE 0)
              /\ UNCHANGED <<registryVars, ent, pend, degraded>>
           \/ /\ d \in Pending /\ CanAdd(d, r.record)
              /\ known' = known \cup {d}
              /\ MarkOne(d, w)
              /\ pend' = [pend EXCEPT ![d] = NotPending]
              /\ outstanding' = outstanding - (IF pend[d].sent THEN 1 ELSE 0)
        /\ UNCHANGED <<writes, submitted, dbUnavailable>>

HandleWriteCompleted ==
    LET r == Head(results)
        d == r.dev
        answers == d \in Submitted /\ r.rev >= submitted[d].record.rev
    IN  /\ NextResult("completed")
        /\ \/ /\ answers
              /\ ent' = [ent EXCEPT ![d] = Complete(@, submitted[d])]
              /\ submitted' = [submitted EXCEPT ![d] = NoWrite]
              /\ outstanding' = outstanding - 1
           \/ /\ ~answers
              /\ UNCHANGED <<ent, submitted, outstanding>>
        /\ degraded' = [degraded EXCEPT ![d] = IF r.rev >= @ THEN 0 ELSE @]
        /\ UNCHANGED <<registryVars, writes, pend, dbUnavailable>>

(* No result is left: a requested cancellation takes effect. *)
LeaveResults ==
    /\ pc = "results" /\ results = <<>>
    /\ pc' = "messages"
    /\ cancel' = FALSE
    /\ \/ /\ cancel
          /\ pend' = [d \in Devices |-> [pend[d] EXCEPT !.sent = FALSE]]
          /\ submitted' = [d \in Devices |-> NoWrite]
          /\ ent' = [d \in Devices |-> NoEntry]
          /\ blocked' = FALSE
          /\ outstanding' = 0
       \/ /\ ~cancel
          /\ UNCHANGED <<pend, submitted, ent, blocked, outstanding>>
    /\ UNCHANGED <<registryVars, row, workerVars, degraded, dbUnavailable, results,
                   round, todo, noResults, closed, inputDrained, drainPending,
                   mainVars>>

-------------------------------------------------------------------------------
(* Handle(InboundMessage).  A registration of an unknown device makes it a *)
(* candidate unless the database is unavailable; repeated ones are merged. *)

AtMessages ==
    /\ pc = "messages" /\ ~inputDrained
    /\ UNCHANGED <<row, workerVars, submitted, dbUnavailable, outstanding, results,
                   threadVars, drainVars, mainVars>>

HandleRegistration(d, reg) ==
    /\ AtMessages
    /\ rec[d].rev < MaxRevision
    /\ \/ /\ d \in known
          /\ MarkOne(d, WriteFor(AfterRegistration(rec[d], d, reg), FALSE,
                                 rec[d].online # reg.online))
          /\ UNCHANGED pend
       \/ /\ d \notin known
          /\ pend' = IF dbUnavailable THEN pend ELSE [pend EXCEPT ![d].reg = reg]
          /\ UNCHANGED <<rec, ent, degraded>>
    /\ UNCHANGED known

HandleTelemetry(d, l) ==
    /\ AtMessages
    /\ d \in known
    /\ rec[d].rev < MaxRevision
    /\ MarkOne(d, WriteFor(AfterTelemetry(rec[d], d, l), TRUE, ~rec[d].online))
    /\ UNCHANGED <<known, pend>>

LeaveMessages ==
    /\ pc = "messages"
    /\ pc' = "provision"
    /\ todo' = IF dbUnavailable THEN {} ELSE Pending \ SentCandidates
    /\ UNCHANGED <<registryVars, row, workerVars, serviceVars, results, round,
                   noResults, drainVars, mainVars>>

-------------------------------------------------------------------------------
(* The rest of ProcessReady: PostgresWorker::SubmitProvision for every     *)
(* candidate, the activity scan, DispatchWrites.                           *)

SubmitCandidate(d) ==
    /\ pc = "provision" /\ d \in todo
    /\ todo' = todo \ {d}
    /\ \/ /\ accepting /\ ~unavailable
          /\ ~(exec.kind = "provision" /\ exec.dev = d)
          /\ provisions' = [provisions EXCEPT ![d] = pend[d].reg]
          /\ pend' = [pend EXCEPT ![d].sent = TRUE]
          /\ outstanding' = outstanding + 1
       \/ /\ ~accepting \/ unavailable \/ (exec.kind = "provision" /\ exec.dev = d)
          /\ UNCHANGED <<provisions, pend, outstanding>>
    /\ UNCHANGED <<registryVars, row, writes, exec, emit, unavailable, accepting,
                   draining, stopped, outages, ent, submitted, degraded, dbUnavailable,
                   results, pc, round, noResults, drainVars, mainVars>>

(* S: the devices whose last activity is offline_timeout ago *)
ExpireInactive(S) ==
    /\ pc = "provision" /\ todo = {}
    /\ \A d \in S : d \in known /\ rec[d].online /\ rec[d].rev < MaxRevision
    /\ MarkAll(S, [d \in Devices |-> WriteFor(Expired(rec[d]), FALSE, TRUE)])
    /\ pc' = "dispatch"
    /\ todo' = IF dbUnavailable \/ (inputDrained /\ blocked) THEN {}
               ELSE {d \in Devices : HasDirty(ent'[d])}
    /\ UNCHANGED <<known, row, workerVars, pend, submitted, dbUnavailable,
                   outstanding, results, round, noResults, drainVars, mainVars>>

DispatchWrite(d) ==
    /\ pc = "dispatch" /\ d \in todo
    /\ todo' = todo \ {d}
    /\ SubmitWrites({d}, [e \in {d} |-> TakenWrite(ent[d])],
                    [ent EXCEPT ![d] = AfterTake(@)])
    /\ blocked' = (blocked \/ (inputDrained /\ ~accepting))
    /\ UNCHANGED <<registryVars, row, provisions, exec, emit, unavailable,
                   accepting, draining, stopped, outages, pend, dbUnavailable, results,
                   pc, round, noResults, closed, inputDrained, drainPending,
                   cancel, mainVars>>

(* telemetry_interval has not passed *)
NotYetDue(d) ==
    /\ pc = "dispatch" /\ d \in todo
    /\ ~ent[d].urgent /\ ~inputDrained
    /\ todo' = todo \ {d}
    /\ UNCHANGED <<registryVars, row, workerVars, serviceVars, results, pc, round,
                   noResults, drainVars, mainVars>>

(* The drain has handed over all that was dirty. *)
DispatchedDespiteOutage == inputDrained /\ ~blocked
DrainDispatched == inputDrained /\ ~dbUnavailable /\ ~blocked

EndRound ==
    /\ pc = "dispatch" /\ todo = {}
    /\ pc' = CASE round = "first"  -> "check"
               [] round = "second" -> "decide"
               [] round = "final"  -> "exited"
    /\ drainPending' = (drainPending /\ ~DrainDispatched)
    /\ UNCHANGED <<registryVars, row, workerVars, serviceVars, results, round, todo,
                   noResults, closed, inputDrained, blocked, cancel, mainVars>>

-------------------------------------------------------------------------------
(* The loop of DeviceService::Run *)

(* The queue of a closed service may or may not be empty. *)
CheckInput ==
    /\ pc = "check"
    /\ noResults' = (results = <<>>)
    /\ \/ /\ closed
          /\ inputDrained' = TRUE
          /\ round' = "second"
          /\ pc' = "results"
       \/ /\ ~inputDrained
          /\ pc' = "decide"
          /\ UNCHANGED <<inputDrained, round>>
    /\ UNCHANGED <<registryVars, row, workerVars, serviceVars, results, todo, closed,
                   drainPending, blocked, cancel, mainVars>>

DecideToLeave ==
    /\ pc = "decide"
    /\ pc' = "results"
    /\ round' = IF stopRequested \/ (inputDrained /\ noResults
                                       /\ ~HasOutstandingDatabaseWork)
                THEN "final" ELSE "first"
    /\ noResults' = FALSE
    /\ UNCHANGED <<registryVars, row, workerVars, serviceVars, results, todo,
                   drainVars, mainVars>>

BusinessThread ==
    \/ HandleUnavailable \/ HandlePermanentFailure \/ HandleRecovered
    \/ HandleProvisioned \/ HandleWriteCompleted \/ LeaveResults
    \/ \E d \in Devices :
          \/ \E reg \in Registration : HandleRegistration(d, reg)
          \/ \E l \in LabelOrNone : HandleTelemetry(d, l)
          \/ SubmitCandidate(d) \/ DispatchWrite(d) \/ NotYetDue(d)
    \/ LeaveMessages
    \/ \E S \in SUBSET Devices : ExpireInactive(S)
    \/ EndRound \/ CheckInput \/ DecideToLeave

-------------------------------------------------------------------------------
(* The database thread hands a result over.  After a recovery it also asks *)
(* the broker to replay the retained registrations, which may arrive at    *)
(* any time anyway.                                                        *)
Emit ==
    /\ emit # NoResult
    /\ results' = Append(results, emit)
    /\ emit' = NoResult
    /\ UNCHANGED <<registryVars, row, writes, provisions, exec, unavailable,
                   accepting, draining, stopped, outages, serviceVars, threadVars,
                   drainVars, mainVars>>

DatabaseThread ==
    \/ Emit
    \/ /\ \/ \E d \in Devices : TakeProvision(d) \/ TakeWrite(d)
          \/ Provision \/ WriteState \/ LoseConnection \/ CommandLosesConnection
          \/ Reconnect \/ MigrationMismatch \/ GiveUp \/ Finish(stopRequested)
       /\ UNCHANGED <<registryVars, serviceVars, results, threadVars, drainVars,
                      mainVars>>

-------------------------------------------------------------------------------
(* The main thread: StopAcceptingDeviceMessages, then DrainDeviceRuntime *)

Close ==
    /\ main = "running"
    /\ main' = "wait input"
    /\ closed' = TRUE
    /\ drainPending' = TRUE
    /\ UNCHANGED <<registryVars, row, workerVars, serviceVars, results, threadVars,
                   inputDrained, blocked, cancel, stopRequested>>

WaitForInputDrained ==
    /\ main = "wait input" /\ inputDrained
    /\ main' = "wait idle"
    /\ UNCHANGED <<registryVars, row, workerVars, serviceVars, results, threadVars,
                   drainVars, stopRequested>>

IdleBeforeDispatch == outstanding = 0 /\ ~Processing
DatabaseIdle == outstanding = 0 /\ ~Processing /\ ~drainPending

WaitForDatabaseIdle ==
    /\ main = "wait idle" /\ DatabaseIdle
    /\ main' = "flush"
    /\ UNCHANGED <<registryVars, row, workerVars, serviceVars, results, threadVars,
                   drainVars, stopRequested>>

FlushAndStop ==
    /\ main = "flush"
    /\ main' = "wait stopped"
    /\ accepting' = FALSE
    /\ draining' = TRUE
    /\ UNCHANGED <<registryVars, row, writes, provisions, exec, emit, unavailable,
                   stopped, outages, serviceVars, results, threadVars, drainVars,
                   stopRequested>>

WorkerStopped ==
    /\ main = "wait stopped" /\ stopped
    /\ main' = "join"
    /\ UNCHANGED <<registryVars, row, workerVars, serviceVars, results, threadVars,
                   drainVars, stopRequested>>

Join ==
    /\ main = "join" /\ pc = "exited"
    /\ main' = "clean"
    /\ UNCHANGED <<registryVars, row, workerVars, serviceVars, results, threadVars,
                   drainVars, stopRequested>>

(* One of the waits times out: RequestStop and CancelOutstandingDatabaseWork *)
DrainTimesOut ==
    /\ main \in {"wait input", "wait idle", "wait stopped"}
    /\ main' = "abandoned"
    /\ stopRequested' = TRUE
    /\ cancel' = TRUE
    /\ drainPending' = FALSE
    /\ UNCHANGED <<registryVars, row, workerVars, serviceVars, results, threadVars,
                   closed, inputDrained, blocked>>

MainThread ==
    \/ Close \/ WaitForInputDrained \/ WaitForDatabaseIdle \/ FlushAndStop
    \/ WorkerStopped \/ Join \/ DrainTimesOut

(* Both threads have ended. *)
Ended == pc = "exited" /\ stopped /\ main \in {"clean", "abandoned"}

-------------------------------------------------------------------------------
(* LoadDeviceSnapshot: some devices were online, and some of those are     *)
(* expired at once; their status goes straight to the worker.              *)
StartRow(d, up) ==
    IF d \in Registered THEN [NoRow EXCEPT !.there = TRUE, !.online = (d \in up)]
    ELSE NoRow
StartRecord(d, up, expired) ==
    CASE d \in expired                       -> Expired(RecordOf(StartRow(d, up)))
      [] d \in Registered \ expired          -> RecordOf(StartRow(d, up))
      [] OTHER                               -> Blank
StartWrite(d, up, expired) ==
    IF d \in expired
    THEN [record |-> StartRecord(d, up, expired), groups |-> {"status"}, urgent |-> TRUE]
    ELSE NoWrite

Init ==
    /\ \E up \in SUBSET Registered : \E expired \in SUBSET up :
          /\ row = [d \in Devices |-> StartRow(d, up)]
          /\ rec = [d \in Devices |-> StartRecord(d, up, expired)]
          /\ writes = [d \in Devices |-> StartWrite(d, up, expired)]
    /\ known = Registered
    /\ provisions = NoProvisions /\ exec = Idle /\ emit = NoResult
    /\ unavailable = FALSE /\ accepting = TRUE
    /\ draining = FALSE /\ stopped = FALSE /\ outages = 0
    /\ ent = [d \in Devices |-> NoEntry]
    /\ pend = [d \in Devices |-> NotPending]
    /\ submitted = [d \in Devices |-> NoWrite]
    /\ degraded = [d \in Devices |-> 0]
    /\ dbUnavailable = FALSE /\ outstanding = 0 /\ results = <<>>
    /\ pc = "results" /\ round = "first" /\ todo = {} /\ noResults = FALSE
    /\ closed = FALSE /\ inputDrained = FALSE
    /\ drainPending = FALSE /\ blocked = FALSE /\ cancel = FALSE
    /\ main = "running" /\ stopRequested = FALSE

Next == BusinessThread \/ DatabaseThread \/ MainThread
          \/ (Ended /\ UNCHANGED deviceVars)

Spec == Init /\ [][Next]_deviceVars

(* The same before the main thread closes the service *)
RunningSpec == Init /\ [][BusinessThread \/ DatabaseThread]_deviceVars

-------------------------------------------------------------------------------
(* Fairness: the threads go on with their loops.  The clock of the         *)
(* telemetry interval advances and outages end, so a write that keeps      *)
(* being offered is dispatched, and executed with the connection up.  No   *)
(* fairness for messages, expiry or Close; the waits of the drain end.     *)
BusinessSteps ==
    \/ HandleUnavailable \/ HandlePermanentFailure \/ HandleRecovered
    \/ HandleProvisioned \/ HandleWriteCompleted \/ LeaveResults
    \/ LeaveMessages \/ ExpireInactive({}) \/ EndRound \/ CheckInput \/ DecideToLeave
    \/ \E d \in Devices : SubmitCandidate(d) \/ DispatchWrite(d) \/ NotYetDue(d)

Fairness ==
    /\ WF_deviceVars(BusinessSteps)
    /\ WF_deviceVars(DatabaseThread)
    /\ WF_deviceVars(MainThread /\ main # "running")
    /\ \A d \in Devices :
          /\ SF_deviceVars(DispatchWrite(d))
          /\ SF_deviceVars(DatabaseThread /\ exec.dev = d /\ WriteState)
          /\ SF_deviceVars(DatabaseThread /\ TakeWrite(d))
    /\ SF_deviceVars(CheckInput /\ inputDrained')
    /\ SF_deviceVars(DatabaseThread /\ Reconnect)

FairSpec == Spec /\ Fairness

-------------------------------------------------------------------------------
(* Properties *)

Version(r, g) == CASE g = "metadata"  -> r.meta
                   [] g = "status"    -> r.st
                   [] g = "telemetry" -> r.tel

PendingState == [reg : Registration \cup {NoCandidate}, sent : BOOLEAN]

(* Every variable has its type; in particular the counter of outstanding   *)
(* work, an unsigned number, never passes zero.                            *)
DeviceTypeOK ==
    /\ known \subseteq Devices
    /\ rec \in [Devices -> Record]
    /\ row \in [Devices -> Row]
    /\ writes \in [Devices -> Write]
    /\ provisions \in [Devices -> Registration \cup {NoCandidate}]
    /\ exec \in [kind : {"idle", "provision", "write", "give up"},
                 dev : Devices \cup {NoDevice},
                 reg : Registration \cup {NoCandidate}, write : Write]
    /\ emit \in Result
    /\ <<unavailable, accepting, draining, stopped>> \in BOOLEAN \X BOOLEAN \X BOOLEAN \X BOOLEAN
    /\ outages \in 0..MaxOutages
    /\ ent \in [Devices -> Entry]
    /\ pend \in [Devices -> PendingState]
    /\ submitted \in [Devices -> Write]
    /\ degraded \in [Devices -> Nat]
    /\ dbUnavailable \in BOOLEAN
    /\ outstanding \in Nat
    /\ results \in Seq(Result)
    /\ pc \in {"results", "messages", "provision", "dispatch", "check", "decide", "exited"}
    /\ round \in {"first", "second", "final"}
    /\ todo \subseteq Devices
    /\ main \in {"running", "wait input", "wait idle", "flush", "wait stopped",
                 "join", "clean", "abandoned"}
    /\ <<noResults, closed, inputDrained, drainPending, blocked, cancel, stopRequested>>
         \in BOOLEAN \X BOOLEAN \X BOOLEAN \X BOOLEAN \X BOOLEAN \X BOOLEAN \X BOOLEAN

Abandoned == main = "abandoned"

Carries(w, d, g) == g \in w.groups /\ Version(w.record, g) = Version(rec[d], g)

(* The newest value of a group is dirty, queued or being written. *)
UnderWay(d, g) ==
    \/ ent[d].dirty[g] # 0 /\ Version(ent[d].record, g) = Version(rec[d], g)
    \/ Carries(writes[d], d, g)
    \/ exec.dev = d /\ Carries(exec.write, d, g)

Saved(d, g) == Version(row[d], g) = Version(rec[d], g)

(* No change of a device is forgotten: while the table has an older value  *)
(* of a group, the newest one waits to be written or is being written,     *)
(* whatever was merged, restored, lost with the connection or superseded   *)
(* on the way (DirtyState, MergeWrite, Handle of the results).             *)
ChangeIsUnderWay ==
    ~Abandoned => \A d \in known, g \in Groups : Saved(d, g) \/ UnderWay(d, g)

ResultsOf(kinds) ==
    {r \in {emit} \cup {results[i] : i \in 1..Len(results)} : r.kind \in kinds}

(* A device that is not reported as degraded is stored, or will be: the    *)
(* flag is raised, or the failure is on its way, before a change can be    *)
(* lost, and is lowered only by a write that covers it.                    *)
DegradedUntilSaved ==
    ~Abandoned => \A d \in known, g \in Groups :
        \/ Saved(d, g) \/ UnderWay(d, g) \/ IsDegraded(d)
        \/ \E r \in ResultsOf({"unavailable", "permanent"}) : r.dev \in {d, NoDevice}
        \/ ResultsOf({"unavailable"}) # {}

(* Whatever the counter of outstanding work waits for gets an answer: a    *)
(* submitted write will be answered with its revision or a later one, or   *)
(* with a permanent failure.                                               *)
WriteIsAnswered ==
    ~Abandoned => \A d \in Submitted :
        \/ writes[d].groups # {} /\ writes[d].record.rev >= submitted[d].record.rev
        \/ exec.dev = d /\ exec.write.record.rev >= submitted[d].record.rev
        \/ \E r \in ResultsOf({"completed"}) :
               r.dev = d /\ r.rev >= submitted[d].record.rev
        \/ \E r \in ResultsOf({"permanent"}) : r.dev \in {d, NoDevice}

(* A candidate that was handed to the database thread is queued there, or  *)
(* its result, or a result that drops all candidates, is on the way.       *)
CandidateIsAnswered ==
    ~Abandoned => \A d \in SentCandidates :
        \/ d \in QueuedProvisions
        \/ exec.kind = "provision" /\ exec.dev = d
        \/ \E r \in ResultsOf({"provisioned", "permanent"}) : r.dev \in {d, NoDevice}
        \/ ResultsOf({"unavailable"}) # {}

(* The counter the drain waits for counts exactly the candidates and       *)
(* writes that are not answered.                                           *)
OutstandingIsExact ==
    ~Abandoned => outstanding = Cardinality(SentCandidates) + Cardinality(Submitted)

(* A clean shutdown has stored the newest metadata and telemetry of every  *)
(* device that was registered when the service started, whatever outages,  *)
(* recoveries and new devices the drain meets (DrainDeviceRuntime), unless *)
(* the database thread gave up: then it ended without a connection.        *)
DrainedIsStored ==
    main = "clean" /\ ~unavailable =>
       \A d \in Registered : Saved(d, "metadata") /\ Saved(d, "telemetry")

(* The same of the devices that are new.  The code does not keep this      *)
(* promise when the connection breaks between the provisions of two of     *)
(* them: DrainOutage.cfg shows how.                                        *)
NewDevicesAreStored ==
    main = "clean" => \A d \in known \ Registered :
                         Saved(d, "metadata") /\ Saved(d, "telemetry")

(* No two devices in memory have the same label, whatever labels they take *)
(* from messages and from the tables (roles_ of the registry).             *)
LabelHasOneOwner ==
    \A d, e \in known : rec[d].label = rec[e].label => d = e \/ rec[d].label = NoLabel

(* The table only moves forward, to states the devices had. *)
Storage == INSTANCE DeviceStorage WITH
    current <- [d \in Devices |-> [g \in Groups |-> Version(rec[d], g)]],
    stored  <- [d \in Devices |-> [g \in Groups |-> Version(row[d], g)]]
ImplementsStorage == Storage!Spec

(* The newest value of every group reaches the table, unless the process   *)
(* ends or the database thread gave up.                                    *)
ChangeIsStored ==
    \A d \in Devices, g \in Groups :
        (d \in known /\ ~Saved(d, g)) ~> (Saved(d, g) \/ stopped)

(* Once the database thread has stopped, the business thread ends and the  *)
(* main thread does not wait for it for ever.                              *)
JoinReturns == (main = "join") ~> (main = "clean")
===============================================================================
