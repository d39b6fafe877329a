--------------------------- MODULE RouteServiceProofs --------------------------
(***************************************************************************)
(* Properties of the process route_service, for any number of migrations   *)
(* and of processes that migrate at once, of devices, and for any bounds   *)
(* on connections, messages and replays: the schema is that of a prefix of *)
(* the migrations, nothing uses the MQTT client once it is stopped, a      *)
(* connection is reported as subscribed only with all of its filters, and  *)
(* after its snapshot the retained topics are current.                     *)
(***************************************************************************)
EXTENDS RouteService, TLAPS

-----------------------------------------------------------------------------
(* The plan of a process is a suffix of the directory that starts at most    *)
(* one version after what is applied: whoever inserts a version not yet      *)
(* applied inserts the next.                                                 *)
PlanFollows(m, n) ==
    \E k \in 0..n : plan[m] = (k + 1)..LastVersion

MigrationInv ==
    /\ plan \in [Migrators -> SUBSET Available]
    /\ executed \in [Available -> Nat]
    /\ \A v \in Available : executed[v] = IF v \in applied THEN 1 ELSE 0
    /\ \E n \in 0..LastVersion :
          /\ applied = 1..n
          /\ \A m \in Migrators : step[m] = "apply" => PlanFollows(m, n)
    /\ step \in [Migrators -> {"plan", "apply", "ended"}]

LEMMA MigrationInit == Init => MigrationInv
<1> SUFFICES ASSUME Init PROVE MigrationInv
  OBVIOUS
<1>1. PICK n \in 0..LastVersion : applied = 1..n
  BY DEF Init, InitMigrations
<1> QED
  BY <1>1 DEF Init, InitMigrations, MigrationInv

LEMMA MigrationPlan ==
  ASSUME MigrationInv, NEW m \in Migrators, PlanMigrations(m)
  PROVE  MigrationInv'
<1>1. PICK n \in 0..LastVersion :
        /\ applied = 1..n
        /\ \A q \in Migrators : step[q] = "apply" => PlanFollows(q, n)
  BY DEF MigrationInv
<1>2. CASE plan' = [plan EXCEPT ![m] = Available \ applied]
           /\ step' = [step EXCEPT ![m] = "apply"]
  <2>1. Available \ applied = (n + 1)..LastVersion
    BY <1>1, MigrationAssumption DEF Available
  <2>2. PlanFollows(m, n)'
    BY <1>1, <1>2, <2>1 DEF PlanFollows, MigrationInv
  <2>3. \A q \in Migrators : step'[q] = "apply" => PlanFollows(q, n)'
    BY <1>1, <1>2, <2>2 DEF PlanFollows, MigrationInv
  <2>4. UNCHANGED <<applied, executed>>
    BY DEF PlanMigrations
  <2>5. \E k \in 0..LastVersion :
          /\ applied' = 1..k
          /\ \A q \in Migrators : step'[q] = "apply" => PlanFollows(q, k)'
    BY <1>1, <2>3, <2>4
  <2>6. plan' \in [Migrators -> SUBSET Available]
        /\ step' \in [Migrators -> {"plan", "apply", "ended"}]
    BY <1>2 DEF MigrationInv
  <2> QED
    BY <2>4, <2>5, <2>6 DEF MigrationInv
<1>3. CASE step' = [step EXCEPT ![m] = "ended"] /\ UNCHANGED plan
  <2>1. \A q \in Migrators : step'[q] = "apply" => PlanFollows(q, n)'
    BY <1>1, <1>3 DEF PlanFollows, MigrationInv
  <2> QED
    BY <1>1, <1>3, <2>1 DEF PlanMigrations, MigrationInv
<1> QED
  BY <1>2, <1>3 DEF PlanMigrations

(* A migrator ends, with or without a version it has applied before. *)
LEMMA MigrationEnds ==
  ASSUME MigrationInv, NEW m \in Migrators, MigratorEnds(m), UNCHANGED <<applied, executed>>
  PROVE  MigrationInv'
<1>1. PICK n \in 0..LastVersion :
        /\ applied = 1..n
        /\ \A q \in Migrators : step[q] = "apply" => PlanFollows(q, n)
  BY DEF MigrationInv
<1>2. \A q \in Migrators : step'[q] = "apply" => PlanFollows(q, n)'
  BY <1>1 DEF MigratorEnds, PlanFollows, MigrationInv
<1> QED
  BY <1>1, <1>2 DEF MigratorEnds, MigrationInv

(* A version that can be inserted is the one after the last. *)
LEMMA MigrationApplies ==
  ASSUME MigrationInv, NEW m \in Migrators, step[m] = "apply", plan[m] # {},
         Insertable(FirstPending(m)),
         applied' = applied \cup {FirstPending(m)},
         executed' = [executed EXCEPT ![FirstPending(m)] = @ + 1],
         \/ plan' = [plan EXCEPT ![m] = @ \ {FirstPending(m)}] /\ UNCHANGED step
         \/ MigratorEnds(m)
  PROVE  MigrationInv'
<1>1. PICK n \in 0..LastVersion :
        /\ applied = 1..n
        /\ \A q \in Migrators : step[q] = "apply" => PlanFollows(q, n)
  BY DEF MigrationInv
<1>2. PICK k \in 0..n : plan[m] = (k + 1)..LastVersion
  BY <1>1 DEF PlanFollows
<1>3. k + 1 \in plan[m] /\ \A w \in plan[m] : k + 1 <= w
  BY <1>2, MigrationAssumption
<1>4. FirstPending(m) = k + 1
  <2>1. FirstPending(m) \in plan[m] /\ \A w \in plan[m] : FirstPending(m) <= w
    BY <1>3 DEF FirstPending
  <2> QED
    BY <1>2, <1>3, <2>1
<1>5. k = n /\ n + 1 \in Available
  BY <1>1, <1>2, <1>3, <1>4, MigrationAssumption DEF Insertable, Available
<1>6. applied' = 1..(n + 1) /\ n + 1 \in 0..LastVersion
  BY <1>1, <1>4, <1>5, MigrationAssumption DEF Available
<1>7. \A v \in Available : executed'[v] = IF v \in applied' THEN 1 ELSE 0
  BY <1>1, <1>4, <1>5, <1>6 DEF Insertable, MigrationInv
<1>8. ASSUME NEW q \in Migrators, step'[q] = "apply"
      PROVE  PlanFollows(q, n + 1)'
  <2>1. CASE q = m
    <3>1. plan'[m] = plan[m] \ {n + 1}
      BY <1>4, <1>5, <1>8, <2>1 DEF MigratorEnds, MigrationInv
    <3>2. plan[m] \ {n + 1} = ((n + 1) + 1)..LastVersion
      BY <1>2, <1>5, MigrationAssumption DEF Available
    <3> QED
      BY <2>1, <3>1, <3>2 DEF PlanFollows
  <2>2. CASE q # m
    <3>1. step[q] = "apply" /\ plan'[q] = plan[q]
      BY <1>8, <2>2 DEF MigratorEnds, MigrationInv
    <3> QED
      BY <1>1, <3>1 DEF PlanFollows
  <2> QED
    BY <2>1, <2>2
<1>9. /\ plan' \in [Migrators -> SUBSET Available]
      /\ step' \in [Migrators -> {"plan", "apply", "ended"}]
  BY DEF MigratorEnds, MigrationInv
<1>10. executed' \in [Available -> Nat]
  BY <1>4, <1>5 DEF MigrationInv
<1> QED
  BY <1>6, <1>7, <1>8, <1>9, <1>10 DEF MigrationInv

LEMMA MigrationNext == MigrationInv /\ [Next]_vars => MigrationInv'
<1> SUFFICES ASSUME MigrationInv, [Next]_vars PROVE MigrationInv'
  OBVIOUS
<1>1. CASE UNCHANGED migrationVars
  BY <1>1 DEF migrationVars, MigrationInv, PlanFollows
<1>2. ASSUME NEW m \in Migrators, ApplyMigration(m) PROVE MigrationInv'
  BY <1>2, MigrationApplies, MigrationEnds DEF ApplyMigration
<1>3. ASSUME NEW m \in Migrators, MigrationsDone(m) PROVE MigrationInv'
  BY <1>3, MigrationEnds DEF MigrationsDone
<1>4. CASE MigrateSchema
  BY <1>2, <1>3, <1>4, MigrationPlan DEF MigrateSchema, Migrate
<1>5. CASE MainThread
  <2>1. UNCHANGED migrationVars
    BY <1>5 DEF MainThread, CheckSchema, LoadState, StartDatabaseThread, StartBusinessThread,
                RollBack, CreateMqtt, AttachMqtt, StartMqtt, CheckStatus, NotDue,
                EnsureSubscriptions, ReadGeneration, RequestExternalSnapshot, StopAccepting,
                DisableIngress, ClearHandler, CloseDevices, CloseQueue, Drain, WaitUntil,
                FlushDatabase, JoinThreads, DetachClient, RequestStop, StopRetry, StopMqtt
  <2> QED
    BY <1>1, <2>1
<1>6. CASE Network \/ LoopStep \/ RetryStep \/ BusinessStep \/ DatabaseStep
  BY <1>1, <1>6 DEF Network, LoopStep, RetryStep, BusinessStep, DatabaseStep
<1> QED
  BY <1>1, <1>4, <1>5, <1>6 DEF Next, Exited, vars

(* However many processes migrate at once, with however many migrations,   *)
(* and wherever they die, schema_migrations holds a prefix of the directory *)
(* and every version's SQL was committed once (ApplyMigration of            *)
(* postgres_store.cpp, ValidateContinuous of migration.cpp).                *)
THEOREM SchemaStaysPrefix == Spec => []SchemaIsPrefix
<1>1. MigrationInv => SchemaIsPrefix
  BY DEF MigrationInv, SchemaIsPrefix, Continuous
<1> QED
  BY <1>1, MigrationInit, MigrationNext, PTL DEF Spec

-----------------------------------------------------------------------------
(* The MQTT client and the threads that use it: before StartMqtt there is   *)
(* neither loop nor retry thread, and once the bridge has been disabled no   *)
(* replay can begin.                                                         *)
BeforeStart == {"check schema", "load", "start database", "start business", "roll back",
                "create client", "attach client", "start client"}
Detached == {"request stop", "stop retry", "stop loop", "exited"}
Replaying == {"wait lock", "unsubscribe", "resubscribe", "mark"}

StopInv ==
    /\ main \in BeforeStart => loop = "none" /\ retryThread = "none"
    /\ main \in Detached => ~bridgeClient
    /\ database \in Replaying => ~BridgeFree /\ bridgeClient
    /\ database \in {"none", "idle", "ended"} \cup Replaying
    /\ main = "exited" => loop = "none" /\ RetryJoined
    /\ main \in BeforeStart \ {"start client"} => ~bridgeClient

LEMMA StopInit == Init => StopInv
  BY DEF Init, InitSession, InitEvents, InitRuntime, StopInv, BeforeStart, Detached, Replaying

(* What StopInv says of the threads other than the main one *)
clientVars == <<loop, retryThread, bridgeClient, bridgeLock, database>>

LEMMA StopMain == ASSUME StopInv, MainThread PROVE StopInv'
<1> USE DEF StopInv, BeforeStart, Detached, Replaying, BridgeFree, RetryJoined
<1>1. CASE CheckSchema \/ LoadState \/ CreateMqtt
  <2>1. UNCHANGED clientVars
    BY <1>1 DEF CheckSchema, LoadState, CreateMqtt, sessionVars, retryVars, eventVars, bridgeVars,
                runtimeVars, threadVars, clientVars
  <2>2. \/ main \in {"check schema", "load"}
           /\ main' \in {"load", "start database", "exited"}
        \/ main = "create client" /\ main' \in {"attach client", "disable ingress"}
    BY <1>1 DEF CheckSchema, LoadState, CreateMqtt, Goto, Exit
  <2> QED
    BY <2>1, <2>2 DEF clientVars
<1>2. CASE StartDatabaseThread \/ StartBusinessThread
  <2>1. UNCHANGED <<loop, retryThread, bridgeClient, bridgeLock>>
    BY <1>2 DEF StartDatabaseThread, StartBusinessThread, sessionVars, retryVars, eventVars,
                bridgeVars
  <2>2. /\ main \in {"start database", "start business"}
        /\ main' \in {"start business", "create client", "roll back"}
        /\ database' = "idle" \/ UNCHANGED database
    BY <1>2 DEF StartDatabaseThread, StartBusinessThread, Goto
  <2> QED
    BY <2>1, <2>2
<1>3. CASE RollBack
  BY <1>3 DEF RollBack, DisableBridge, Exit, sessionVars, retryVars, runtimeVars, threadVars
<1>4. CASE AttachMqtt
  BY <1>4 DEF AttachMqtt, AttachClient, Goto, sessionVars, retryVars, threadVars
<1>5. CASE StartMqtt
  BY <1>5 DEF StartMqtt, StartLoop, StartRetrying, Goto, sessionVars, retryVars, eventVars,
              bridgeVars, runtimeVars, threadVars
<1>6. CASE CheckStatus \/ NotDue \/ ReadGeneration
  BY <1>6 DEF CheckStatus, NotDue, ReadGeneration, Goto, sessionVars, retryVars, eventVars,
              bridgeVars, runtimeVars, threadVars
<1>7. CASE EnsureSubscriptions
  BY <1>7 DEF EnsureSubscriptions, BeginSubscribe, SendSubscribe, SubscribeFails, MarkSubscribed,
              Goto, retryVars, eventVars, bridgeVars, runtimeVars, threadVars
<1>8. CASE RequestExternalSnapshot
  BY <1>8 DEF RequestExternalSnapshot, RequestSnapshot, Goto, sessionVars, retryVars, eventVars,
              bridgeVars, runtimeVars, threadVars
<1>9. CASE StopAccepting
  BY <1>9 DEF StopAccepting, DisableIngress, ClearHandler, CloseDevices, CloseQueue, Goto,
              sessionVars, retryVars, eventVars, bridgeVars, threadVars
<1>10. CASE Drain
  <2>1. CASE DetachClient
    <3>1. main' \in {"request stop", "stop retry"} /\ main \in {"detach client", "abandon"}
      BY <2>1 DEF DetachClient, Goto
    <3>2. BridgeFree /\ ~bridgeClient' /\ UNCHANGED <<loop, retryThread, bridgeLock, database>>
      BY <2>1 DEF DetachClient, DisableBridge, sessionVars, retryVars, runtimeVars, threadVars
    <3> QED
      BY <3>1, <3>2
  <2>2. CASE ~DetachClient
    <3>1. UNCHANGED clientVars
      BY <1>10, <2>2 DEF Drain, WaitUntil, FlushDatabase, JoinThreads, RequestStop, sessionVars,
                         retryVars, eventVars, bridgeVars, runtimeVars, threadVars, clientVars
    <3>2. \/ main' \in {"wait devices", "flush", "wait flush", "join", "detach client", "abandon"}
             /\ main \notin Detached
          \/ main = "request stop" /\ main' = "stop retry"
      BY <1>10, <2>2 DEF Drain, WaitUntil, FlushDatabase, JoinThreads, RequestStop, Goto
    <3> QED
      BY <3>1, <3>2 DEF clientVars
  <2> QED
    BY <2>1, <2>2
<1>11. CASE StopRetry \/ StopMqtt
  <2>1. UNCHANGED <<retryThread, bridgeClient, bridgeLock, database>>
    BY <1>11 DEF StopRetry, StopMqtt, RequestRetryStop, StopLoop, eventVars, bridgeVars,
                 runtimeVars, threadVars
  <2>2. \/ main = "stop retry" /\ main' = "stop loop" /\ UNCHANGED loop
        \/ main = "stop loop" /\ main' = "exited" /\ RetryJoined /\ loop' = "none"
    BY <1>11 DEF StopRetry, StopMqtt, RequestRetryStop, StopLoop, Goto
  <2> QED
    BY <2>1, <2>2
<1> QED
  BY <1>1, <1>2, <1>3, <1>4, <1>5, <1>6, <1>7, <1>8, <1>9, <1>10, <1>11 DEF MainThread

(* The database thread takes and returns the mutex of the bridge. *)
LEMMA StopDatabase == ASSUME StopInv, DatabaseStep PROVE StopInv'
<1> USE DEF StopInv, BeforeStart, Detached, Replaying, BridgeFree, RetryJoined
<1>1. UNCHANGED <<main, loop, retryThread>>
  BY DEF DatabaseStep, DatabaseThread, DatabaseEnds, ReplayRegistrations, BeginReplayRequest,
         BeginReplay, Unsubscribe, Resubscribe, EndReplay, ReplayFails, sessionVars, retryVars,
         mainVars
<1>2. \/ UNCHANGED <<database, bridgeClient, bridgeLock>>
      \/ /\ database' \in {"idle", "ended"}
         /\ UNCHANGED bridgeClient
      \/ /\ database' \in Replaying /\ bridgeClient /\ bridgeLock' # "free"
         /\ UNCHANGED bridgeClient
  <2>1. CASE DatabaseEnds
    BY <2>1 DEF DatabaseEnds, eventVars, bridgeVars
  <2>2. CASE BeginReplayRequest
    BY <2>2 DEF BeginReplayRequest, LockBridge, CanPublish, eventVars, bridgeVars
  <2>3. CASE ReplayRegistrations /\ ~BeginReplayRequest
    BY <2>3 DEF ReplayRegistrations, ReplayStep, UnlockBridge, eventVars, bridgeVars
  <2> QED
    BY <2>1, <2>2, <2>3 DEF DatabaseStep, DatabaseThread
<1>3. CASE UNCHANGED <<database, bridgeClient, bridgeLock>>
  BY <1>1, <1>3
<1>4. CASE database' \in {"idle", "ended"} /\ UNCHANGED bridgeClient
  BY <1>1, <1>4
<1>5. CASE database' \in Replaying /\ bridgeClient /\ bridgeLock' # "free" /\ UNCHANGED bridgeClient
  BY <1>1, <1>5
<1> QED
  BY <1>2, <1>3, <1>4, <1>5

LEMMA StopNext == StopInv /\ [Next]_vars => StopInv'
<1> SUFFICES ASSUME StopInv, [Next]_vars PROVE StopInv'
  OBVIOUS
<1> USE DEF StopInv, BeforeStart, Detached, Replaying, BridgeFree, RetryJoined
<1>1. CASE UNCHANGED <<main, clientVars>>
  BY <1>1 DEF clientVars
<1>2. CASE MigrateSchema
  BY <1>2 DEF MigrateSchema, sessionVars, retryVars, eventVars, bridgeVars, runtimeVars,
              threadVars, mainVars
<1>3. CASE Network
  BY <1>3 DEF Network, LinkBreaks, RetryConnects, FinishRetry, retryVars, eventVars, bridgeVars,
              runtimeVars, threadVars, mainVars
<1>4. CASE LoopStep
  <2>1. loop # "none"
    BY <1>4 DEF LoopStep, LoopThread, LinkUp, NoticeLoss, HandleDisconnect, HandleConnect,
                ConnectionRefused, HandleMessage, Dispatch, TakeSubmitter, Submit
  <2>2. UNCHANGED <<main, retryThread, bridgeClient, bridgeLock, database>>
    BY <1>4 DEF LoopStep, LoopThread, LinkUp, NoticeLoss, HandleDisconnect, HandleConnect,
                ConnectionRefused, BeginSubscribe, SendSubscribe, SubscribeFails, MarkSubscribed,
                HandleMessage, retryVars, eventVars, bridgeVars, runtimeVars, threadVars, mainVars
  <2> QED
    BY <2>1, <2>2
<1>5. CASE RetryStep
  BY <1>5 DEF RetryStep, RetryThread, RetryStopped, RetryGoesOn, RetryStartsLoop, FinishRetry,
              retryVars, eventVars, bridgeVars, runtimeVars, threadVars, mainVars
<1>6. CASE BusinessStep
  BY <1>1, <1>6 DEF BusinessStep, BusinessThread, HandleDeviceMessage, ExpireDevice,
              EndProcessReady, EndRound, PublishChange, PublishSnapshot, sessionVars, retryVars,
              eventVars, bridgeVars, mainVars, clientVars
<1> QED
  BY <1>1, <1>2, <1>3, <1>4, <1>5, <1>6, StopMain, StopDatabase
     DEF Next, Exited, vars, sessionVars, retryVars, eventVars, bridgeVars, runtimeVars,
         threadVars, mainVars, clientVars

(* After StopMqtt nothing uses the MQTT client, whichever thread had to be   *)
(* left behind and wherever the stop found it (service_environment.cpp).     *)
THEOREM StoppedClientStaysAlone == Spec => []StoppedClientIsLeftAlone
<1>1. StopInv => StoppedClientIsLeftAlone
  BY DEF StopInv, StoppedClientIsLeftAlone, Detached, Replaying
<1> QED
  BY <1>1, StopInit, StopNext, PTL DEF Spec

-----------------------------------------------------------------------------
(* The subscriptions: a mark of the present generation means that the        *)
(* filter was sent on the present connection.  The registration filter is     *)
(* the exception, because a replay marks it for whatever connection there is  *)
(* at its end; together with a mark of the telemetry filter, which a replay   *)
(* never sets, it means the same.                                             *)
SubscriptionTypeOK ==
    /\ generation \in Nat
    /\ marked \in [FilterSet -> Nat]
    /\ work \in [gen : Nat, todo : Seq(FilterSet)]
    /\ subs \subseteq FilterSet

(* The connection a callback has announced is the one that is up. *)
ConnectedInv ==
    /\ link = "down" /\ loop # "disconnect" => ~connected
    /\ loop = "connect" => ~connected /\ link # "down"
    /\ retryThread \in {"wait", "check", "start loop"} => loop = "none"

(* No mark, and no holder of the lock, is of a later connection. *)
GenerationInv ==
    /\ \A f \in FilterSet : marked[f] <= generation
    /\ work.gen <= generation

ReplayInv ==
    database \in {"unsubscribe", "resubscribe", "mark"} => subLock = "database"

Alive == link = "up" /\ connected
InTodo(f) == \E i \in 1..Len(work.todo) : work.todo[i] = f

MarkInv ==
    Alive =>
        /\ \A f \in {"telemetry", "commands"} : marked[f] = generation => f \in subs
        /\ (\A f \in DeviceFilters : marked[f] = generation) /\ subLock # "database"
               => "registration" \in subs
        /\ subLock \in {"loop", "main"} /\ work.gen = generation
               => \A f \in FilterSet : f \in subs \/ InTodo(f)
        /\ database = "mark" /\ marked["telemetry"] = generation => "registration" \in subs

SubscriptionInv ==
    SubscriptionTypeOK /\ ConnectedInv /\ GenerationInv /\ ReplayInv /\ MarkInv

LEMMA SubscriptionInit == Init => SubscriptionInv
<1> SUFFICES ASSUME Init PROVE SubscriptionInv
  OBVIOUS
<1>0. <<>> \in Seq(FilterSet)
  OBVIOUS
<1>1. SubscriptionTypeOK /\ GenerationInv
  <2>1. work.gen = 0 /\ work \in [gen : Nat, todo : Seq(FilterSet)]
    BY <1>0 DEF Init, InitSession, NoWork
  <2>2. generation = 0 /\ subs = {} /\ marked = [f \in FilterSet |-> 0]
    BY DEF Init, InitSession
  <2> QED
    BY <2>1, <2>2 DEF SubscriptionTypeOK, GenerationInv
<1>2. ConnectedInv /\ ReplayInv /\ MarkInv
  BY DEF Init, InitSession, InitRuntime, ConnectedInv, ReplayInv, MarkInv, Alive
<1> QED
  BY <1>1, <1>2 DEF SubscriptionInv

(* What the filters to subscribe are *)
LEMMA PendingFilters ==
    /\ Pending \in Seq(FilterSet)
    /\ SubscribeDevices => \A f \in DeviceFilters : \E i \in 1..Len(Pending) : Pending[i] = f
    /\ SubscribeCommands => \E i \in 1..Len(Pending) : Pending[i] = "commands"
<1> DEFINE a == IF SubscribeDevices THEN <<"registration", "telemetry">> ELSE <<>>
           b == IF SubscribeCommands THEN <<"commands">> ELSE <<>>
<1>1. a \in Seq(FilterSet) /\ b \in Seq(FilterSet)
  <2>1. <<"registration", "telemetry">> \in Seq(FilterSet)
    BY DEF FilterSet
  <2>2. <<"commands">> \in Seq(FilterSet)
    BY DEF FilterSet
  <2>3. <<>> \in Seq(FilterSet)
    OBVIOUS
  <2> QED
    BY <2>1, <2>2, <2>3
<1>2. SubscribeDevices => Len(a) = 2 /\ a[1] = "registration" /\ a[2] = "telemetry"
  OBVIOUS
<1>3. SubscribeCommands => Len(b) = 1 /\ b[1] = "commands"
  OBVIOUS
<1> HIDE DEF a, b
<1>4. Pending = a \o b
  BY DEF Pending, a, b
<1>5. /\ a \o b \in Seq(FilterSet)
      /\ Len(a \o b) = Len(a) + Len(b)
      /\ \A i \in 1..Len(a) : (a \o b)[i] = a[i]
      /\ \A i \in 1..Len(b) : (a \o b)[Len(a) + i] = b[i]
  BY <1>1
<1>6. SubscribeDevices => \A f \in DeviceFilters : \E i \in 1..Len(Pending) : Pending[i] = f
  <2> SUFFICES ASSUME SubscribeDevices
               PROVE  \A f \in DeviceFilters : \E i \in 1..Len(Pending) : Pending[i] = f
    OBVIOUS
  <2>0. Len(a) = 2 /\ Len(b) \in Nat
    BY <1>1, <1>2
  <2>1. 1 \in 1..Len(a) /\ 2 \in 1..Len(a) /\ Len(b) \in Nat
    BY <2>0
  <2>2. 1 \in 1..Len(Pending) /\ 2 \in 1..Len(Pending)
    BY <1>2, <1>4, <1>5, <2>1
  <2>3. Pending[1] = "registration" /\ Pending[2] = "telemetry"
    BY <1>2, <1>4, <1>5, <2>1
  <2> QED
    BY <2>2, <2>3 DEF DeviceFilters
<1>7. SubscribeCommands => \E i \in 1..Len(Pending) : Pending[i] = "commands"
  <2> SUFFICES ASSUME SubscribeCommands PROVE \E i \in 1..Len(Pending) : Pending[i] = "commands"
    OBVIOUS
  <2>1. 1 \in 1..Len(b) /\ Len(a) \in Nat
    BY <1>1, <1>3
  <2>2. Len(a) + 1 \in 1..Len(Pending) /\ Pending[Len(a) + 1] = "commands"
    BY <1>3, <1>4, <1>5, <2>1
  <2> QED
    BY <2>2
<1> QED
  BY <1>4, <1>5, <1>6, <1>7

(* A step of some thread inside its code: nothing of the connection moves. *)
LEMMA SubscriptionElsewhere ==
  ASSUME SubscriptionInv, UNCHANGED <<linkVars, connected, generation, markVars, database>>,
         ConnectedInv'
  PROVE  SubscriptionInv'
  BY DEF linkVars, markVars, SubscriptionInv, SubscriptionTypeOK, GenerationInv, ReplayInv,
         MarkInv, Alive, InTodo

(* The connection is not alive after the step. *)
LEMMA SubscriptionDead ==
  ASSUME SubscriptionInv, ~Alive', ConnectedInv', UNCHANGED <<generation, markVars, database>>,
         subs' \subseteq FilterSet
  PROVE  SubscriptionInv'
  BY DEF markVars, SubscriptionInv, SubscriptionTypeOK, GenerationInv, ReplayInv, MarkInv

LEMMA SubscriptionLink ==
  ASSUME SubscriptionInv, UNCHANGED database,
         LinkUp \/ LinkBreaks \/ NoticeLoss \/ HandleDisconnect \/ ConnectionRefused \/ StopLoop
  PROVE  SubscriptionInv'
<1> USE DEF SubscriptionInv
<1>1. ConnectedInv'
  <2>1. CASE LinkUp
    BY <2>1 DEF ConnectedInv, LinkUp, retryVars
  <2>2. CASE LinkBreaks
    BY <2>2 DEF ConnectedInv, LinkBreaks, retryVars
  <2>3. CASE NoticeLoss
    BY <2>3 DEF ConnectedInv, NoticeLoss, retryVars
  <2>4. CASE HandleDisconnect \/ ConnectionRefused
    BY <2>4 DEF ConnectedInv, HandleDisconnect, ConnectionRefused, linkVars, retryVars
  <2>5. CASE StopLoop
    BY <2>5 DEF ConnectedInv, StopLoop, RetryJoined
  <2> QED
    BY <2>1, <2>2, <2>3, <2>4, <2>5
<1>2. ~Alive'
  BY DEF ConnectedInv, Alive, LinkUp, LinkBreaks, NoticeLoss, HandleDisconnect, ConnectionRefused,
         StopLoop
<1>3. UNCHANGED <<generation, markVars>> /\ subs' \subseteq FilterSet
  BY DEF SubscriptionTypeOK, LinkUp, LinkBreaks, NoticeLoss, HandleDisconnect, ConnectionRefused,
         StopLoop, linkVars
<1> QED
  BY <1>1, <1>2, <1>3, SubscriptionDead

(* A new generation has no marks and no holder of the lock. *)
LEMMA SubscriptionConnect ==
  ASSUME SubscriptionInv, HandleConnect, UNCHANGED database PROVE SubscriptionInv'
<1> USE DEF SubscriptionInv
<1>0. generation' = generation + 1 /\ loop = "connect" /\ loop' = "wait lock"
  BY DEF HandleConnect, ConnectedInv
<1>1. UNCHANGED <<link, subs, marked, subLock, work, retryThread>>
  BY DEF HandleConnect, linkVars, markVars, retryVars
<1>2. ConnectedInv'
  BY <1>0, <1>1 DEF ConnectedInv
<1>3. /\ generation \in Nat /\ work.gen \in Nat /\ work.gen <= generation
      /\ \A f \in FilterSet : marked[f] \in Nat /\ marked[f] <= generation
  BY DEF SubscriptionTypeOK, GenerationInv
<1>4. generation' = generation + 1 /\ marked' = marked /\ work' = work /\ subs' = subs
  BY <1>0, <1>1
<1>5. (\A f \in FilterSet : marked'[f] # generation') /\ work'.gen # generation'
  BY <1>3, <1>4
<1>6. MarkInv'
  BY <1>5 DEF MarkInv, FilterSet, DeviceFilters
<1>7. SubscriptionTypeOK'
  BY <1>4 DEF SubscriptionTypeOK
<1>8. GenerationInv'
  BY <1>3, <1>4 DEF GenerationInv
<1>9. ReplayInv'
  BY <1>1 DEF ReplayInv
<1> QED
  BY <1>2, <1>6, <1>7, <1>8, <1>9

(* The three steps of SubscribeConfigured, on the loop or the main thread *)
LEMMA SubscriptionBegin ==
  ASSUME SubscriptionInv, NEW t \in {"loop", "main"}, BeginSubscribe(t), ConnectedInv',
         UNCHANGED database
  PROVE  SubscriptionInv'
<1> USE DEF SubscriptionInv
<1>1. /\ subLock = "free" /\ subLock' = t /\ work' = [gen |-> generation, todo |-> Pending]
      /\ UNCHANGED <<link, subs, connected, generation, marked>>
  BY DEF BeginSubscribe, linkVars
<1>2. SubscriptionTypeOK' /\ GenerationInv'
  BY <1>1, PendingFilters DEF SubscriptionTypeOK, GenerationInv
<1>3. ReplayInv'
  BY <1>1 DEF ReplayInv
<1>4. ASSUME Alive, NEW f \in FilterSet PROVE f \in subs \/ InTodo(f)'
  <2>1. InTodo(f)' <=> \E i \in 1..Len(Pending) : Pending[i] = f
    BY <1>1 DEF InTodo
  <2>2. CASE f \in DeviceFilters
    BY <1>1, <1>4, <2>1, <2>2, PendingFilters DEF MarkInv, SubscribeDevices, DeviceFilters
  <2>3. CASE f = "commands"
    BY <1>1, <1>4, <2>1, <2>3, PendingFilters DEF MarkInv, SubscribeCommands
  <2> QED
    BY <2>2, <2>3 DEF FilterSet, DeviceFilters
<1>5. MarkInv'
  BY <1>1, <1>4 DEF MarkInv, Alive
<1> QED
  BY <1>2, <1>3, <1>5

LEMMA SubscriptionSend ==
  ASSUME SubscriptionInv, NEW t \in {"loop", "main"}, SendSubscribe(t), ConnectedInv',
         UNCHANGED database
  PROVE  SubscriptionInv'
<1> USE DEF SubscriptionInv
<1> DEFINE todo == work.todo
<1>1. /\ subLock = t /\ todo # <<>> /\ subs' = Subscribed(Head(todo))
      /\ work' = [work EXCEPT !.todo = Tail(@)]
      /\ UNCHANGED <<link, connected, generation, marked, subLock>>
  BY DEF SendSubscribe
<1>2. todo \in Seq(FilterSet) /\ work.gen \in Nat
  BY DEF SubscriptionTypeOK
<1>3. work'.todo = Tail(todo) /\ work'.gen = work.gen
  BY <1>1 DEF SubscriptionTypeOK
<1> HIDE DEF todo
<1>4. /\ Head(todo) \in FilterSet /\ Tail(todo) \in Seq(FilterSet)
      /\ \A i \in 1..Len(todo) :
            todo[i] = Head(todo) \/ \E j \in 1..Len(Tail(todo)) : Tail(todo)[j] = todo[i]
  <2>1. Head(todo) \in FilterSet /\ Tail(todo) \in Seq(FilterSet) /\ Head(todo) = todo[1]
    BY <1>1, <1>2
  <2>2. Len(todo) \in Nat /\ Len(Tail(todo)) = Len(todo) - 1
        /\ \A j \in 1..Len(Tail(todo)) : Tail(todo)[j] = todo[j + 1]
    BY <1>1, <1>2
  <2>3. ASSUME NEW i \in 1..Len(todo), i # 1
        PROVE  \E j \in 1..Len(Tail(todo)) : Tail(todo)[j] = todo[i]
    <3>1. i - 1 \in 1..Len(Tail(todo)) /\ Tail(todo)[i - 1] = todo[(i - 1) + 1] /\ (i - 1) + 1 = i
      BY <2>2, <2>3
    <3> QED
      BY <3>1
  <2> QED
    BY <2>1, <2>3
<1>5. SubscriptionTypeOK'
  <2>1. work' \in [gen : Nat, todo : Seq(FilterSet)]
    BY <1>1, <1>4 DEF SubscriptionTypeOK, todo
  <2> QED
    BY <1>1, <1>4, <2>1 DEF SubscriptionTypeOK, Subscribed
<1>6. GenerationInv' /\ ReplayInv'
  BY <1>1, <1>3 DEF GenerationInv, ReplayInv
<1>7. subs \subseteq subs' /\ (Alive => Head(todo) \in subs')
  BY <1>1 DEF Subscribed, Alive
<1>8. \A f : InTodo(f) => f = Head(todo) \/ InTodo(f)'
  BY <1>3, <1>4 DEF InTodo, todo
<1>9. MarkInv'
  BY <1>1, <1>3, <1>7, <1>8 DEF MarkInv, Alive
<1> QED
  BY <1>5, <1>6, <1>9

LEMMA SubscriptionFails ==
  ASSUME SubscriptionInv, NEW t \in {"loop", "main"}, SubscribeFails(t), ConnectedInv',
         UNCHANGED database
  PROVE  SubscriptionInv'
<1> USE DEF SubscriptionInv
<1>1. /\ subLock = t /\ subLock' = "free" /\ work' = NoWork /\ link = "down"
      /\ UNCHANGED <<link, subs, connected, generation, marked>>
  BY DEF SubscribeFails, linkVars
<1>2. <<>> \in Seq(FilterSet)
  OBVIOUS
<1>3. SubscriptionTypeOK' /\ GenerationInv'
  BY <1>1, <1>2 DEF SubscriptionTypeOK, GenerationInv, NoWork
<1>4. ReplayInv' /\ MarkInv'
  BY <1>1 DEF ReplayInv, MarkInv, Alive
<1> QED
  BY <1>3, <1>4

LEMMA SubscriptionMark ==
  ASSUME SubscriptionInv, NEW t \in {"loop", "main"}, MarkSubscribed(t), ConnectedInv',
         UNCHANGED database
  PROVE  SubscriptionInv'
<1> USE DEF SubscriptionInv
<1>1. /\ subLock = t /\ subLock' = "free" /\ work' = NoWork /\ work.todo = <<>>
      /\ UNCHANGED <<link, subs, connected, generation>>
  BY DEF MarkSubscribed, linkVars
<1>2. <<>> \in Seq(FilterSet)
  OBVIOUS
<1>3. \/ marked' = marked
      \/ marked' = [f \in FilterSet |-> generation] /\ work.gen = generation /\ connected
  BY DEF MarkSubscribed, SameConnection
<1>4. SubscriptionTypeOK' /\ GenerationInv'
  BY <1>1, <1>2, <1>3 DEF SubscriptionTypeOK, GenerationInv, NoWork
<1>5. ReplayInv' /\ database \notin {"unsubscribe", "resubscribe", "mark"}
  BY <1>1 DEF ReplayInv
<1>6. \A f : ~InTodo(f)
  BY <1>1 DEF InTodo
<1>7. CASE marked' = marked
  <2>1. MarkInv'
    BY <1>1, <1>5, <1>7 DEF MarkInv, Alive
  <2> QED
    BY <1>4, <1>5, <2>1
<1>8. CASE work.gen = generation /\ connected
  <2>1. Alive => FilterSet \subseteq subs
    BY <1>1, <1>6, <1>8 DEF MarkInv
  <2> QED
    BY <1>1, <1>4, <1>5, <2>1 DEF MarkInv, Alive, FilterSet, ReplayInv
<1> QED
  BY <1>3, <1>4, <1>5, <1>7, <1>8

(* The database thread: the registration filter is gone for a while, under  *)
(* the lock, and back before the lock is returned.                          *)
LEMMA SubscriptionReplay ==
  ASSUME SubscriptionInv, ReplayRegistrations PROVE SubscriptionInv'
<1> USE DEF SubscriptionInv
<1>0. UNCHANGED <<connected, generation, loop, retryThread, link, work>>
  BY DEF ReplayRegistrations, BeginReplayRequest, BeginReplay, Unsubscribe, Resubscribe, EndReplay,
         ReplayFails, sessionVars, linkVars, markVars, retryVars
<1>1. ConnectedInv' /\ (Alive' <=> Alive)
  BY <1>0 DEF ConnectedInv, Alive
<1>2. CASE BeginReplayRequest
  <2>1. database' \in {database, "wait lock"} /\ UNCHANGED <<subs, marked, subLock>>
    BY <1>2 DEF BeginReplayRequest, sessionVars, linkVars, markVars
  <2> QED
    BY <1>0, <1>1, <2>1 DEF SubscriptionTypeOK, GenerationInv, ReplayInv, MarkInv, InTodo
<1>3. CASE ReplayStep("wait lock", "unsubscribe") /\ BeginReplay
  <2>1. database' = "unsubscribe" /\ subLock' = "database" /\ UNCHANGED <<subs, marked>>
    BY <1>3 DEF ReplayStep, BeginReplay, linkVars
  <2> QED
    BY <1>0, <1>1, <2>1 DEF SubscriptionTypeOK, GenerationInv, ReplayInv, MarkInv, InTodo
<1>4. CASE ReplayStep("unsubscribe", "resubscribe") /\ Unsubscribe
  <2>1. /\ database' = "resubscribe" /\ subLock = "database"
        /\ subs' = subs \ {"registration"} /\ UNCHANGED <<subLock, marked>>
    BY <1>4 DEF ReplayStep, Unsubscribe, markVars, ReplayInv
  <2> QED
    BY <1>0, <1>1, <2>1 DEF SubscriptionTypeOK, GenerationInv, ReplayInv, MarkInv, InTodo
<1>5. CASE ReplayStep("resubscribe", "mark") /\ Resubscribe
  <2>1. /\ database' = "mark" /\ subLock = "database"
        /\ subs' = Subscribed("registration") /\ UNCHANGED <<subLock, marked>>
    BY <1>5 DEF ReplayStep, Resubscribe, markVars, ReplayInv
  <2>2. subs \subseteq subs' /\ subs' \subseteq FilterSet /\ (Alive => "registration" \in subs')
    BY <2>1 DEF Subscribed, SubscriptionTypeOK, FilterSet, Alive
  <2> QED
    BY <1>0, <1>1, <2>1, <2>2 DEF SubscriptionTypeOK, GenerationInv, ReplayInv, MarkInv, InTodo
<1>6. CASE ReplayStep("mark", "idle") /\ EndReplay
  <2>1. /\ database = "mark" /\ database' = "idle" /\ subLock' = "free" /\ subs' = subs
    BY <1>6 DEF ReplayStep, EndReplay, linkVars
  <2>2. /\ marked' \in [FilterSet -> Nat]
        /\ \A f \in {"telemetry", "commands"} : marked'[f] = marked[f]
        /\ \A f \in FilterSet : marked'[f] = marked[f] \/ marked'[f] = generation
    BY <1>6 DEF EndReplay, MarkReplayed, SubscriptionTypeOK, FilterSet
  <2>3. SubscriptionTypeOK'
    BY <1>0, <2>1, <2>2 DEF SubscriptionTypeOK
  <2>4. GenerationInv'
    <3>1. \A f \in FilterSet : marked'[f] <= generation
      BY <2>2 DEF SubscriptionTypeOK, GenerationInv
    <3> QED
      BY <1>0, <3>1 DEF GenerationInv
  <2>5. ReplayInv'
    BY <2>1 DEF ReplayInv
  <2>6. MarkInv'
    <3>1. Alive' => \A f \in {"telemetry", "commands"} : marked'[f] = generation' => f \in subs'
      BY <1>0, <1>1, <2>1, <2>2 DEF MarkInv
    <3>2. Alive' /\ marked'["telemetry"] = generation' => "registration" \in subs'
      BY <1>0, <1>1, <2>1, <2>2 DEF MarkInv
    <3> QED
      BY <2>1, <3>1, <3>2 DEF MarkInv, DeviceFilters
  <2> QED
    BY <1>1, <2>3, <2>5, <2>6, <2>4
<1>7. CASE database' = "idle" /\ ReplayFails
  <2>1. subLock' = "free" /\ ~Alive' /\ UNCHANGED <<subs, marked>>
    BY <1>7 DEF ReplayFails, linkVars, Alive
  <2> QED
    BY <1>0, <1>1, <1>7, <2>1 DEF SubscriptionTypeOK, GenerationInv, ReplayInv, MarkInv
<1> QED
  BY <1>2, <1>3, <1>4, <1>5, <1>6, <1>7 DEF ReplayRegistrations, ReplayStep

LEMMA SubscriptionNext == StopInv /\ SubscriptionInv /\ [Next]_vars => SubscriptionInv'
<1> SUFFICES ASSUME StopInv, SubscriptionInv, [Next]_vars PROVE SubscriptionInv'
  OBVIOUS
<1>0. ConnectedInv
  BY DEF SubscriptionInv
<1>1. CASE UNCHANGED <<sessionVars, database>>
  BY <1>0, <1>1, SubscriptionElsewhere DEF sessionVars, retryVars, ConnectedInv, linkVars
<1>2. CASE LoopThread /\ UNCHANGED database
  <2>1. ASSUME UNCHANGED <<link, connected, retryThread>>, loop' \in {"subscribe", "idle"},
               loop \in {"wait lock", "subscribe"}
        PROVE  ConnectedInv'
    BY <1>0, <2>1 DEF ConnectedInv
  <2>2. CASE loop = "wait lock" /\ BeginSubscribe("loop") /\ loop' = "subscribe"
    BY <1>2, <2>1, <2>2, SubscriptionBegin DEF BeginSubscribe, linkVars, retryVars
  <2>3. CASE loop = "subscribe" /\ SendSubscribe("loop") /\ UNCHANGED loop
    BY <1>2, <2>1, <2>3, SubscriptionSend DEF SendSubscribe, retryVars
  <2>4. CASE loop = "subscribe" /\ SubscribeFails("loop") /\ loop' = "idle"
    BY <1>2, <2>1, <2>4, SubscriptionFails DEF SubscribeFails, linkVars, retryVars
  <2>5. CASE loop = "subscribe" /\ MarkSubscribed("loop") /\ loop' = "idle"
    BY <1>2, <2>1, <2>5, SubscriptionMark DEF MarkSubscribed, linkVars, retryVars
  <2> QED
    BY <1>2, <2>2, <2>3, <2>4, <2>5, SubscriptionLink, SubscriptionConnect DEF LoopThread
<1>3. CASE HandleMessage
  <2>1. UNCHANGED <<linkVars, connected, generation, markVars, retryThread, database>>
    BY <1>3 DEF HandleMessage, retryVars
  <2>2. loop \in {"idle", "ingress", "submit"} /\ loop' \in {"idle", "ingress", "submit"}
    BY <1>3 DEF HandleMessage, Dispatch, TakeSubmitter, Submit
  <2>3. ConnectedInv'
    BY <1>0, <2>1, <2>2 DEF ConnectedInv, linkVars
  <2> QED
    BY <2>1, <2>3, SubscriptionElsewhere
<1>4. CASE EnsureSubscriptions
  <2>1. UNCHANGED <<loop, database, connected, link, retryThread>>
    BY <1>4 DEF EnsureSubscriptions, BeginSubscribe, SendSubscribe, SubscribeFails, MarkSubscribed,
                linkVars, retryVars, runtimeVars, threadVars
  <2>2. ConnectedInv'
    BY <1>0, <2>1 DEF ConnectedInv
  <2> QED
    BY <1>4, <2>1, <2>2, SubscriptionBegin, SubscriptionSend, SubscriptionFails, SubscriptionMark
       DEF EnsureSubscriptions
<1>5. CASE StartMqtt
  <2>1. main = "start client" /\ loop = "none"
    BY <1>5 DEF StartMqtt, StopInv, BeforeStart
  <2>2. UNCHANGED <<linkVars, connected, generation, markVars, database>>
    BY <1>5 DEF StartMqtt, StartLoop, StartRetrying, sessionVars, runtimeVars, threadVars
  <2>3. \/ loop' = "idle" /\ UNCHANGED retryThread
        \/ loop' = "none"
    BY <1>5, <2>1 DEF StartMqtt, StartLoop, StartRetrying, sessionVars
  <2>4. retryThread = "none"
    BY <2>1 DEF StopInv, BeforeStart
  <2>5. ConnectedInv'
    BY <1>0, <2>1, <2>2, <2>3, <2>4 DEF ConnectedInv, linkVars
  <2> QED
    BY <2>2, <2>5, SubscriptionElsewhere
<1>6. CASE StopMqtt
  BY <1>6, SubscriptionLink DEF StopMqtt, runtimeVars, threadVars
<1>7. CASE RetryThread /\ UNCHANGED database
  <2>1. UNCHANGED <<linkVars, connected, generation, markVars>>
    BY <1>7 DEF RetryThread, RetryStopped, RetryGoesOn, RetryStartsLoop
  <2>2. CASE RetryStopped \/ RetryGoesOn
    <3>1. loop' = loop /\ retryThread \in {"wait", "check"}
      BY <2>2 DEF RetryStopped, RetryGoesOn
    <3> QED
      BY <1>0, <1>7, <2>1, <3>1, SubscriptionElsewhere DEF ConnectedInv, linkVars
  <2>3. CASE RetryStartsLoop
    <3>1. retryThread = "start loop" /\ retryThread' = "ended" /\ loop' \in {loop, "idle"}
      BY <2>3 DEF RetryStartsLoop, FinishRetry
    <3>2. loop = "none"
      BY <1>0, <3>1 DEF ConnectedInv
    <3> QED
      BY <1>0, <1>7, <2>1, <3>1, <3>2, SubscriptionElsewhere DEF ConnectedInv, linkVars
  <2> QED
    BY <1>7, <2>2, <2>3 DEF RetryThread
<1>8. CASE Network
  <2>1. UNCHANGED database
    BY <1>8 DEF Network, runtimeVars, threadVars
  <2>2. CASE LinkBreaks
    BY <2>1, <2>2, SubscriptionLink
  <2>3. CASE RetryConnects
    <3>1. UNCHANGED <<linkVars, connected, generation, markVars>>
      BY <2>3 DEF RetryConnects
    <3>2. ConnectedInv'
      BY <1>0, <2>3 DEF ConnectedInv, RetryConnects, FinishRetry, linkVars
    <3> QED
      BY <2>1, <3>1, <3>2, SubscriptionElsewhere
  <2> QED
    BY <1>8, <2>2, <2>3 DEF Network
<1>9. CASE DatabaseStep
  <2>1. CASE DatabaseEnds
    <3>1. database' = "ended" /\ UNCHANGED sessionVars
      BY <2>1 DEF DatabaseEnds
    <3> QED
      BY <3>1 DEF sessionVars, linkVars, markVars, retryVars, SubscriptionInv, SubscriptionTypeOK,
                  ConnectedInv, GenerationInv, ReplayInv, MarkInv, Alive, InTodo
  <2> QED
    BY <1>9, <2>1, SubscriptionReplay DEF DatabaseStep, DatabaseThread
<1>10. CASE StartDatabaseThread
  <2>1. UNCHANGED sessionVars /\ database' \in {"idle", database}
    BY <1>10 DEF StartDatabaseThread
  <2> QED
    BY <2>1 DEF sessionVars, linkVars, markVars, retryVars, SubscriptionInv, SubscriptionTypeOK,
                ConnectedInv, GenerationInv, ReplayInv, MarkInv, Alive, InTodo
<1>11. CASE StopRetry
  <2>1. UNCHANGED <<linkVars, connected, generation, markVars, database, loop, retryThread>>
    BY <1>11 DEF StopRetry, RequestRetryStop, runtimeVars, threadVars
  <2>2. ConnectedInv'
    BY <1>0, <2>1 DEF ConnectedInv, linkVars
  <2> QED
    BY <2>1, <2>2, SubscriptionElsewhere
<1>12. CASE \/ MigrateSchema \/ BusinessStep \/ Exited \/ UNCHANGED vars
            \/ CheckSchema \/ LoadState \/ StartBusinessThread \/ RollBack \/ CreateMqtt
            \/ AttachMqtt \/ CheckStatus \/ NotDue \/ ReadGeneration \/ RequestExternalSnapshot
            \/ StopAccepting \/ Drain
  <2>1. UNCHANGED <<sessionVars, database>>
    BY <1>12 DEF MigrateSchema, BusinessStep, BusinessThread, HandleDeviceMessage, ExpireDevice,
                 EndProcessReady, EndRound, Exited, CheckSchema, LoadState, StartBusinessThread,
                 RollBack, CreateMqtt, AttachMqtt, CheckStatus, NotDue, ReadGeneration,
                 RequestExternalSnapshot, StopAccepting, DisableIngress, ClearHandler, CloseDevices,
                 CloseQueue, Drain, WaitUntil, FlushDatabase, JoinThreads, DetachClient,
                 RequestStop, vars, runtimeVars, threadVars
  <2> QED
    BY <1>1, <2>1
<1> QED
  BY <1>2, <1>3, <1>4, <1>5, <1>6, <1>7, <1>8, <1>9, <1>10, <1>11, <1>12
     DEF Next, MainThread, LoopStep, RetryStep, runtimeVars, threadVars

(* A generation is reported as subscribed only if the broker has all filters *)
(* of that connection, for any number of connections, replays and retries    *)
(* and whichever of the three threads subscribed (mqtt_client.cpp).          *)
THEOREM ReportedStaysSubscribed == Spec => []ReportedIsSubscribed
<1>1. SubscriptionInv => ReportedIsSubscribed
  BY DEF SubscriptionInv, SubscriptionTypeOK, MarkInv, Alive, ReportedIsSubscribed,
         BusinessSubscriptionGeneration, FilterSet, DeviceFilters
<1> QED
  BY <1>1, StopInit, StopNext, SubscriptionInit, SubscriptionNext, PTL DEF Spec

-----------------------------------------------------------------------------
(* What the broker retains.  The messages and the snapshots go out through   *)
(* the bridge, which is open from before the start of the client until the   *)
(* service is closed.                                                        *)
EventTypeOK ==
    /\ record \in [Devices -> [rev : Nat, entry : Nat]]
    /\ directory \in [Devices -> Nat]
    /\ queue \in Seq(Devices)
    /\ loop \in {"ingress", "submit"} => inbound \in Devices
    /\ seen \in Nat /\ lastSnapshot \in Nat

Started == loop # "none" \/ retryThread \in {"wait", "check", "start loop"}
Closing == {"close queue", "wait input", "wait devices", "flush", "wait flush", "abandon",
            "join", "detach client"}

BridgeInv ==
    /\ connected => loop # "none"
    /\ main \in BeforeStart => bridgeEnabled
    /\ main = "start client" => bridgeClient
    /\ main \in Closing => closed
    /\ Started /\ ~closed => CanPublish

(* No snapshot was asked for a later connection, and the directory in memory *)
(* is current as well: only what differs from it is published.               *)
SnapshotTaken ==
    Alive /\ lastSnapshot = generation /\ ~snapshotRequested /\ ~closed

SnapshotInv ==
    /\ seen <= generation /\ lastSnapshot <= generation
    /\ SnapshotTaken => RetainedIsRecord /\ directory = EntryOf(record)

LEMMA ChangedType ==
  ASSUME EventTypeOK, NEW d \in Devices, NEW shown \in BOOLEAN
  PROVE  /\ Changed(d, shown) \in [Devices -> [rev : Nat, entry : Nat]]
         /\ \A e \in Devices \ {d} : Changed(d, shown)[e] = record[e]
<1> DEFINE r == record[d]
           n == [r EXCEPT !.rev = @ + 1, !.entry = IF shown THEN r.rev + 1 ELSE @]
<1>1. r \in [rev : Nat, entry : Nat]
  BY DEF EventTypeOK
<1>2. n \in [rev : Nat, entry : Nat]
  <2>1. r.rev + 1 \in Nat /\ r.entry \in Nat
    BY <1>1
  <2>2. (IF shown THEN r.rev + 1 ELSE r.entry) \in Nat
    BY <2>1
  <2> HIDE DEF r
  <2> QED
    BY <1>1, <2>1, <2>2
<1>3. Changed(d, shown) = [record EXCEPT ![d] = n]
  BY DEF Changed, EventTypeOK
<1> QED
  BY <1>2, <1>3 DEF EventTypeOK

(* A change of one device is recorded and sent through the bridge. *)
LEMMA ChangeIsTyped ==
  ASSUME EventTypeOK, NEW d \in Devices, NEW shown \in BOOLEAN, PublishChange(d, Changed(d, shown))
  PROVE  /\ record' \in [Devices -> [rev : Nat, entry : Nat]]
         /\ directory' \in [Devices -> Nat]
<1> DEFINE rec == Changed(d, shown)
<1>1. record' = rec /\ rec \in [Devices -> [rev : Nat, entry : Nat]]
  BY ChangedType DEF PublishChange
<1>2. rec[d].entry \in Nat
  BY <1>1
<1>3. directory' = directory \/ directory' = [directory EXCEPT ![d] = rec[d].entry]
  BY DEF PublishChange, Update
<1> HIDE DEF rec
<1> QED
  BY <1>1, <1>2, <1>3 DEF EventTypeOK

LEMMA EventTypeNext ==
  ASSUME SubscriptionTypeOK, EventTypeOK, [Next]_vars
  PROVE  EventTypeOK'
<1>1. CASE /\ UNCHANGED <<record, directory, queue, inbound, seen, lastSnapshot>>
           /\ loop' \in {"ingress", "submit"} => loop' = loop
  BY <1>1 DEF EventTypeOK
<1>2. CASE LoopStep /\ ~HandleMessage
  <2>1. UNCHANGED <<record, directory, queue, inbound, seen, lastSnapshot>>
    BY <1>2 DEF LoopStep, eventVars, runtimeVars, ingressVars, mainVars
  <2>2. loop' \in {"ingress", "submit"} => loop' = loop
    BY <1>2 DEF LoopStep, LoopThread, LinkUp, NoticeLoss, HandleDisconnect, HandleConnect,
                ConnectionRefused
  <2> QED
    BY <1>1, <2>1, <2>2
<1>3. CASE HandleMessage /\ UNCHANGED mainVars
  <2>1. UNCHANGED <<record, directory, seen, lastSnapshot>>
    BY <1>3 DEF HandleMessage, eventVars, mainVars
  <2>2. CASE \E d \in Devices : Dispatch(d)
    BY <2>1, <2>2 DEF Dispatch, EventTypeOK
  <2>3. CASE TakeSubmitter
    BY <2>1, <2>3 DEF TakeSubmitter, EventTypeOK
  <2>4. CASE Submit
    <3>1. inbound \in Devices /\ loop' = "idle"
      BY <2>4 DEF Submit, EventTypeOK
    <3>2. queue' = Append(queue, inbound) \/ queue' = queue
      BY <2>4 DEF Submit
    <3>4. queue \in Seq(Devices)
      BY DEF EventTypeOK
    <3>3. queue' \in Seq(Devices)
      BY <3>1, <3>2, <3>4
    <3> QED
      BY <2>1, <3>1, <3>3 DEF EventTypeOK
  <2> QED
    BY <1>3, <2>2, <2>3, <2>4 DEF HandleMessage
<1>4. CASE BusinessStep
  <2>1. UNCHANGED <<loop, inbound, seen, lastSnapshot>>
    BY <1>4 DEF BusinessStep, BusinessThread, HandleDeviceMessage, ExpireDevice, EndProcessReady,
                EndRound, sessionVars, ingressVars, mainVars
  <2>2. CASE HandleDeviceMessage
    <3>1. queue \in Seq(Devices) /\ queue # <<>> /\ queue' = Tail(queue)
      BY <2>2 DEF HandleDeviceMessage, EventTypeOK
    <3>2. Head(queue) \in Devices /\ queue' \in Seq(Devices)
      BY <3>1
    <3>3. /\ record' \in [Devices -> [rev : Nat, entry : Nat]]
          /\ directory' \in [Devices -> Nat]
      BY <2>2, <3>2, ChangeIsTyped DEF HandleDeviceMessage
    <3> QED
      BY <2>1, <3>2, <3>3 DEF EventTypeOK
  <2>3. CASE ExpireDevice
    <3>1. UNCHANGED queue
      BY <2>3 DEF ExpireDevice, ingressVars
    <3>2. /\ record' \in [Devices -> [rev : Nat, entry : Nat]]
          /\ directory' \in [Devices -> Nat]
      BY <2>3, ChangeIsTyped DEF ExpireDevice
    <3> QED
      BY <2>1, <3>1, <3>2 DEF EventTypeOK
  <2>4. CASE EndProcessReady
    <3>1. UNCHANGED <<queue, record>>
      BY <2>4 DEF EndProcessReady, PublishSnapshot, ingressVars, eventVars
    <3>2. directory' = directory \/ directory' = [d \in Devices |-> record[d].entry]
      BY <2>4 DEF EndProcessReady, PublishSnapshot, eventVars, Replace, EntryOf
    <3>3. directory' \in [Devices -> Nat]
      BY <3>2 DEF EventTypeOK
    <3> QED
      BY <2>1, <3>1, <3>3 DEF EventTypeOK
  <2>5. CASE EndRound
    BY <1>1, <2>1, <2>5 DEF EndRound, eventVars, ingressVars
  <2> QED
    BY <1>4, <2>2, <2>3, <2>4, <2>5 DEF BusinessStep, BusinessThread
<1>5. CASE ReadGeneration
  <2>1. UNCHANGED <<record, directory, queue, inbound, lastSnapshot, loop>>
    BY <1>5 DEF ReadGeneration, sessionVars, eventVars, runtimeVars, ingressVars
  <2>2. seen' \in Nat
    BY <1>5 DEF ReadGeneration, BusinessSubscriptionGeneration, SubscriptionTypeOK
  <2> QED
    BY <2>1, <2>2 DEF EventTypeOK
<1>6. CASE RequestExternalSnapshot
  <2>1. UNCHANGED <<record, directory, queue, inbound, loop>>
    BY <1>6 DEF RequestExternalSnapshot, RequestSnapshot, sessionVars, eventVars, runtimeVars,
                ingressVars
  <2>2. seen' = 0 /\ lastSnapshot' \in {seen, lastSnapshot}
    BY <1>6 DEF RequestExternalSnapshot
  <2> QED
    BY <2>1, <2>2 DEF EventTypeOK
<1>7. CASE DatabaseStep
  <2>1. UNCHANGED <<record, directory, queue, inbound, seen, lastSnapshot>>
    BY <1>7 DEF DatabaseStep, DatabaseThread, DatabaseEnds, ReplayRegistrations, BeginReplayRequest,
                LockBridge, UnlockBridge, eventVars, ingressVars, mainVars
  <2>2. UNCHANGED loop
    BY <1>7 DEF DatabaseStep, DatabaseThread, DatabaseEnds, ReplayRegistrations, BeginReplayRequest,
                BeginReplay, Unsubscribe, Resubscribe, EndReplay, ReplayFails, sessionVars
  <2> QED
    BY <1>1, <2>1, <2>2
<1>8. CASE RetryStep \/ Network
  <2>1. UNCHANGED <<record, directory, queue, inbound, seen, lastSnapshot>>
    BY <1>8 DEF RetryStep, Network, eventVars, runtimeVars, ingressVars, mainVars
  <2>2. loop' \in {"ingress", "submit"} => loop' = loop
    BY <1>8 DEF RetryStep, RetryThread, RetryStopped, RetryGoesOn, RetryStartsLoop, Network,
                LinkBreaks, RetryConnects
  <2> QED
    BY <1>1, <2>1, <2>2
<1>9. CASE MigrateSchema \/ Exited \/ UNCHANGED vars
  BY <1>1, <1>9 DEF MigrateSchema, Exited, vars, sessionVars, eventVars, runtimeVars, ingressVars,
                    mainVars
<1>10. CASE MainThread /\ ~ReadGeneration /\ ~RequestExternalSnapshot
  <2>1. UNCHANGED <<record, directory, queue, inbound, seen, lastSnapshot>>
    BY <1>10 DEF MainThread, CheckSchema, LoadState, StartDatabaseThread, StartBusinessThread,
                 RollBack, DisableBridge, CreateMqtt, AttachMqtt, AttachClient, StartMqtt,
                 CheckStatus, NotDue, EnsureSubscriptions, StopAccepting, DisableIngress,
                 ClearHandler, CloseDevices, CloseQueue, Drain, WaitUntil, FlushDatabase,
                 JoinThreads, DetachClient, RequestStop, StopRetry, StopMqtt, localVars,
                 eventVars, runtimeVars, ingressVars
  <2>2. loop' \in {"ingress", "submit"} => loop' = loop
    BY <1>10 DEF MainThread, CheckSchema, LoadState, StartDatabaseThread, StartBusinessThread,
                 RollBack, CreateMqtt, AttachMqtt, StartMqtt, StartLoop, StartRetrying,
                 CheckStatus, NotDue, EnsureSubscriptions, StopAccepting, DisableIngress,
                 ClearHandler, CloseDevices, CloseQueue, Drain, WaitUntil, FlushDatabase,
                 JoinThreads, DetachClient, RequestStop, StopRetry, RequestRetryStop, StopMqtt,
                 StopLoop, sessionVars
  <2> QED
    BY <1>1, <2>1, <2>2
<1> QED
  BY <1>2, <1>3, <1>4, <1>5, <1>6, <1>7, <1>8, <1>9, <1>10 DEF Next, LoopStep

(* What BridgeInv says of the threads other than the main one *)
startVars == <<connected, loop, retryThread, bridgeEnabled, bridgeClient, closed>>

LEMMA BridgeMain ==
  ASSUME StopInv, BridgeInv, MainThread
  PROVE  BridgeInv'
<1> USE DEF BeforeStart, Closing
<1>1. CASE \/ CheckSchema \/ LoadState \/ StartDatabaseThread \/ StartBusinessThread \/ CreateMqtt
           \/ CheckStatus \/ NotDue \/ EnsureSubscriptions \/ ReadGeneration
           \/ RequestExternalSnapshot \/ DisableIngress \/ ClearHandler
  <2>1. UNCHANGED startVars
    BY <1>1 DEF CheckSchema, LoadState, StartDatabaseThread, StartBusinessThread, CreateMqtt,
                CheckStatus, NotDue, EnsureSubscriptions, BeginSubscribe, SendSubscribe,
                SubscribeFails, MarkSubscribed, ReadGeneration, RequestExternalSnapshot,
                RequestSnapshot, DisableIngress, ClearHandler, sessionVars, retryVars, eventVars,
                bridgeVars, runtimeVars, drainVars, startVars
  <2>2. /\ main' \in BeforeStart => main \in BeforeStart
        /\ main' # "start client"
        /\ main' \notin Closing
    BY <1>1 DEF CheckSchema, LoadState, StartDatabaseThread, StartBusinessThread, CreateMqtt,
                CheckStatus, NotDue, EnsureSubscriptions, ReadGeneration, RequestExternalSnapshot,
                DisableIngress, ClearHandler, Goto, Exit
  <2> HIDE DEF BeforeStart, Closing
  <2> QED
    BY <2>1, <2>2 DEF BridgeInv, startVars, Started, CanPublish
<1>2. CASE RollBack
  <2>1. UNCHANGED <<connected, loop, retryThread, closed>> /\ main' = "exited"
    BY <1>2 DEF RollBack, Exit, sessionVars, retryVars, runtimeVars, drainVars
  <2>2. ~Started
    BY <1>2 DEF RollBack, StopInv, Started
  <2> QED
    BY <2>1, <2>2 DEF BridgeInv, Started
<1>3. CASE AttachMqtt
  <2>1. UNCHANGED <<connected, loop, retryThread, closed, bridgeEnabled>>
    BY <1>3 DEF AttachMqtt, AttachClient, sessionVars, retryVars, drainVars
  <2>2. main' = "start client" /\ bridgeClient' = TRUE /\ main = "attach client"
    BY <1>3 DEF AttachMqtt, AttachClient, Goto
  <2>3. bridgeEnabled
    BY <2>2 DEF BridgeInv
  <2> QED
    BY <2>1, <2>2, <2>3 DEF BridgeInv, Started, CanPublish
<1>4. CASE StartMqtt
  <2>1. UNCHANGED <<connected, closed, bridgeEnabled, bridgeClient>>
    BY <1>4 DEF StartMqtt, StartLoop, StartRetrying, sessionVars, eventVars, bridgeVars,
                runtimeVars, drainVars
  <2>2. main' \in {"check", "disable ingress"} /\ main = "start client"
    BY <1>4 DEF StartMqtt, Goto
  <2>3. bridgeEnabled /\ bridgeClient
    BY <2>2 DEF BridgeInv
  <2>4. loop' \in {loop, "idle"}
    BY <1>4 DEF StartMqtt, StartLoop, StartRetrying, sessionVars
  <2>5. connected' => loop' # "none"
    BY <2>1, <2>4 DEF BridgeInv
  <2> QED
    BY <2>1, <2>2, <2>3, <2>5 DEF BridgeInv, CanPublish
<1>5. CASE CloseDevices
  <2>1. UNCHANGED <<connected, loop>> /\ closed' = TRUE /\ main' = "close queue"
    BY <1>5 DEF CloseDevices, Goto, sessionVars
  <2> QED
    BY <2>1 DEF BridgeInv
<1>6. CASE CloseQueue \/ Drain
  <2>1. UNCHANGED <<connected, loop, closed>>
    BY <1>6 DEF CloseQueue, Drain, WaitUntil, FlushDatabase, JoinThreads, DetachClient, RequestStop,
                sessionVars, runtimeVars, drainVars
  <2>2. main' \notin BeforeStart
    BY <1>6 DEF CloseQueue, Drain, WaitUntil, FlushDatabase, JoinThreads, DetachClient, RequestStop,
                Goto
  <2>3. CASE main \in Closing
    BY <2>1, <2>2, <2>3 DEF BridgeInv
  <2>4. CASE RequestStop
    <3>1. UNCHANGED startVars /\ main' = "stop retry"
      BY <2>4 DEF RequestStop, Goto, sessionVars, retryVars, eventVars, bridgeVars, startVars
    <3> QED
      BY <3>1 DEF BridgeInv, startVars, Started, CanPublish
  <2>5. main \in Closing \/ RequestStop
    BY <1>6 DEF CloseQueue, Drain, WaitUntil, FlushDatabase, JoinThreads, DetachClient
  <2> QED
    BY <2>3, <2>4, <2>5
<1>7. CASE StopRetry
  <2>1. UNCHANGED startVars /\ main' = "stop loop"
    BY <1>7 DEF StopRetry, RequestRetryStop, Goto, eventVars, bridgeVars, runtimeVars, drainVars,
                startVars
  <2> QED
    BY <2>1 DEF BridgeInv, startVars, Started, CanPublish
<1>8. CASE StopMqtt
  <2>1. connected' = FALSE /\ loop' = "none" /\ main' = "exited"
        /\ retryThread' \in {"none", "ended"}
    BY <1>8 DEF StopMqtt, StopLoop, RetryJoined, Goto
  <2> QED
    BY <2>1 DEF BridgeInv, Started
<1> QED
  BY <1>1, <1>2, <1>3, <1>4, <1>5, <1>6, <1>7, <1>8 DEF MainThread, StopAccepting

LEMMA BridgeNext ==
  ASSUME StopInv, BridgeInv, [Next]_vars
  PROVE  BridgeInv'
<1>1. CASE UNCHANGED <<main, startVars>>
  BY <1>1 DEF BridgeInv, startVars, Started, CanPublish
<1>2. CASE MigrateSchema \/ BusinessStep \/ Exited \/ UNCHANGED vars \/ DatabaseStep
  <2>1. UNCHANGED main
    BY <1>2 DEF MigrateSchema, BusinessStep, Exited, DatabaseStep, vars, mainVars
  <2>2. UNCHANGED <<connected, loop, retryThread>>
    BY <1>2 DEF MigrateSchema, BusinessStep, BusinessThread, HandleDeviceMessage, ExpireDevice,
                EndProcessReady, EndRound, Exited, DatabaseStep, DatabaseThread, DatabaseEnds,
                ReplayRegistrations, BeginReplayRequest, BeginReplay, Unsubscribe, Resubscribe,
                EndReplay, ReplayFails, vars, sessionVars, retryVars
  <2>3. UNCHANGED <<bridgeEnabled, bridgeClient>>
    BY <1>2 DEF MigrateSchema, BusinessStep, BusinessThread, HandleDeviceMessage, ExpireDevice,
                EndProcessReady, PublishChange, PublishSnapshot, EndRound, Exited, DatabaseStep,
                DatabaseThread, DatabaseEnds, ReplayRegistrations, BeginReplayRequest, LockBridge,
                UnlockBridge, vars, eventVars, bridgeVars
  <2>4. UNCHANGED closed
    BY <1>2 DEF MigrateSchema, BusinessStep, BusinessThread, HandleDeviceMessage, ExpireDevice,
                EndProcessReady, EndRound, Exited, DatabaseStep, DatabaseThread, vars, runtimeVars,
                drainVars
  <2> QED
    BY <1>1, <2>1, <2>2, <2>3, <2>4 DEF startVars
<1>3. CASE LoopStep \/ RetryStep \/ Network
  <2>1. UNCHANGED <<main, bridgeEnabled, bridgeClient, closed>>
    BY <1>3 DEF LoopStep, HandleMessage, RetryStep, Network, eventVars, bridgeVars, runtimeVars,
                drainVars, mainVars
  <2>2. Started' => Started
    <3>1. CASE LoopStep
      BY <3>1 DEF LoopStep, LoopThread, LinkUp, NoticeLoss, HandleDisconnect, HandleConnect,
                  ConnectionRefused, HandleMessage, Dispatch, TakeSubmitter, Submit, Started
    <3>2. CASE RetryStep
      BY <3>2 DEF RetryStep, RetryThread, RetryStopped, RetryGoesOn, RetryStartsLoop, Started
    <3>3. CASE Network
      BY <3>3 DEF Network, LinkBreaks, RetryConnects, retryVars, Started
    <3> QED
      BY <1>3, <3>1, <3>2, <3>3
  <2>3. connected' => loop' # "none"
    <3>1. CASE LoopStep
      <4>1. loop # "none" /\ loop' # "none"
        BY <3>1 DEF LoopStep, LoopThread, LinkUp, NoticeLoss, HandleDisconnect, HandleConnect,
                    ConnectionRefused, HandleMessage, Dispatch, TakeSubmitter, Submit
      <4> QED
        BY <4>1
    <3>2. CASE RetryStep \/ Network
      <4>1. UNCHANGED connected /\ loop' \in {loop, "idle"}
        BY <3>2 DEF RetryStep, RetryThread, RetryStopped, RetryGoesOn, RetryStartsLoop, Network,
                    LinkBreaks, RetryConnects
      <4> QED
        BY <4>1 DEF BridgeInv
    <3> QED
      BY <1>3, <3>1, <3>2
  <2> QED
    BY <2>1, <2>2, <2>3 DEF BridgeInv, CanPublish
<1>4. CASE MainThread
  BY <1>4, BridgeMain
<1> QED
  BY <1>2, <1>3, <1>4 DEF Next

Current == RetainedIsRecord /\ directory = EntryOf(record)

(* On a living connection nothing that is published is lost. *)
LEMMA RetainOnLink ==
  ASSUME link = "up", NEW states, NEW withDirectory, NEW rec, NEW dir,
         Retain(states, withDirectory, rec, dir)
  PROVE  /\ retained'.state = [d \in Devices |-> IF d \in states THEN StateOf(rec, d)
                                                 ELSE retained.state[d]]
         /\ withDirectory => retained'.directory = dir
         /\ ~withDirectory => retained'.directory = retained.directory
<1>1. retained' = [state |-> [d \in Devices |-> IF d \in states \ {} THEN StateOf(rec, d)
                                                ELSE retained.state[d]],
                   directory |-> IF withDirectory /\ "directory" \notin {}
                                 THEN dir ELSE retained.directory]
  BY DEF Retain
<1>2. \A d : d \in states \ {} <=> d \in states
  OBVIOUS
<1>3. retained'.state = [d \in Devices |-> IF d \in states THEN StateOf(rec, d)
                                           ELSE retained.state[d]]
  BY <1>1, <1>2
<1>4. retained'.directory = IF withDirectory THEN dir ELSE retained.directory
  BY <1>1
<1> QED
  BY <1>3, <1>4

(* The change of one device keeps the retained topics current. *)
LEMMA ChangeKeepsCurrent ==
  ASSUME EventTypeOK, Current, link = "up", CanPublish,
         NEW d \in Devices, NEW shown \in BOOLEAN, PublishChange(d, Changed(d, shown))
  PROVE  Current'
<1> DEFINE rec == Changed(d, shown)
           dir == Update(rec, d)
<1>1. /\ record' = rec /\ directory' = dir
      /\ Retain({d}, dir # directory, rec, dir)
  BY DEF PublishChange, CanPublish
<1>2. /\ rec \in [Devices -> [rev : Nat, entry : Nat]]
      /\ \A e \in Devices \ {d} : rec[e] = record[e]
  BY ChangedType
<1>3. dir = [e \in Devices |-> IF e = d THEN rec[d].entry ELSE directory[e]]
  BY DEF Update, EventTypeOK
<1>4. directory = [e \in Devices |-> record[e].entry]
  BY DEF Current, EntryOf
<1> HIDE DEF rec, dir
<1>5. dir = EntryOf(rec)
  BY <1>2, <1>3, <1>4 DEF EntryOf
<1>6. retained'.state = [e \in Devices |-> IF e \in {d} THEN StateOf(rec, e) ELSE retained.state[e]]
  BY <1>1, RetainOnLink
<1>7. \A e \in Devices : retained'.state[e] = StateOf(rec, e)
  BY <1>2, <1>6 DEF Current, RetainedIsRecord, StateOf
<1>8. retained'.directory = EntryOf(rec)
  <2>1. CASE dir # directory
    BY <1>1, <1>5, <2>1, RetainOnLink
  <2>2. CASE dir = directory
    <3>1. retained'.directory = retained.directory
      BY <1>1, <2>2, RetainOnLink
    <3> QED
      BY <1>5, <2>2, <3>1 DEF Current, RetainedIsRecord
  <2> QED
    BY <2>1, <2>2
<1>9. RetainedIsRecord'
  BY <1>1, <1>7, <1>8 DEF RetainedIsRecord, StateOf, EntryOf
<1> QED
  BY <1>1, <1>5, <1>9 DEF Current, EntryOf

(* A snapshot on a living connection makes them current. *)
LEMMA SnapshotMakesCurrent ==
  ASSUME link = "up", CanPublish, PublishSnapshot
  PROVE  Current'
<1>1. /\ record' = record /\ directory' = EntryOf(record)
      /\ Retain(Devices, SnapshotDirectory, record, EntryOf(record))
  BY DEF PublishSnapshot, CanPublish, Replace
<1>2. \A d \in Devices : retained'.state[d] = StateOf(record, d)
  <2>1. retained'.state = [e \in Devices |-> IF e \in Devices THEN StateOf(record, e)
                                             ELSE retained.state[e]]
    BY <1>1, RetainOnLink
  <2> QED
    BY <2>1
<1>3. retained'.directory = EntryOf(record)
  BY <1>1, RetainOnLink DEF SnapshotDirectory
<1> QED
  BY <1>1, <1>2, <1>3 DEF Current, RetainedIsRecord, StateOf, EntryOf

LEMMA SnapshotNext ==
  ASSUME SubscriptionInv, EventTypeOK, BridgeInv, SnapshotInv, [Next]_vars
  PROVE  SnapshotInv'
<1>1. SnapshotInv <=> /\ seen <= generation /\ lastSnapshot <= generation
                      /\ SnapshotTaken => Current
  BY DEF SnapshotInv, Current
<1>2. SnapshotInv' <=> /\ seen' <= generation' /\ lastSnapshot' <= generation'
                       /\ SnapshotTaken' => Current'
  BY DEF SnapshotInv, Current
<1>3. seen \in Nat /\ lastSnapshot \in Nat /\ generation \in Nat
  BY DEF SubscriptionInv, SubscriptionTypeOK, EventTypeOK
<1>4. SnapshotTaken => CanPublish
  BY DEF BridgeInv, SnapshotTaken, Alive, Started
<1>5. CASE /\ UNCHANGED <<generation, seen, lastSnapshot>>
           /\ SnapshotTaken' => Current'
  BY <1>1, <1>2, <1>5
<1>6. CASE UNCHANGED <<link, connected, generation, closed, seen, lastSnapshot, eventVars>>
  BY <1>1, <1>5, <1>6 DEF SnapshotTaken, Alive, Current, RetainedIsRecord, StateOf, EntryOf,
                          eventVars
<1>7. CASE LoopStep
  <2>1. UNCHANGED <<closed, seen, lastSnapshot, eventVars>>
    BY <1>7 DEF LoopStep, HandleMessage, runtimeVars, drainVars, mainVars
  <2>2. CASE LinkUp \/ NoticeLoss \/ HandleDisconnect \/ ConnectionRefused
    <3>2. CASE LinkUp
      <4>1. UNCHANGED <<connected, generation>> /\ ~connected
        BY <3>2 DEF LinkUp, SubscriptionInv, ConnectedInv
      <4> QED
        BY <1>5, <2>1, <4>1 DEF SnapshotTaken, Alive
    <3>3. CASE NoticeLoss \/ HandleDisconnect \/ ConnectionRefused
      <4>1. UNCHANGED generation /\ (connected' = FALSE \/ link' = "down")
        BY <3>3 DEF NoticeLoss, HandleDisconnect, ConnectionRefused
      <4> QED
        BY <1>5, <2>1, <4>1 DEF SnapshotTaken, Alive
    <3> QED
      BY <2>2, <3>2, <3>3
  <2>3. CASE HandleConnect
    <3>1. generation' = generation + 1
      BY <2>3 DEF HandleConnect, SubscriptionInv, ConnectedInv
    <3>2. seen' < generation' /\ lastSnapshot' < generation'
      BY <1>1, <1>3, <2>1, <3>1
    <3> QED
      BY <1>2, <1>3, <2>1, <3>1, <3>2 DEF SnapshotTaken
  <2>4. CASE ~LinkUp /\ ~NoticeLoss /\ ~HandleDisconnect /\ ~ConnectionRefused /\ ~HandleConnect
    <3>1. UNCHANGED <<link, connected, generation>>
      BY <1>7, <2>4 DEF LoopStep, LoopThread, HandleMessage, BeginSubscribe, SendSubscribe,
                        SubscribeFails, MarkSubscribed, linkVars
    <3> QED
      BY <1>6, <2>1, <3>1
  <2> QED
    BY <2>2, <2>3, <2>4
<1>8. CASE Network \/ RetryStep \/ DatabaseStep
  <2>1. UNCHANGED <<closed, seen, lastSnapshot, generation>>
    BY <1>8 DEF Network, LinkBreaks, RetryConnects, RetryStep, RetryThread, RetryStopped,
                RetryGoesOn, RetryStartsLoop, DatabaseStep, DatabaseThread, DatabaseEnds,
                ReplayRegistrations, BeginReplayRequest, BeginReplay, Unsubscribe, Resubscribe,
                EndReplay, ReplayFails, sessionVars, runtimeVars, drainVars, mainVars
  <2>2. UNCHANGED <<snapshotRequested, record, directory, retained>>
    BY <1>8 DEF Network, RetryStep, DatabaseStep, DatabaseThread, DatabaseEnds, ReplayRegistrations,
                BeginReplayRequest, LockBridge, UnlockBridge, eventVars
  <2>3. UNCHANGED <<link, connected>> \/ link' # "up"
    BY <1>8 DEF Network, LinkBreaks, RetryConnects, RetryStep, RetryThread, RetryStopped,
                RetryGoesOn, RetryStartsLoop, DatabaseStep, DatabaseThread, DatabaseEnds,
                ReplayRegistrations, BeginReplayRequest, BeginReplay, Unsubscribe, Resubscribe,
                EndReplay, ReplayFails, sessionVars, linkVars
  <2>4. SnapshotTaken' => SnapshotTaken
    BY <2>1, <2>2, <2>3 DEF SnapshotTaken, Alive
  <2>5. Current => Current'
    BY <2>2 DEF Current, RetainedIsRecord, StateOf, EntryOf
  <2> QED
    BY <1>1, <1>5, <2>1, <2>4, <2>5
<1>9. CASE BusinessStep
  <2>1. UNCHANGED <<link, connected, generation, closed, seen, lastSnapshot>>
    BY <1>9 DEF BusinessStep, BusinessThread, HandleDeviceMessage, ExpireDevice, EndProcessReady,
                EndRound, sessionVars, linkVars, drainVars, mainVars
  <2>2. CASE HandleDeviceMessage \/ ExpireDevice
    <3>1. PICK d \in Devices, shown \in BOOLEAN : PublishChange(d, Changed(d, shown))
      <4>1. CASE HandleDeviceMessage
        <5>1. queue \in Seq(Devices) /\ queue # <<>>
          BY <4>1 DEF HandleDeviceMessage, EventTypeOK
        <5>2. Head(queue) \in Devices
          BY <5>1
        <5> QED
          BY <4>1, <5>2 DEF HandleDeviceMessage
      <4>2. CASE ExpireDevice
        BY <4>2 DEF ExpireDevice
      <4> QED
        BY <2>2, <4>1, <4>2
    <3>2. UNCHANGED snapshotRequested
      BY <3>1 DEF PublishChange
    <3>3. SnapshotTaken' => SnapshotTaken
      BY <2>1, <3>2 DEF SnapshotTaken, Alive
    <3>4. SnapshotTaken => Current'
      <4> SUFFICES ASSUME SnapshotTaken PROVE Current'
        OBVIOUS
      <4>1. Current /\ CanPublish /\ link = "up"
        BY <1>1, <1>4 DEF SnapshotTaken, Alive
      <4> QED
        BY <3>1, <4>1, ChangeKeepsCurrent
    <3> QED
      BY <1>5, <2>1, <3>3, <3>4
  <2>3. CASE PublishSnapshot
    <3>1. connected' /\ ~closed' => CanPublish
      BY <2>1 DEF BridgeInv, Started
    <3>2. SnapshotTaken' => Current'
      BY <2>1, <2>3, <3>1, SnapshotMakesCurrent DEF SnapshotTaken, Alive
    <3> QED
      BY <1>5, <2>1, <3>2
  <2>4. CASE UNCHANGED eventVars
    BY <1>6, <2>1, <2>4
  <2> QED
    BY <1>9, <2>2, <2>3, <2>4 DEF BusinessStep, BusinessThread, EndProcessReady, EndRound
<1>10. CASE ReadGeneration
  <2>1. UNCHANGED <<link, connected, generation, closed, lastSnapshot, eventVars>>
    BY <1>10 DEF ReadGeneration, sessionVars, linkVars, runtimeVars, drainVars
  <2>2. seen' \in {0, generation}
    BY <1>10 DEF ReadGeneration, BusinessSubscriptionGeneration
  <2>3. SnapshotTaken' => SnapshotTaken
    BY <2>1 DEF SnapshotTaken, Alive, eventVars
  <2>4. Current => Current'
    BY <2>1 DEF Current, RetainedIsRecord, StateOf, EntryOf, eventVars
  <2>5. seen' <= generation'
    BY <1>3, <2>1, <2>2
  <2> QED
    BY <1>1, <1>2, <2>1, <2>3, <2>4, <2>5
<1>11. CASE RequestExternalSnapshot
  <2>1. UNCHANGED <<link, connected, generation, closed, record, directory, retained>>
    BY <1>11 DEF RequestExternalSnapshot, RequestSnapshot, sessionVars, linkVars, eventVars,
                 runtimeVars, drainVars
  <2>2. seen' = 0
    BY <1>11 DEF RequestExternalSnapshot
  <2>3. \/ lastSnapshot' = seen /\ snapshotRequested' = (snapshotRequested \/ ~closed)
        \/ UNCHANGED <<lastSnapshot, snapshotRequested>>
    BY <1>11 DEF RequestExternalSnapshot, RequestSnapshot, eventVars
  <2>4. SnapshotTaken' => SnapshotTaken
    <3>1. CASE snapshotRequested' = (snapshotRequested \/ ~closed)
      <4>1. ~snapshotRequested' => closed
        BY <3>1
      <4> QED
        BY <2>1, <4>1 DEF SnapshotTaken
    <3>2. CASE UNCHANGED <<lastSnapshot, snapshotRequested>>
      BY <2>1, <3>2 DEF SnapshotTaken, Alive
    <3> QED
      BY <2>3, <3>1, <3>2
  <2>5. Current => Current'
    BY <2>1 DEF Current, RetainedIsRecord, StateOf, EntryOf
  <2>6. seen' <= generation' /\ lastSnapshot' <= generation'
    BY <1>1, <1>3, <2>1, <2>2, <2>3
  <2> QED
    BY <1>1, <1>2, <2>4, <2>5, <2>6
<1>12. CASE MainThread /\ ~ReadGeneration /\ ~RequestExternalSnapshot
  <2>1. UNCHANGED <<generation, seen, lastSnapshot>>
    BY <1>12 DEF MainThread, CheckSchema, LoadState, StartDatabaseThread, StartBusinessThread,
                 RollBack, CreateMqtt, AttachMqtt, StartMqtt, StartLoop, StartRetrying,
                 CheckStatus, NotDue, EnsureSubscriptions, BeginSubscribe, SendSubscribe,
                 SubscribeFails, MarkSubscribed, StopAccepting, DisableIngress,
                 ClearHandler, CloseDevices, CloseQueue, Drain, WaitUntil, FlushDatabase,
                 JoinThreads, DetachClient, RequestStop, StopRetry, RequestRetryStop, StopMqtt,
                 StopLoop, sessionVars, localVars
  <2>2. CASE CloseDevices
    BY <1>5, <2>1, <2>2 DEF CloseDevices, SnapshotTaken
  <2>3. CASE StopMqtt
    BY <1>5, <2>1, <2>3 DEF StopMqtt, StopLoop, SnapshotTaken, Alive
  <2>4. CASE ~CloseDevices /\ ~StopMqtt
    <3>1. UNCHANGED <<link, connected>>
      BY <1>12, <2>4 DEF MainThread, CheckSchema, LoadState, StartDatabaseThread,
                 StartBusinessThread, RollBack, CreateMqtt, AttachMqtt, StartMqtt, StartLoop,
                 StartRetrying, CheckStatus, NotDue, EnsureSubscriptions, BeginSubscribe,
                 SendSubscribe, SubscribeFails, MarkSubscribed, StopAccepting, DisableIngress,
                 ClearHandler, CloseQueue, Drain, WaitUntil, FlushDatabase, JoinThreads,
                 DetachClient, RequestStop, StopRetry, RequestRetryStop, sessionVars, linkVars
    <3>2. UNCHANGED <<snapshotRequested, record, directory, retained>>
      BY <1>12, <2>4 DEF MainThread, CheckSchema, LoadState, StartDatabaseThread,
                 StartBusinessThread, RollBack, DisableBridge, CreateMqtt, AttachMqtt, AttachClient,
                 StartMqtt, CheckStatus, NotDue, EnsureSubscriptions, StopAccepting, DisableIngress,
                 ClearHandler, CloseQueue, Drain, WaitUntil, FlushDatabase, JoinThreads,
                 DetachClient, RequestStop, StopRetry, eventVars
    <3>3. UNCHANGED closed
      BY <1>12, <2>4 DEF MainThread, CheckSchema, LoadState, StartDatabaseThread,
                 StartBusinessThread, RollBack, CreateMqtt, AttachMqtt,
                 StartMqtt, CheckStatus, NotDue, EnsureSubscriptions, StopAccepting, DisableIngress,
                 ClearHandler, CloseQueue, Drain, WaitUntil, FlushDatabase, JoinThreads,
                 DetachClient, RequestStop, StopRetry, runtimeVars, drainVars
    <3>4. SnapshotTaken' => SnapshotTaken
      BY <2>1, <3>1, <3>2, <3>3 DEF SnapshotTaken, Alive
    <3>5. Current => Current'
      BY <3>2 DEF Current, RetainedIsRecord, StateOf, EntryOf
    <3> QED
      BY <1>1, <1>5, <2>1, <3>4, <3>5
  <2> QED
    BY <2>2, <2>3, <2>4
<1>13. CASE MigrateSchema \/ Exited \/ UNCHANGED vars
  BY <1>6, <1>13 DEF MigrateSchema, Exited, vars, sessionVars, linkVars, runtimeVars, drainVars,
                     mainVars
<1> QED
  BY <1>7, <1>8, <1>9, <1>10, <1>11, <1>12, <1>13 DEF Next

(* Once the snapshot for the present connection has been published, the      *)
(* retained states and the directory are those of the registry, for any      *)
(* number of devices and connections and whatever was published into dead    *)
(* connections before (runtime_external_bridge.cpp, device_service.cpp).     *)
THEOREM RetainedStaysCurrent == Spec => []RetainedIsCurrent
<1>1. Init => EventTypeOK /\ BridgeInv /\ SnapshotInv
  <2> SUFFICES ASSUME Init PROVE EventTypeOK /\ BridgeInv /\ SnapshotInv
    OBVIOUS
  <2>1. /\ record = [d \in Devices |-> [rev |-> 1, entry |-> 1]]
        /\ directory = [d \in Devices |-> 0] /\ queue = <<>>
        /\ seen = 0 /\ lastSnapshot = 0 /\ generation = 0
    BY DEF Init, InitSession, InitEvents, InitRuntime
  <2>2. main = "check schema" /\ loop = "none" /\ retryThread = "none" /\ link = "down"
    BY DEF Init, InitSession
  <2>3. connected = FALSE /\ bridgeEnabled = TRUE
    BY DEF Init, InitSession, InitEvents
  <2>7. record \in [Devices -> [rev : Nat, entry : Nat]] /\ directory \in [Devices -> Nat]
    BY <2>1
  <2>8. queue \in Seq(Devices) /\ seen \in Nat /\ lastSnapshot \in Nat
    BY <2>1
  <2>4. EventTypeOK
    BY <2>2, <2>7, <2>8 DEF EventTypeOK
  <2>5. BridgeInv
    BY <2>2, <2>3 DEF BridgeInv, Started, Closing
  <2>9. seen <= generation /\ lastSnapshot <= generation
    BY <2>1
  <2>6. SnapshotInv
    BY <2>2, <2>9 DEF SnapshotInv, SnapshotTaken, Alive
  <2> QED
    BY <2>4, <2>5, <2>6
<1>2. /\ StopInv /\ SubscriptionInv /\ EventTypeOK /\ BridgeInv /\ SnapshotInv /\ [Next]_vars
      => EventTypeOK' /\ BridgeInv' /\ SnapshotInv'
  BY EventTypeNext, BridgeNext, SnapshotNext DEF SubscriptionInv
<1>3. SnapshotInv => RetainedIsCurrent
  BY DEF SnapshotInv, SnapshotTaken, Alive, RetainedIsCurrent
<1> QED
  BY <1>1, <1>2, <1>3, StopInit, StopNext, SubscriptionInit, SubscriptionNext, PTL DEF Spec
=============================================================================
