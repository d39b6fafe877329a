------------------------------ MODULE Migrations ------------------------------
(***************************************************************************)
(* Schema migrations of route_service: the table schema_migrations, the    *)
(* plan a process makes of it and the migrate-only processes that apply    *)
(* their plans, several of them at once and each with a plan that may be   *)
(* out of date.  A process that fails or dies is started again by hand: it *)
(* is another migrator.                                                    *)
(***************************************************************************)
EXTENDS Integers

CONSTANTS Migrators,    \* processes started with --migrate-only
          LastVersion   \* migrations in the directory: 1..LastVersion

ASSUME MigrationAssumption == LastVersion \in Nat \ {0}

VARIABLES applied,   \* versions in schema_migrations
          executed,  \* history: how often the SQL of a version was committed
          plan,      \* pending versions of a migrator
          step       \* what a migrator does next

migrationVars == <<applied, executed, plan, step>>

(* DiscoverMigrations accepts only a directory without gaps. *)
Available == 1..LastVersion

(* ValidateContinuous *)
Continuous(versions) == \A v \in versions : v - 1 \in versions \cup {0}

(* BuildMigrationPlan: the table must be a prefix of the directory; a      *)
(* service that only checks must find nothing pending.                     *)
CanPlan(mode) ==
    /\ Continuous(applied)
    /\ applied \subseteq Available
    /\ mode = "check only" => applied = Available

PlanMigrations(m) ==
    /\ step[m] = "plan"
    /\ \/ /\ CanPlan("apply")
          /\ plan' = [plan EXCEPT ![m] = Available \ applied]
          /\ step' = [step EXCEPT ![m] = "apply"]
       \/ /\ step' = [step EXCEPT ![m] = "ended"]
          /\ UNCHANGED plan
    /\ UNCHANGED <<applied, executed>>

(* The primary key of schema_migrations refuses a version that another     *)
(* process has applied, and the transaction takes the SQL back with it.    *)
AnyVersion(v) == TRUE
Insertable(v) == v \notin applied

FirstPending(m) == CHOOSE v \in plan[m] : \A w \in plan[m] : v <= w

MigratorEnds(m) ==
    /\ step' = [step EXCEPT ![m] = "ended"]
    /\ plan' = [plan EXCEPT ![m] = {}]

(* ApplyMigration for the first pending version, in one transaction.  The  *)
(* process may die, or lose the connection, before or after the commit.    *)
ApplyMigration(m) ==
    LET v == FirstPending(m) IN
    /\ step[m] = "apply" /\ plan[m] # {}
    /\ \/ /\ Insertable(v)
          /\ applied' = applied \cup {v}
          /\ executed' = [executed EXCEPT ![v] = @ + 1]
          /\ \/ plan' = [plan EXCEPT ![m] = @ \ {v}] /\ UNCHANGED step
             \/ MigratorEnds(m)
       \/ MigratorEnds(m) /\ UNCHANGED <<applied, executed>>

MigrationsDone(m) ==
    /\ step[m] = "apply" /\ plan[m] = {}
    /\ MigratorEnds(m)
    /\ UNCHANGED <<applied, executed>>

Migrate == \E m \in Migrators : PlanMigrations(m) \/ ApplyMigration(m) \/ MigrationsDone(m)

InitMigrations ==
    /\ \E n \in 0..LastVersion : applied = 1..n
    /\ executed = [v \in Available |-> IF v \in applied THEN 1 ELSE 0]
    /\ plan = [m \in Migrators |-> {}]
    /\ step = [m \in Migrators |-> "plan"]

(* However many processes migrate at once, and wherever they die, the      *)
(* schema is that of a prefix of the migrations, each executed once: what  *)
(* ValidateContinuous will demand of the next start.                       *)
SchemaIsPrefix ==
    /\ Continuous(applied)
    /\ \A v \in Available : executed[v] = IF v \in applied THEN 1 ELSE 0
===============================================================================
