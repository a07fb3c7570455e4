------------------------------- MODULE Migration -------------------------------
(***************************************************************************)
(* The schema of the database: Core processes that migrate it when they    *)
(* start and then serve requests, and the command tarisya-migrate, up or   *)
(* down.  A statement outside a transaction, or a transaction, is a step.  *)
(*                                                                         *)
(* The lifecycle lock is shared among Cores, so two of them may migrate at *)
(* the same time; a command has it for itself.  The lock of a process is   *)
(* released when it ends (DatabaseLifecycle), so who holds it is read off  *)
(* the steps.                                                              *)
(***************************************************************************)
EXTENDS Naturals

CONSTANTS
    Cores,          \* Core processes on this database
    Commands,       \* runs of tarisya-migrate
    Written,        \* the tables whose contents are looked at
    LegacySchemas,  \* schemas from before schema_migrations
    DownsComplete,  \* no migration down is cut short
    MaxFaults       \* bound on the processes that fail

\* The down migration, table by table.
Drops == <<"metrics", "metrics_5m", "metrics_1h", "server_api_keys", "servers",
           "users", "schema_migrations">>

Application == {"metrics", "metrics_5m", "metrics_1h", "server_api_keys", "servers",
                "users"}

ASSUME ProcessesAssumption == Cores \intersect Commands = {}
ASSUME TablesAssumption ==
    Written \subseteq Application /\ LegacySchemas \subseteq SUBSET Application
ASSUME FaultsAssumption == DownsComplete \in BOOLEAN /\ MaxFaults \in Nat

VARIABLES
    tables,         \* the tables that exist
    rows,           \* those of Written that have something in them
    versioned,      \* schema_migrations has a row for version 1
    step,           \* per process: the step of migrate it has reached
    dropped,        \* per command: the statements of the down migration done
    backups,        \* the backups made before migrations
    faults          \* the processes that have failed so far

schema == <<tables, rows, versioned>>
vars == <<schema, step, dropped, backups, faults>>

Processes == Cores \union Commands

\* systemd starts a Core again that has failed ("off"), not one that was stopped.
Running(p) == step[p] \notin {"off", "stopped"}

\* The application objects, and a snapshot with what is in them.
Present == tables \intersect Application
Snapshot == [tables |-> Present, rows |-> rows]

Init ==
    /\ tables \in LegacySchemas \union {{}}
    /\ rows \in SUBSET (tables \intersect Written)
    /\ versioned = FALSE
    /\ step = [p \in Processes |-> "off"]
    /\ dropped = [q \in Commands |-> 0]
    /\ backups = {}
    /\ faults = 0

Goto(p, s) == step' = [step EXCEPT ![p] = s]

\* migrate returns nil: a Core goes on to serve, a command ends.
MigrateReturns(p) == Goto(p, IF p \in Cores THEN "serving" ELSE "off")

-----------------------------------------------------------------------------
(* Processes start, serve and end.                                         *)

\* Variant: a command's exclusive lock is not respected.
OpenStore_NoLock(c) ==
    /\ ~Running(c)
    /\ Goto(c, "locked")
    /\ UNCHANGED <<schema, dropped, backups, faults>>

\* OpenStore; without the lock the Core ends, and is started again.
OpenStore(c) ==
    /\ ~Running(c)
    /\ \A q \in Commands : ~Running(q)
    /\ Goto(c, "locked")
    /\ UNCHANGED <<schema, dropped, backups, faults>>

\* RunMigration has the exclusive lock.
RunMigration(q, direction) ==
    /\ \A p \in Processes : ~Running(p)
    /\ Goto(q, IF direction = "up" THEN "locked" ELSE "dropping")
    /\ dropped' = [dropped EXCEPT ![q] = 0]
    /\ UNCHANGED <<schema, backups, faults>>

\* A Core in service writes to the tables that are there, and deletes from them.
Transaction(c) ==
    /\ step[c] = "serving"
    /\ rows' \in SUBSET (tables \intersect Written)
    /\ UNCHANGED <<tables, versioned, step, dropped, backups, faults>>

Shutdown(c) ==
    /\ step[c] = "serving"
    /\ Goto(c, "stopped")
    /\ UNCHANGED <<schema, dropped, backups, faults>>

\* The process is killed, or a statement fails and it ends; a transaction rolls
\* back.
Fails(p) ==
    /\ Running(p)
    /\ faults < MaxFaults
    /\ DownsComplete => step[p] # "dropping"
    /\ faults' = faults + 1
    /\ Goto(p, "off")
    /\ UNCHANGED <<schema, dropped, backups>>

-----------------------------------------------------------------------------
(* migrate, up.                                                            *)

CreateMigrationsTable(p) ==
    /\ step[p] = "locked"
    /\ tables' = tables \union {"schema_migrations"}
    /\ Goto(p, "tabled")
    /\ UNCHANGED <<rows, versioned, dropped, backups, faults>>

\* Variant: the version is not read.
ReadVersion_Ignored(p) ==
    /\ step[p] = "tabled"
    /\ Goto(p, "unversioned")
    /\ UNCHANGED <<schema, dropped, backups, faults>>

\* SELECT EXISTS ... version = 1.
ReadVersion(p) ==
    /\ step[p] = "tabled"
    /\ IF versioned THEN MigrateReturns(p) ELSE Goto(p, "unversioned")
    /\ UNCHANGED <<schema, dropped, backups, faults>>

\* backupBeforeMigration: hasApplicationObjects,
InspectObjects(p) ==
    /\ step[p] = "unversioned"
    /\ Goto(p, IF Present # {} THEN "backingUp" ELSE "ready")
    /\ UNCHANGED <<schema, dropped, backups, faults>>

\* and VACUUM INTO.
BackUp(p) ==
    /\ step[p] = "backingUp"
    /\ backups' = backups \union {Snapshot}
    /\ Goto(p, "ready")
    /\ UNCHANGED <<schema, dropped, faults>>

\* Variant: INSERT OR IGNORE.
ApplySchema_Idempotent(p) ==
    /\ step[p] = "ready"
    /\ tables' = tables \union Application
    /\ versioned' = TRUE
    /\ MigrateReturns(p)
    /\ UNCHANGED <<rows, dropped, backups, faults>>

\* The transaction: CREATE TABLE IF NOT EXISTS for every table, and the version.
ApplySchema(p) ==
    /\ step[p] = "ready"
    /\ ~versioned
    /\ tables' = tables \union Application
    /\ versioned' = TRUE
    /\ MigrateReturns(p)
    /\ UNCHANGED <<rows, dropped, backups, faults>>

\* Another Core was faster: the version is a primary key, so the insert fails and
\* the process ends.
ApplySchemaConflicts(p) ==
    /\ step[p] = "ready"
    /\ versioned
    /\ Goto(p, "off")
    /\ UNCHANGED <<schema, dropped, backups, faults>>

-----------------------------------------------------------------------------
(* migrate, down: a statement at a time, without a transaction.            *)

Drop(q) ==
    LET t == Drops[dropped[q] + 1] IN
    /\ step[q] = "dropping"
    /\ tables' = tables \ {t}
    /\ rows' = rows \ {t}
    /\ versioned' = (versioned /\ t # "schema_migrations")
    /\ dropped' = [dropped EXCEPT ![q] = @ + 1]
    /\ Goto(q, IF dropped[q] + 1 = 7 THEN "off" ELSE "dropping")
    /\ UNCHANGED <<backups, faults>>

MigrateStep(p) ==
    \/ CreateMigrationsTable(p)
    \/ ReadVersion(p)
    \/ InspectObjects(p)
    \/ BackUp(p)
    \/ ApplySchema(p)
    \/ ApplySchemaConflicts(p)

Next ==
    \/ \E c \in Cores : OpenStore(c) \/ Transaction(c) \/ Shutdown(c)
    \/ \E q \in Commands, direction \in {"up", "down"} : RunMigration(q, direction)
    \/ \E q \in Commands : Drop(q)
    \/ \E p \in Processes : MigrateStep(p) \/ Fails(p)

Spec == Init /\ [][Next]_vars

\* systemd restarts a Core that has failed (Restart=on-failure), and a process that
\* runs takes its next step.  Nothing makes anyone run a command.
Restart(c) == step[c] = "off" /\ OpenStore(c)

Fairness == \A c \in Cores : WF_vars(Restart(c)) /\ WF_vars(MigrateStep(c))

FairSpec == Spec /\ Fairness

-----------------------------------------------------------------------------
(* Properties.                                                             *)

UpSteps == {"locked", "tabled", "unversioned", "backingUp", "ready"}

\* What is in a table goes with the table, and so does the version.
TypeOK ==
    /\ tables \subseteq Application \union {"schema_migrations"}
    /\ rows \subseteq tables \intersect Written
    /\ versioned \in BOOLEAN
    /\ versioned => "schema_migrations" \in tables
    /\ step \in [Processes -> UpSteps \union {"off", "stopped", "serving", "dropping"}]
    /\ \A c \in Cores : step[c] # "dropping"
    /\ \A q \in Commands : step[q] \notin {"serving", "stopped"}
    /\ dropped \in [Commands -> 0 .. 7]
    /\ \A q \in Commands : step[q] = "dropping" => dropped[q] < 7
    /\ backups \subseteq [tables : SUBSET Application, rows : SUBSET Written]
    /\ faults \in 0 .. MaxFaults

\* A Core in service has all of its tables, whoever else migrates at the same time
\* and wherever a migration failed ("FailedMigrationLeavesDatabaseAtPreviousVersion").
SchemaWhole ==
    \A c \in Cores : step[c] = "serving" => versioned /\ Application \subseteq tables

\* A migration that changes a database which has application objects finds all that
\* is in it in a backup, although the backup is made before the transaction starts and
\* other Cores may be migrating, or serving, in between.
MigrationSaved ==
    [][\A p \in Processes :
        ApplySchema(p) /\ Present # {} => Snapshot \in backups]_vars

\* Losing the race to migrate does not keep a Core from coming up: once no more
\* commands are run and no more processes fail, every Core serves or was stopped.
CoresComeUp ==
    <>[](\A q \in Commands : ~Running(q)) =>
        \A c \in Cores : []<>(step[c] \in {"serving", "stopped"})

\* The inductive invariant, in parts.  A process that migrates has made the table it
\* reads the version from,
TableMade ==
    \A p \in Processes :
        step[p] \in {"tabled", "unversioned", "backingUp", "ready", "serving"} =>
            "schema_migrations" \in tables

\* a command is alone,
CommandsAlone ==
    \A q \in Commands, p \in Processes : Running(q) /\ Running(p) => p = q

\* the version is only there with all tables, but for a migration down under way,
VersionTrue ==
    DownsComplete /\ versioned =>
        Application \subseteq tables \/ \E q \in Commands : step[q] = "dropping"

\* while there is no version no one serves, and what a process has backed up stays.
BackedUp ==
    \A p \in Processes :
        /\ step[p] = "serving" => versioned
        /\ step[p] = "ready" /\ ~versioned /\ Present # {} => Snapshot \in backups

IInv ==
    /\ TypeOK
    /\ TableMade
    /\ CommandsAlone
    /\ VersionTrue
    /\ BackedUp
=============================================================================
