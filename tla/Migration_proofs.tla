--------------------------- MODULE Migration_proofs ----------------------------
(***************************************************************************)
(* Theorems about Migration, for any number of Cores, commands and faults. *)
(***************************************************************************)
EXTENDS Migration, TLAPS

\* The down migration has seven statements; the last takes the version along.
LEMMA DropsFacts ==
    /\ \A i \in 0 .. 6 : Drops[i + 1] \in Application \union {"schema_migrations"}
    /\ Drops[7] = "schema_migrations"
BY DEF Drops, Application

LEMMA InitInv == Init => IInv
<1> SUFFICES ASSUME Init
             PROVE  IInv
  OBVIOUS
<1>1. tables \subseteq Application
  BY TablesAssumption DEF Init
<1>2. TypeOK
  <2>1. rows \subseteq tables \intersect Written
    BY DEF Init
  <2>2. /\ step \in [Processes -> UpSteps \union {"off", "stopped", "serving", "dropping"}]
        /\ \A p \in Processes : step[p] = "off"
    BY DEF Init
  <2>3. dropped \in [Commands -> 0 .. 7]
    BY DEF Init
  <2>4. faults \in 0 .. MaxFaults
    BY FaultsAssumption DEF Init
  <2> QED
    BY <1>1, <2>1, <2>2, <2>3, <2>4 DEF Init, TypeOK, Processes
<1>3. TableMade /\ CommandsAlone /\ VersionTrue /\ BackedUp
  BY DEF Init, TableMade, CommandsAlone, Running, VersionTrue, BackedUp
<1> QED
  BY <1>2, <1>3 DEF IInv

\* A process takes a step of migrate up.
LEMMA MigrateStepInv ==
    ASSUME IInv, NEW p \in Processes, MigrateStep(p)
    PROVE  IInv'
<1> USE ProcessesAssumption, TablesAssumption, FaultsAssumption
    DEF IInv, TypeOK, TableMade, CommandsAlone, Running, VersionTrue, BackedUp,
        Processes, UpSteps, Goto, schema
<1>1. CASE CreateMigrationsTable(p)
  <2>1. Present' = Present /\ Snapshot' = Snapshot
    BY <1>1 DEF CreateMigrationsTable, Present, Snapshot, Application
  <2> QED
    BY <1>1, <2>1 DEF CreateMigrationsTable
<1>2. CASE ReadVersion(p)
  <2>1. Present' = Present /\ Snapshot' = Snapshot
    BY <1>2 DEF ReadVersion, Present, Snapshot
  <2> QED
    BY <1>2, <2>1 DEF ReadVersion, MigrateReturns
<1>3. CASE InspectObjects(p)
  <2>1. Present' = Present /\ Snapshot' = Snapshot
    BY <1>3 DEF InspectObjects, Present, Snapshot
  <2> QED
    BY <1>3, <2>1 DEF InspectObjects
<1>4. CASE BackUp(p)
  <2>1. Present' = Present /\ Snapshot' = Snapshot
    BY <1>4 DEF BackUp, Present, Snapshot
  <2>2. Snapshot \in [tables : SUBSET Application, rows : SUBSET Written]
    BY DEF Present, Snapshot
  <2> QED
    BY <1>4, <2>1, <2>2 DEF BackUp
<1>5. CASE ApplySchema(p)
  BY <1>5 DEF ApplySchema, MigrateReturns
<1>6. CASE ApplySchemaConflicts(p)
  <2>1. Present' = Present /\ Snapshot' = Snapshot
    BY <1>6 DEF ApplySchemaConflicts, Present, Snapshot
  <2> QED
    BY <1>6, <2>1 DEF ApplySchemaConflicts
<1> QED
  BY <1>1, <1>2, <1>3, <1>4, <1>5, <1>6 DEF MigrateStep

\* A table is dropped: no other process runs.
LEMMA DropInv ==
    ASSUME IInv, NEW q \in Commands, Drop(q)
    PROVE  IInv'
<1> USE ProcessesAssumption, TablesAssumption, FaultsAssumption
    DEF IInv, TypeOK, Running, Processes, UpSteps, Goto
<1> DEFINE t == Drops[dropped[q] + 1]
<1>1. dropped[q] \in 0 .. 6
  BY DEF Drop
<1>2. t \in Application \union {"schema_migrations"}
  BY <1>1, DropsFacts
<1>3. dropped[q] + 1 = 7 => t = "schema_migrations"
  BY <1>1, DropsFacts
<1>4. /\ tables' = tables \ {t} /\ rows' = rows \ {t}
      /\ versioned' = (versioned /\ t # "schema_migrations")
      /\ dropped' = [dropped EXCEPT ![q] = @ + 1]
      /\ Goto(q, IF dropped[q] + 1 = 7 THEN "off" ELSE "dropping")
      /\ UNCHANGED <<backups, faults>>
  BY DEF Drop
<1>5. \A p \in Processes : p # q => ~Running(p) /\ ~Running(p)'
  BY <1>4 DEF Drop, CommandsAlone
<1> HIDE DEF t
<1>6. TypeOK'
  <2>1. dropped' \in [Commands -> 0 .. 7]
    BY <1>1, <1>4
  <2>2. step' \in [Processes -> UpSteps \union {"off", "stopped", "serving", "dropping"}]
    BY <1>4
  <2>3. \A c \in Cores : step'[c] # "dropping"
    BY <1>4
  <2>4. \A r \in Commands :
            /\ step'[r] \notin {"serving", "stopped"}
            /\ step'[r] = "dropping" => dropped'[r] < 7
    BY <1>1, <1>4
  <2>5. /\ tables' \subseteq Application \union {"schema_migrations"}
        /\ rows' \subseteq tables' \intersect Written
        /\ versioned' \in BOOLEAN
        /\ versioned' => "schema_migrations" \in tables'
    BY <1>2, <1>4
  <2> QED
    BY <1>4, <2>1, <2>2, <2>3, <2>4, <2>5
<1>7. TableMade' /\ CommandsAlone'
  BY <1>4, <1>5 DEF TableMade, CommandsAlone
<1>8. VersionTrue'
  BY <1>3, <1>4 DEF VersionTrue
<1>9. BackedUp'
  BY <1>4, <1>5 DEF BackedUp
<1> QED
  BY <1>6, <1>7, <1>8, <1>9

LEMMA NextInv == IInv /\ [Next]_vars => IInv'
<1> SUFFICES ASSUME IInv, [Next]_vars
             PROVE  IInv'
  OBVIOUS
<1> USE ProcessesAssumption, TablesAssumption, FaultsAssumption
    DEF IInv, TypeOK, TableMade, CommandsAlone, Running, VersionTrue, BackedUp,
        Processes, UpSteps, Goto, schema
<1>1. ASSUME NEW c \in Cores, OpenStore(c)
      PROVE  IInv'
  <2>1. Present' = Present /\ Snapshot' = Snapshot
    BY <1>1 DEF OpenStore, Present, Snapshot
  <2> QED
    BY <1>1, <2>1 DEF OpenStore
<1>2. ASSUME NEW c \in Cores, Transaction(c)
      PROVE  IInv'
  BY <1>2 DEF Transaction
<1>3. ASSUME NEW c \in Cores, Shutdown(c)
      PROVE  IInv'
  <2>1. Present' = Present /\ Snapshot' = Snapshot
    BY <1>3 DEF Shutdown, Present, Snapshot
  <2> QED
    BY <1>3, <2>1 DEF Shutdown
<1>4. ASSUME NEW q \in Commands, NEW direction \in {"up", "down"}, RunMigration(q, direction)
      PROVE  IInv'
  <2>1. Present' = Present /\ Snapshot' = Snapshot
    BY <1>4 DEF RunMigration, Present, Snapshot
  <2> QED
    BY <1>4, <2>1 DEF RunMigration
<1>5. ASSUME NEW q \in Commands, Drop(q)
      PROVE  IInv'
  BY <1>5, DropInv
<1>6. ASSUME NEW p \in Processes, MigrateStep(p)
      PROVE  IInv'
  BY <1>6, MigrateStepInv
<1>7. ASSUME NEW p \in Processes, Fails(p)
      PROVE  IInv'
  <2>1. Present' = Present /\ Snapshot' = Snapshot
    BY <1>7 DEF Fails, Present, Snapshot
  <2> QED
    BY <1>7, <2>1 DEF Fails
<1>8. CASE UNCHANGED vars
  BY <1>8 DEF vars, Present, Snapshot
<1> QED
  BY <1>1, <1>2, <1>3, <1>4, <1>5, <1>6, <1>7, <1>8 DEF Next

THEOREM Invariance == Spec => []IInv
BY InitInv, NextInv, PTL DEF Spec

-----------------------------------------------------------------------------

\* The schema and the processes keep their types.
THEOREM TypeCorrect == Spec => []TypeOK
<1>1. IInv => TypeOK
  BY DEF IInv
<1> QED
  BY Invariance, <1>1, PTL

\* If no migration down is cut short, a Core in service has all of its tables.
THEOREM CoresHaveTheirTables ==
    ASSUME DownsComplete
    PROVE  Spec => []SchemaWhole
<1>1. IInv => SchemaWhole
  BY DownsComplete, ProcessesAssumption
  DEF IInv, BackedUp, VersionTrue, CommandsAlone, SchemaWhole, Running, Processes
<1> QED
  BY Invariance, <1>1, PTL

\* Every database a migration changes is in a backup as it was.
THEOREM MigrationsAreSaved == Spec => MigrationSaved
<1>1. IInv /\ [Next]_vars =>
        [\A p \in Processes :
            ApplySchema(p) /\ Present # {} => Snapshot \in backups]_vars
  BY DEF IInv, BackedUp, ApplySchema
<1> QED
  BY Invariance, <1>1, PTL DEF Spec, MigrationSaved
=============================================================================
