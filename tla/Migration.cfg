SPECIFICATION FairSpec
CONSTANTS
    Cores = {c1, c2}
    Commands = {q1}
    Written = {"users", "metrics"}
    LegacySchemas <- MCLegacySchemas
    DownsComplete = TRUE
    MaxFaults = 2
INVARIANTS
    SchemaWhole
PROPERTIES
    MigrationSaved
    CoresComeUp
