SPECIFICATION FairSpec
CONSTANTS
    Cores = {c1, c2}
    Commands = {q1}
    Written = {"users"}
    LegacySchemas <- MCLegacySchemas
    DownsComplete = FALSE
    MaxFaults = 1
INVARIANT
    SchemaWhole
