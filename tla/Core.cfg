SPECIFICATION CoreSpec
CONSTANTS
    Users = {a1, a2}
    Servers = {v0, v1}
    Keys = {k0, k1, k2, k3}
    Senders = {r1, r2}
    BootstrapServers = {v0}
    BootstrapKeys = {k0, k1}
    NoUser = NoUser
    NoServer = NoServer
    MaxClock = 2
    Clients = {a1, a2}
    Requests = {r1, r2}
    Cost = 3
    Burst = 1
    Second = 2
    ClientTTL = 5
    CleanupInterval = 2
    MaxWait = 1
    Pace = 1
    MaxTime = 8
    Backups = {r1, r2, r3}
    MaxCommits = 2
    Absent = Absent
    Empty = Empty
    Torn = Torn
    Foreign = Foreign
SYMMETRY Symmetry
INVARIANTS
    SamplesFromOwnKeys
    OneActiveKey
    BackupComplete
    SidecarMatches
PROPERTIES
    LastSeenMonotone
    ImplementsRegister
    ForgetsIdleClients
    RetryHonoured
    ImplementsBucket
    ForeignOutputKept
