SPECIFICATION ClientsSpec
CONSTANTS
    Parts = {"history", "session", "servers", "rotation", "dashboard", "health",
             "time", "theme", "sidebar", "agent", "chart", "size"}
    Times = {1, 2, 3}
    Ids = {1, 2, 3}
    Limits = {1, 2}
    Users = {"ann", "bob"}
    OldServers = {}
    MaxCreates = 2
    MaxRotations = 3
    Servers = {1, 2}
    Ranges = {"15m", "24h"}
    DefaultRange = "24h"
    MaxSamples = 2
    MaxLost = 1
    MaxFlying = 2
    Levels = {69, 80, 95}
    Thresholds <- MCThresholds
    MaxHealthSamples = 2
    Moments <- MCMoments
    SeenAt = {0, 1}
    Uptimes <- MCUptimes
    Interval = 2
    Timeout = 3
    OfflineThreshold = 8
    Windows = {2, 4}
    ChartBuckets <- MCChartBuckets
    RawRetention = 5
    RawBucket = 2
    MaxDelay = 1
    MaxChartTime = 7
    MaxChartRows = 2
    Senders = {s1, s2, s3}
    MaxSize = 3
    MaxGrowth = 2
    MaxDatabase = 5
INVARIANTS
    OnlyTiesMissed
    ChartFaithful
    OvershootBounded
    OfflineMeansTrouble
    LoggedOutForgets
    ClosedDialogForgets
    ListHasOwnChanges
    ToldKeyIsActive
    ShownIsSelected
    CardsAgreeWithHealth
    LabelsExact
    NoFlash
PROPERTIES
    PagesDescend
    NoBursts
    ShownNeverGoesBack
