----------------------------- MODULE ConsoleHealth -----------------------------
(***************************************************************************)
(* How well a server is, told twice on the dashboard: by the Core's health *)
(* badge, from thresholds of its configuration, and by three cards, from   *)
(* thresholds written into the Console.  The two come with two requests,   *)
(* which are polled at different intervals.                                *)
(***************************************************************************)
EXTENDS Integers

CONSTANTS
    Levels,                 \* usages in percent
    Thresholds,             \* configurations of the Core, with a warning and a critical level
    MaxHealthSamples        \* bound on samples

\* A metric of the Console, and its two thresholds in metricConfig.
Metrics == {"cpu", "memory", "disk"}
warnAt == [cpu |-> 70, memory |-> 75, disk |-> 80]
criticalAt == [cpu |-> 90, memory |-> 90, disk |-> 95]

\* LoadConfig accepts no other thresholds.
ASSUME ThresholdsAssumption ==
    /\ Levels \subseteq Int
    /\ MaxHealthSamples \in Nat
    /\ Thresholds \subseteq [warning : 0 .. 100, critical : 0 .. 100]
    /\ \A t \in Thresholds : t.warning < t.critical

VARIABLES
    configured,     \* the thresholds the Core was started with; the Console does not know
    samples,        \* the levels of the samples so far, by number
    newest,         \* the number of the newest one; 0 before the first
    kept,           \* its row is still there
    heard,          \* the Core has heard of the server not too long ago
    detail,         \* the answer the badges show; its sample only names it
    latest          \* the number of the sample the cards show; 0 for skeletons

healthVars == <<configured, samples, newest, kept, heard, detail, latest>>

Numbers == 1 .. MaxHealthSamples

\* ServerOverviewSection before there is an answer.
Skeleton == [connectivity |-> "none", health |-> "none", sample |-> 0]

\* The statuses the badges have a label for; any other one would not be rendered.
ConnectivityBadges == {"online", "offline", "pending"}
HealthBadges == {"healthy", "warning", "critical", "unknown"}
StatusBadges == {"good", "warning", "critical"}

\* The levels are drawn at the start; they come one after the other.
HealthInit ==
    /\ configured \in Thresholds
    /\ samples \in [Numbers -> [Metrics -> Levels]]
    /\ newest = 0
    /\ kept = FALSE
    /\ heard = FALSE
    /\ detail = Skeleton
    /\ latest = 0

\* The peak of the three levels against thresholds.
CoreHealth(t, levels) ==
    IF \E m \in Metrics : levels[m] >= t.critical THEN "critical"
    ELSE IF \E m \in Metrics : levels[m] >= t.warning THEN "warning"
    ELSE "healthy"

\* The newest row, if there is one.
NewestRow == IF kept THEN newest ELSE 0

\* status: never seen, not seen for too long, seen but without a sample, or online
\* with a health.
CoreStatus ==
    [connectivity |-> IF newest = 0 THEN "pending" ELSE IF heard THEN "online" ELSE "offline",
     health |-> IF heard /\ kept THEN CoreHealth(configured, samples[newest]) ELSE "unknown",
     sample |-> NewestRow]

\* Variant: only more than the threshold counts.
getStatus_Above(m, value) ==
    IF value > criticalAt[m] THEN "critical"
    ELSE IF value > warnAt[m] THEN "warning"
    ELSE "good"

\* The badge and the meter of a card.
getStatus(m, value) ==
    IF value >= criticalAt[m] THEN "critical"
    ELSE IF value >= warnAt[m] THEN "warning"
    ELSE "good"

\* MetricGrid: a card has a status once there is a sample.
CardStatus(m) == getStatus(m, samples[latest][m])

-----------------------------------------------------------------------------
\* The Core stores a sample and with it when it saw the server.
SampleStored ==
    /\ newest < MaxHealthSamples
    /\ newest' = newest + 1
    /\ kept' = TRUE
    /\ heard' = TRUE
    /\ UNCHANGED <<configured, samples, detail, latest>>

\* The offline threshold passes.
FallsSilent ==
    /\ heard
    /\ heard' = FALSE
    /\ UNCHANGED <<configured, samples, newest, kept, detail, latest>>

\* Maintenance takes the newest sample and all older ones; how old they are does not
\* depend on when they were received.
SamplesExpire ==
    /\ kept
    /\ kept' = FALSE
    /\ UNCHANGED <<configured, samples, newest, heard, detail, latest>>

\* The poll of useServer is answered.
DetailArrives ==
    /\ detail' = CoreStatus
    /\ UNCHANGED <<configured, samples, newest, kept, heard, latest>>

\* The poll of useLatestMetrics is answered; 404 without a row.  The sample of a server
\* that is offline stays, without its age.
LatestArrives ==
    /\ kept
    /\ latest' = newest
    /\ UNCHANGED <<configured, samples, newest, kept, heard, detail>>

HealthNext ==
    \/ SampleStored \/ FallsSilent \/ SamplesExpire
    \/ DetailArrives \/ LatestArrives

HealthSpec == HealthInit /\ [][HealthNext]_healthVars

-----------------------------------------------------------------------------
(* Properties.                                                             *)

\* A health only of a server that is online, and the one of the sample it names;
\* nothing is shown before it is stored.
DetailIsAnswer ==
    /\ configured \in Thresholds
    /\ samples \in [Numbers -> [Metrics -> Levels]]
    /\ newest \in 0 .. MaxHealthSamples
    /\ kept \in BOOLEAN /\ heard \in BOOLEAN
    /\ newest = 0 => ~heard /\ ~kept
    /\ detail.sample \in 0 .. newest
    /\ latest \in 0 .. newest
    /\ detail # Skeleton =>
        /\ detail.connectivity \in ConnectivityBadges
        /\ detail.health =
             IF detail.connectivity = "online" /\ detail.sample # 0
             THEN CoreHealth(configured, samples[detail.sample]) ELSE "unknown"

\* The badges say what the Core may say, and have labels for it.
HealthTypeOK ==
    /\ DetailIsAnswer
    /\ detail # Skeleton => /\ detail.connectivity \in ConnectivityBadges
                            /\ detail.health \in HealthBadges
    /\ latest # 0 => \A m \in Metrics : CardStatus(m) \in StatusBadges

\* What the cards and the badge say of one and the same sample, for every configuration
\* that the Core accepts.  A card's threshold that is not below the Core's makes a
\* critical card mean a critical server, one that is not above it a critical server mean
\* a critical card; and likewise for normal cards and a healthy server.  With the Core's
\* defaults that is: a critical card is on a critical server, a server is healthy if
\* every card is normal, and the disk of a healthy server is normal.
CardsAgreeWithHealth ==
    detail.connectivity = "online" /\ detail.sample # 0 /\ latest = detail.sample =>
        /\ \A m \in Metrics :
            configured.critical <= criticalAt[m] /\ CardStatus(m) = "critical"
                => detail.health = "critical"
        /\ (\A m \in Metrics : criticalAt[m] <= configured.critical)
            /\ detail.health = "critical"
                => \E m \in Metrics : CardStatus(m) = "critical"
        /\ \A m \in Metrics :
            configured.warning <= warnAt[m] /\ detail.health = "healthy"
                => CardStatus(m) = "good"
        /\ (\A m \in Metrics : warnAt[m] <= configured.warning)
            /\ (\A m \in Metrics : CardStatus(m) = "good")
                => detail.health = "healthy"
=============================================================================
