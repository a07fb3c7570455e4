------------------------------ MODULE MetricsChart -----------------------------
(***************************************************************************)
(* The chart of a server's dashboard: the handler reads the clock, the     *)
(* store the points and then, in another statement, the statistics, while  *)
(* samples are saved, maintenance takes old ones away and the server may   *)
(* be deleted.  No range is as long as the seven days from which on        *)
(* MetricsChart reads the aggregates.                                      *)
(***************************************************************************)
EXTENDS Integers, FiniteSets

CONSTANTS
    Windows,        \* the ranges: 15m, 1h, 6h, 24h
    ChartBuckets,   \* the width of a point, for each of them
    RawRetention,   \* TARISYA_RETENTION_RAW
    RawBucket,      \* five minutes
    MaxDelay,       \* bound on the time from the handler's clock to the last statement
    MaxChartTime,   \* bound on the clock
    MaxChartRows    \* bound on samples in the table

\* Nothing compares the retention with the ranges; LoadConfig takes any positive one.
ASSUME ChartAssumption ==
    /\ Windows \subseteq Nat \ {0}
    /\ ChartBuckets \in [Windows -> Nat \ {0}]
    /\ RawBucket \in Nat \ {0} /\ MaxDelay \in Nat /\ MaxChartTime \in Nat
    /\ MaxChartRows \in Nat
    /\ RawRetention \in Nat /\ \A w \in Windows : RawRetention >= w + MaxDelay

VARIABLES
    chartNow,
    chartRows,      \* the collected_at of this server's rows in metrics
    chartServer,    \* the server is there
    request,        \* "none", "asked", "points" when these are read, or "answered"
    window,         \* of the last request,
    end,            \* and the clock it read
    points,         \* a point's time, and the samples it is the average of
    stat,           \* the samples that the average and the peak are of
    wanted          \* history: rows in the window when the request was made

\* The answer, with the samples that its values are of.
chartAnswer == <<window, end, points, stat, wanted>>
chartVars == <<chartNow, chartRows, chartServer, request, chartAnswer>>

ChartTimes == 0 .. MaxChartTime

ChartInit ==
    /\ chartNow = 0
    /\ chartRows = {}
    /\ chartServer = TRUE
    /\ request = "none"
    /\ window \in Windows
    /\ end = 0
    /\ points = {} /\ stat = {} /\ wanted = {}

\* A request ends in time.
ChartClock ==
    /\ chartNow < MaxChartTime
    /\ request \in {"asked", "points"} => chartNow < end + MaxDelay
    /\ chartNow' = chartNow + 1
    /\ UNCHANGED <<chartRows, chartServer, request, chartAnswer>>

\* validatePayload bounds the time of a sample from above only, to a little later
\* than now.
SaveSample(at) ==
    /\ chartServer
    /\ at <= chartNow + 1
    /\ Cardinality(chartRows \union {at}) <= MaxChartRows
    /\ chartRows' = chartRows \union {at}
    /\ UNCHANGED <<chartNow, chartServer, request, chartAnswer>>

\* Variant: the cutoff is rounded up.
RetentionCutoff_RoundedUp(started) ==
    LET at == started - RawRetention
    IN  (at - (at % RawBucket)) + RawBucket

\* completedBucketCutoff(now.Add(-RawRetention), rawMetricsBucket).
RetentionCutoff(started) ==
    LET at == started - RawRetention
    IN  at - (at % RawBucket)

\* downsampleRaw, of a run of maintenance that started then.
TakeOldSamples(started) ==
    /\ started <= chartNow
    /\ chartRows' = {at \in chartRows : at >= RetentionCutoff(started)}
    /\ UNCHANGED <<chartNow, chartServer, request, chartAnswer>>

RemoveServer ==
    /\ chartServer
    /\ chartServer' = FALSE
    /\ chartRows' = {}
    /\ UNCHANGED <<chartNow, request, chartAnswer>>

InWindow(rows) == {at \in rows : end - window <= at /\ at <= end}

\* metricsChart, for a server that is there.
AskChart(w) ==
    /\ chartServer /\ request \in {"none", "answered"}
    /\ request' = "asked"
    /\ window' = w
    /\ end' = chartNow
    /\ points' = {} /\ stat' = {}
    /\ wanted' = {at \in chartRows : chartNow - w <= at /\ at <= chartNow}
    /\ UNCHANGED <<chartNow, chartRows, chartServer>>

PointTime(at) == at - (at % ChartBuckets[window])

\* GROUP BY (collected_at / ?) * ?.
PointsOf(rows) ==
    {[time |-> PointTime(at), of |-> {s \in rows : PointTime(s) = PointTime(at)}] :
        at \in rows}

\* rawChart's query.
ReadPoints ==
    /\ request = "asked"
    /\ request' = "points"
    /\ points' = PointsOf(InWindow(chartRows))
    /\ UNCHANGED <<chartNow, chartRows, chartServer, window, end, stat, wanted>>

\* AVG and MAX, of the same table and window.
StatisticsOf(rows) == InWindow(rows)

\* statistics, and the answer.
ReadStatistics ==
    /\ request = "points"
    /\ request' = "answered"
    /\ stat' = StatisticsOf(chartRows)
    /\ UNCHANGED <<chartNow, chartRows, chartServer, window, end, points, wanted>>

\* A statement fails; the Console asks anew.
ChartFails ==
    /\ request \in {"asked", "points"}
    /\ request' = "none"
    /\ points' = {}
    /\ UNCHANGED <<chartNow, chartRows, chartServer, window, end, stat, wanted>>

ChartNext ==
    \/ ChartClock
    \/ \E at \in ChartTimes : SaveSample(at) \/ TakeOldSamples(at)
    \/ RemoveServer
    \/ \E w \in Windows : AskChart(w)
    \/ ReadPoints \/ ReadStatistics \/ ChartFails

ChartSpec == ChartInit /\ [][ChartNext]_chartVars

-----------------------------------------------------------------------------
(* What is drawn.                                                          *)

\* useMetricSeries: a point for each of the answer's, at its time.
Series == {p.time : p \in points}

\* MetricHistorySection: nothing before there is an answer.
Drawn == IF request = "answered" THEN Series ELSE {}

-----------------------------------------------------------------------------
(* Properties.                                                             *)

\* A point stands for samples, and no two for the same time.
ChartTypeOK ==
    /\ chartNow \in ChartTimes /\ end \in 0 .. chartNow
    /\ chartRows \subseteq ChartTimes
    /\ chartServer \in BOOLEAN
    /\ ~chartServer => chartRows = {}
    /\ request \in {"none", "asked", "points", "answered"}
    /\ window \in Windows
    /\ \A p \in points : p.of # {} /\ p.of \subseteq ChartTimes
    /\ \A p, q \in points : p.time = q.time => p = q
    /\ stat \subseteq ChartTimes /\ wanted \subseteq ChartTimes

\* Every sample that was acknowledged before the chart was asked for, and lies in its
\* range, has its point, although maintenance runs and started at any time: the raw
\* table still has the whole range.
ChartComplete ==
    request = "answered" /\ chartServer => \A at \in wanted : PointTime(at) \in Drawn

\* No value drawn is above the peak that is shown beside it: the peak, read later, is of
\* all the samples that the points are averages of, unless the server was deleted
\* between the two statements.
PeakCovers ==
    request = "answered" /\ chartServer => \A p \in points : p.of \subseteq stat

\* The chart is what was stored: it has all of its range, below the peak beside it.
ChartFaithful == ChartComplete /\ PeakCovers
=============================================================================
