-------------------------- MODULE MetricsTiers_proofs --------------------------
(***************************************************************************)
(* Theorems about MetricsTiers, for every set of servers, samples, workers *)
(* and instants and all retention periods the code accepts.                *)
(***************************************************************************)
EXTENDS MetricsTiers, TLAPS

-----------------------------------------------------------------------------
(* Arithmetic of buckets.                                                  *)

\* A moment lies in the bucket it is put in, and buckets are aligned.
LEMMA BucketFacts ==
    ASSUME NEW t \in Int
    PROVE  /\ BucketStart(t, 5) \in Int
           /\ BucketStart(t, 5) <= t
           /\ t < BucketStart(t, 5) + 5
           /\ BucketStart(t, 60) \in Int
           /\ BucketStart(t, 60) <= t
           /\ t < BucketStart(t, 60) + 60
BY DEF BucketStart

\* A moment before an aligned cutoff is in a bucket that ends by the cutoff;
\* one at or after it is in a bucket that starts no earlier.
LEMMA CutoffFacts ==
    ASSUME NEW t \in Int, NEW c \in Int
    PROVE  /\ t < BucketStart(c, 5) => BucketStart(t, 5) + 5 <= BucketStart(c, 5)
           /\ t < BucketStart(c, 60) => BucketStart(t, 60) + 60 <= BucketStart(c, 60)
           /\ t >= BucketStart(c, 5) => BucketStart(t, 5) >= BucketStart(c, 5)
           /\ t >= BucketStart(c, 60) => BucketStart(t, 5) >= BucketStart(c, 60)
BY DEF BucketStart

\* Hours are made of whole five-minute buckets.
LEMMA NestedBuckets ==
    ASSUME NEW t \in Int
    PROVE  BucketStart(BucketStart(t, 5), 60) = BucketStart(t, 60)
BY DEF BucketStart

\* Clock readings are integers.
LEMMA InstantFacts == \A t \in Instants : t \in Int
BY InstantsAssumption

\* What the keys of the aggregate tables are.
LEMMA KeyFacts ==
    /\ \A k \in FiveMinuteKeys : k[1] \in Servers /\ k[2] \in Int
    /\ \A h \in HourKeys : h[1] \in Servers /\ h[2] \in Int
BY InstantsAssumption DEF FiveMinuteKeys, HourKeys, BucketStart, rawMetricsBucket,
   aggregatedMetricsBucket

\* Cutoffs are integers, aligned and in the order of the tiers.
LEMMA CutoffTypes ==
    ASSUME TypeOK, NEW w \in Workers
    PROVE  /\ startedAt[w] \in Int
           /\ RawCutoff(w) \in Int
           /\ FiveMinuteCutoff(w) \in Int
           /\ AggregatedCutoff(w) \in Int
<1>1. startedAt[w] \in Int
  BY InstantFacts DEF TypeOK
<1>2. /\ startedAt[w] - RawRetention \in Int
      /\ startedAt[w] - FiveMinuteRetention \in Int
      /\ startedAt[w] - AggregatedRetention \in Int
  BY <1>1, RetentionAssumption
<1>3. /\ BucketStart(startedAt[w] - RawRetention, 5) \in Int
      /\ BucketStart(startedAt[w] - FiveMinuteRetention, 60) \in Int
      /\ BucketStart(startedAt[w] - AggregatedRetention, 60) \in Int
  BY <1>2, BucketFacts
<1> QED
  BY <1>1, <1>3 DEF RawCutoff, FiveMinuteCutoff, AggregatedCutoff,
     completedBucketCutoff, rawMetricsBucket, aggregatedMetricsBucket

-----------------------------------------------------------------------------
(* Type correctness.                                                       *)

LEMMA TypeInit == Init => TypeOK
BY DEF Init, TypeOK

LEMMA TypeStep == TypeOK /\ [Next]_vars => TypeOK'
<1> SUFFICES ASSUME TypeOK, [Next]_vars PROVE TypeOK'
  OBVIOUS
<1> USE DEF TypeOK
<1>1. CASE Tick
  BY <1>1 DEF Tick
<1>2. ASSUME NEW v \in Servers, CreateServer(v) PROVE TypeOK'
  BY <1>2 DEF CreateServer
<1>3. ASSUME NEW v \in Servers, DeleteServer(v) PROVE TypeOK'
  BY <1>3 DEF DeleteServer
<1>4. ASSUME NEW s \in Sample, SaveMetrics(s) PROVE TypeOK'
  BY <1>4 DEF SaveMetrics
<1>5. ASSUME NEW w \in Workers, Maintain(w) PROVE TypeOK'
  BY <1>5 DEF Maintain
<1>6. ASSUME NEW w \in Workers, downsampleRaw(w) PROVE TypeOK'
  <2>1. \A k : RawGroup(w, k) \in SUBSET Sample
    BY DEF RawGroup
  <2> QED
    BY <1>6, <2>1 DEF downsampleRaw
<1>7. ASSUME NEW w \in Workers, downsample5m(w) PROVE TypeOK'
  <2>1. \A h : FiveMinuteGroup(w, h) \in SUBSET Sample
    BY DEF FiveMinuteGroup
  <2> QED
    BY <1>7, <2>1 DEF downsample5m
<1>8. ASSUME NEW w \in Workers, deleteExpired(w) PROVE TypeOK'
  BY <1>8 DEF deleteExpired
<1>9. ASSUME NEW w \in Workers, MaintainStops(w) PROVE TypeOK'
  BY <1>9 DEF MaintainStops
<1>10. CASE UNCHANGED vars
  BY <1>10 DEF vars
<1> QED
  BY <1>1, <1>2, <1>3, <1>4, <1>5, <1>6, <1>7, <1>8, <1>9, <1>10 DEF Next

\* Every reachable state of the tables and the workers is well typed, for any
\* retention periods and any senders.
THEOREM TypeCorrect == Spec => []TypeOK
BY TypeInit, TypeStep, PTL DEF Spec

-----------------------------------------------------------------------------
(* Samples, keys and cutoffs.                                              *)

\* Samples carry an integer instant, and the server and bucket of a sample are
\* a key of each aggregate table.
LEMMA SampleFacts ==
    ASSUME NEW s \in Sample
    PROVE  /\ s.at \in Int /\ s.at \in Instants /\ s.server \in Servers
           /\ <<s.server, BucketStart(s.at, 5)>> \in FiveMinuteKeys
           /\ <<s.server, BucketStart(s.at, 60)>> \in HourKeys
BY InstantFacts DEF Sample, FiveMinuteKeys, HourKeys, rawMetricsBucket,
   aggregatedMetricsBucket

\* The hour of a five-minute key is a key of metrics_1h.
LEMMA HourOfKey ==
    ASSUME NEW k \in FiveMinuteKeys
    PROVE  <<k[1], BucketStart(k[2], 60)>> \in HourKeys
<1>1. PICK t \in Instants : k[2] = BucketStart(t, 5)
  BY DEF FiveMinuteKeys, rawMetricsBucket
<1>2. BucketStart(k[2], 60) = BucketStart(t, 60)
  BY <1>1, InstantFacts, NestedBuckets
<1> QED
  BY <1>1, <1>2 DEF FiveMinuteKeys, HourKeys, aggregatedMetricsBucket

\* The cutoffs lie the retention periods in the past, in the order of the tiers.
LEMMA CutoffOrder ==
    ASSUME TypeOK, StartsPast, NEW w \in Workers
    PROVE  /\ RawCutoff(w) <= startedAt[w] - RawRetention
           /\ RawCutoff(w) <= now - RawRetention
           /\ FiveMinuteCutoff(w) <= startedAt[w] - FiveMinuteRetention
           /\ FiveMinuteCutoff(w) <= now - RawRetention
           /\ FiveMinuteCutoff(w) <= RawCutoff(w)
           /\ AggregatedCutoff(w) <= now - AggregatedRetention
<1>1. now \in Int /\ startedAt[w] \in Int /\ startedAt[w] <= now
  BY InstantFacts DEF TypeOK, StartsPast
<1> DEFINE r == startedAt[w] - RawRetention
           f == startedAt[w] - FiveMinuteRetention
           g == startedAt[w] - AggregatedRetention
<1>2. r \in Int /\ f \in Int /\ g \in Int /\ f < r
  BY <1>1, RetentionAssumption
<1>3. /\ BucketStart(r, 5) \in Int /\ BucketStart(r, 5) <= r
      /\ BucketStart(f, 60) \in Int /\ BucketStart(f, 60) <= f
      /\ BucketStart(g, 60) \in Int /\ BucketStart(g, 60) <= g
  BY <1>2, BucketFacts
<1>4. BucketStart(f, 60) <= BucketStart(r, 5)
  BY <1>2 DEF BucketStart
<1>5. /\ RawCutoff(w) = BucketStart(r, 5)
      /\ FiveMinuteCutoff(w) = BucketStart(f, 60)
      /\ AggregatedCutoff(w) = BucketStart(g, 60)
  BY DEF RawCutoff, FiveMinuteCutoff, AggregatedCutoff, completedBucketCutoff,
     rawMetricsBucket, aggregatedMetricsBucket
<1> QED
  BY <1>1, <1>2, <1>3, <1>4, <1>5, RetentionAssumption

\* What deleteExpired drops is past the longest retention period.
LEMMA ExpiredIsOld ==
    ASSUME TypeOK, RowsPlaced, StartsPast, NEW w \in Workers, NEW h \in HourKeys, NEW s \in metrics_1h[h],
           h[2] < AggregatedCutoff(w)
    PROVE  s.at < now - AggregatedRetention
<1>1. s \in accepted /\ BucketStart(s.at, 60) = h[2]
  BY DEF RowsPlaced, aggregatedMetricsBucket
<1>2. s.at \in Int /\ now \in Int /\ startedAt[w] - AggregatedRetention \in Int
  <2>1. s \in Sample /\ now \in Instants
    BY <1>1 DEF TypeOK
  <2>2. now \in Int /\ s.at \in Int
    BY <2>1, InstantFacts, SampleFacts
  <2> QED
    BY <2>1, <2>2, CutoffTypes, RetentionAssumption
<1>3. AggregatedCutoff(w) = BucketStart(startedAt[w] - AggregatedRetention, 60)
  BY DEF AggregatedCutoff, completedBucketCutoff, aggregatedMetricsBucket
<1>4. s.at < AggregatedCutoff(w)
  BY <1>1, <1>2, <1>3 DEF BucketStart
<1>5. AggregatedCutoff(w) <= now - AggregatedRetention /\ AggregatedCutoff(w) \in Int
  BY CutoffOrder, CutoffTypes
<1> QED
  BY <1>2, <1>4, <1>5, RetentionAssumption

-----------------------------------------------------------------------------
(* What holds whoever sends.                                               *)

\* Each action leaves rows with acknowledged samples of their own bucket.
LEMMA RowsPlacedStep ==
    ASSUME TypeOK, RowsPlaced, [Next]_vars
    PROVE  RowsPlaced'
<1>1. CASE UNCHANGED <<metrics, metrics_5m, metrics_1h, accepted>>
  BY <1>1 DEF RowsPlaced
<1>2. ASSUME NEW v \in Servers, DeleteServer(v) PROVE RowsPlaced'
  BY <1>2 DEF DeleteServer, RowsPlaced
<1>3. ASSUME NEW s \in Sample, SaveMetrics(s) PROVE RowsPlaced'
  BY <1>3 DEF SaveMetrics, RowsPlaced
<1>4. ASSUME NEW w \in Workers, downsampleRaw(w) PROVE RowsPlaced'
  BY <1>4 DEF downsampleRaw, RowsPlaced, RawGroup
<1>5. ASSUME NEW w \in Workers, downsample5m(w) PROVE RowsPlaced'
  <2>1. ASSUME NEW h \in HourKeys, NEW s \in FiveMinuteGroup(w, h)
        PROVE  s \in accepted /\ s.server = h[1] /\ BucketStart(s.at, 60) = h[2]
    <3>1. PICK k \in FiveMinuteKeys : /\ s \in metrics_5m[k]
                                      /\ k[1] = h[1]
                                      /\ BucketStart(k[2], 60) = h[2]
      BY DEF FiveMinuteGroup, aggregatedMetricsBucket
    <3>2. s \in accepted /\ s.server = k[1] /\ BucketStart(s.at, 5) = k[2]
      BY <3>1 DEF RowsPlaced, rawMetricsBucket
    <3>3. s.at \in Int
      BY <3>2, SampleFacts DEF TypeOK
    <3> QED
      BY <3>1, <3>2, <3>3, NestedBuckets
  <2> QED
    BY <1>5, <2>1 DEF downsample5m, RowsPlaced, aggregatedMetricsBucket
<1>6. ASSUME NEW w \in Workers, deleteExpired(w) PROVE RowsPlaced'
  BY <1>6 DEF deleteExpired, RowsPlaced
<1>7. CASE \/ Tick
           \/ \E v \in Servers : CreateServer(v)
           \/ \E w \in Workers : Maintain(w) \/ MaintainStops(w)
           \/ UNCHANGED vars
  BY <1>1, <1>7 DEF Tick, CreateServer, Maintain, MaintainStops, vars
<1> QED
  BY <1>2, <1>3, <1>4, <1>5, <1>6, <1>7 DEF Next

LEMMA StartsPastStep ==
    ASSUME TypeOK, StartsPast, [Next]_vars
    PROVE  StartsPast'
<1>1. now \in Int /\ \A w \in Workers : startedAt[w] \in Int
  BY InstantFacts DEF TypeOK
<1>2. CASE Tick
  <2>1. now' \in Int /\ now' > now /\ startedAt' = startedAt
    BY <1>2, InstantFacts DEF Tick
  <2> QED
    BY <1>1, <2>1 DEF StartsPast
<1>3. ASSUME NEW w \in Workers, Maintain(w) PROVE StartsPast'
  BY <1>1, <1>3 DEF Maintain, StartsPast, TypeOK
<1>4. CASE UNCHANGED <<now, startedAt>>
  BY <1>4 DEF StartsPast
<1> QED
  BY <1>2, <1>3, <1>4 DEF Next, CreateServer, DeleteServer, SaveMetrics, downsampleRaw,
     downsample5m, deleteExpired, MaintainStops, vars

\* The three tables have no sample in common.
TablesApart ==
    /\ metrics \intersect InFiveMinutes = {}
    /\ metrics \intersect InHours = {}
    /\ InFiveMinutes \intersect InHours = {}

\* Two rows of one table never share a sample, being of different buckets, so what
\* is left of CountedOnce is that the tables do not.
LEMMA OnceIsApart == RowsPlaced => (CountedOnce <=> TablesApart)
<1> SUFFICES ASSUME RowsPlaced PROVE CountedOnce <=> TablesApart
  OBVIOUS
<1>1. ASSUME NEW j \in FiveMinuteKeys, NEW k \in FiveMinuteKeys,
             NEW s \in metrics_5m[j], s \in metrics_5m[k]
      PROVE  j = k
  BY <1>1 DEF RowsPlaced, FiveMinuteKeys
<1>2. ASSUME NEW j \in HourKeys, NEW k \in HourKeys,
             NEW s \in metrics_1h[j], s \in metrics_1h[k]
      PROVE  j = k
  BY <1>2 DEF RowsPlaced, HourKeys
<1> QED
  BY <1>1, <1>2 DEF CountedOnce, TablesApart

\* What each transaction of maintenance can add to and leave in a table.
LEMMA RawMoveBounds ==
    ASSUME TypeOK, NEW w \in Workers, downsampleRaw(w)
    PROVE  /\ metrics' \subseteq metrics
           /\ InFiveMinutes' \subseteq InFiveMinutes \union (metrics \ metrics')
           /\ InHours' = InHours
<1>1. RawCutoff(w) \in Int /\ \A s \in metrics : s.at \in Int
  BY CutoffTypes, SampleFacts DEF TypeOK
<1>2. ASSUME NEW k \in FiveMinuteKeys, NEW s \in metrics_5m'[k]
      PROVE  s \in metrics_5m[k] \union (metrics \ metrics')
  BY <1>1, <1>2 DEF downsampleRaw, RawGroup
<1> QED
  BY <1>2 DEF downsampleRaw, InFiveMinutes, InHours

LEMMA FiveMinuteMoveBounds ==
    ASSUME TypeOK, RowsPlaced, NEW w \in Workers, downsample5m(w)
    PROVE  /\ metrics' = metrics
           /\ InFiveMinutes' \subseteq InFiveMinutes
           /\ InHours' \subseteq InHours \union (InFiveMinutes \ InFiveMinutes')
<1>1. ASSUME NEW h \in HourKeys, NEW s \in FiveMinuteGroup(w, h)
      PROVE  s \in InFiveMinutes \ InFiveMinutes'
  <2>1. PICK k \in FiveMinuteKeys : s \in metrics_5m[k] /\ k[2] < FiveMinuteCutoff(w)
    BY DEF FiveMinuteGroup
  <2>2. ASSUME NEW j \in FiveMinuteKeys, s \in metrics_5m'[j]
        PROVE  FALSE
    <3>1. s \in metrics_5m[j] /\ ~(j[2] < FiveMinuteCutoff(w))
      BY <2>2 DEF downsample5m
    <3>2. j[2] = k[2]
      BY <2>1, <3>1 DEF RowsPlaced
    <3> QED
      BY <2>1, <3>1, <3>2
  <2> QED
    BY <2>1, <2>2 DEF InFiveMinutes
<1>2. ASSUME NEW h \in HourKeys, NEW s \in metrics_1h'[h]
      PROVE  s \in metrics_1h[h] \union FiveMinuteGroup(w, h)
  BY <1>2 DEF downsample5m
<1>3. InFiveMinutes' \subseteq InFiveMinutes
  BY DEF downsample5m, InFiveMinutes
<1> QED
  BY <1>1, <1>2, <1>3 DEF downsample5m, InHours

LEMMA ApartStep ==
    ASSUME TypeOK, RowsPlaced, TablesApart, [Next]_vars
    PROVE  TablesApart'
<1>1. CASE /\ metrics' \subseteq metrics
           /\ InFiveMinutes' \subseteq InFiveMinutes
           /\ InHours' \subseteq InHours
  BY <1>1 DEF TablesApart
<1>2. ASSUME NEW v \in Servers, DeleteServer(v) PROVE TablesApart'
  <2>1. InFiveMinutes' \subseteq InFiveMinutes /\ InHours' \subseteq InHours
    BY <1>2 DEF DeleteServer, InFiveMinutes, InHours
  <2> QED
    BY <1>1, <1>2, <2>1 DEF DeleteServer
<1>3. ASSUME NEW s \in Sample, SaveMetrics(s) PROVE TablesApart'
  <2>1. s \notin InFiveMinutes /\ s \notin InHours
    BY <1>3 DEF SaveMetrics, RowsPlaced, InFiveMinutes, InHours
  <2>2. metrics' = metrics \union {s} /\ InFiveMinutes' = InFiveMinutes /\ InHours' = InHours
    BY <1>3 DEF SaveMetrics, InFiveMinutes, InHours
  <2> QED
    BY <2>1, <2>2 DEF TablesApart
<1>4. ASSUME NEW w \in Workers, downsampleRaw(w) PROVE TablesApart'
  BY <1>4, RawMoveBounds DEF TablesApart
<1>5. ASSUME NEW w \in Workers, downsample5m(w) PROVE TablesApart'
  BY <1>5, FiveMinuteMoveBounds DEF TablesApart
<1>6. ASSUME NEW w \in Workers, deleteExpired(w) PROVE TablesApart'
  <2>1. InFiveMinutes' = InFiveMinutes /\ InHours' \subseteq InHours
    BY <1>6 DEF deleteExpired, InFiveMinutes, InHours
  <2> QED
    BY <1>1, <1>6, <2>1 DEF deleteExpired
<1>7. CASE \/ Tick
           \/ \E v \in Servers : CreateServer(v)
           \/ \E w \in Workers : Maintain(w) \/ MaintainStops(w)
           \/ UNCHANGED vars
  <2>1. UNCHANGED <<metrics, metrics_5m, metrics_1h>>
    BY <1>7 DEF Tick, CreateServer, Maintain, MaintainStops, vars
  <2> QED
    BY <1>1, <2>1 DEF InFiveMinutes, InHours
<1> QED
  BY <1>2, <1>3, <1>4, <1>5, <1>6, <1>7 DEF Next

LEMMA AnySenderInvariance == Spec => []AnySenderInv
<1>1. Init => AnySenderInv
  <2> SUFFICES ASSUME Init PROVE AnySenderInv
    OBVIOUS
  <2>1. \A w \in Workers : startedAt[w] <= now
    BY InstantFacts DEF Init
  <2> QED
    BY <2>1, TypeInit DEF Init, AnySenderInv, RowsPlaced, StartsPast, CountedOnce,
       InFiveMinutes, InHours
<1>2. AnySenderInv /\ [Next]_vars => AnySenderInv'
  <2> SUFFICES ASSUME AnySenderInv, [Next]_vars PROVE AnySenderInv'
    OBVIOUS
  <2>1. TypeOK' /\ RowsPlaced' /\ StartsPast'
    BY TypeStep, RowsPlacedStep, StartsPastStep DEF AnySenderInv
  <2>2. TablesApart'
    BY ApartStep, OnceIsApart DEF AnySenderInv
  <2>3. RowsPlaced' => (CountedOnce' <=> TablesApart')
    BY OnceIsApart, PTL
  <2> QED
    BY <2>1, <2>2, <2>3 DEF AnySenderInv
<1> QED
  BY <1>1, <1>2, PTL DEF Spec

\* No sample is ever counted by two rows, however late samples come and however many
\* processes maintain the tables.
THEOREM NoSampleCountedTwice == Spec => []CountedOnce
BY AnySenderInvariance, PTL DEF AnySenderInv

\* Every row of every table holds only acknowledged samples, of its own server and
\* bucket: nothing else ever enters an average, a peak or a sample_count.
THEOREM RowsHoldTheirBucket == Spec => []RowsPlaced
BY AnySenderInvariance, PTL DEF AnySenderInv

-----------------------------------------------------------------------------
(* What late samples can do.                                               *)

\* A sample lost in downsampleRaw was overwritten in its five-minute row.
LEMMA RawMoveLoss ==
    ASSUME TypeOK, RowsPlaced, NEW w \in Workers, downsampleRaw(w),
           NEW s \in Stored \ Stored'
    PROVE  /\ s \in InFiveMinutes
           /\ \E u \in metrics \intersect InFiveMinutes' : SameRow(u, s, rawMetricsBucket)
<1>1. s \notin InHours
  BY DEF downsampleRaw, Stored, InHours
<1>2. s \notin metrics
  <2> SUFFICES ASSUME s \in metrics PROVE FALSE
    OBVIOUS
  <2>1. s.at \in Int /\ <<s.server, BucketStart(s.at, 5)>> \in FiveMinuteKeys
    BY SampleFacts DEF TypeOK
  <2>2. s.at < RawCutoff(w)
    BY <2>1, CutoffTypes DEF downsampleRaw, Stored
  <2>3. s \in RawGroup(w, <<s.server, BucketStart(s.at, 5)>>)
    BY <2>2 DEF RawGroup, rawMetricsBucket
  <2>4. s \in InFiveMinutes'
    BY <2>1, <2>3 DEF downsampleRaw, InFiveMinutes
  <2> QED
    BY <2>4 DEF Stored
<1>3. PICK k \in FiveMinuteKeys : s \in metrics_5m[k]
  BY <1>1, <1>2 DEF Stored, InFiveMinutes
<1>4. s \notin metrics_5m'[k]
  BY DEF Stored, InFiveMinutes
<1>5. RawGroup(w, k) # {} /\ metrics_5m'[k] = RawGroup(w, k)
  BY <1>3, <1>4 DEF downsampleRaw
<1>6. PICK u \in RawGroup(w, k) : TRUE
  BY <1>5
<1>7. /\ u \in metrics /\ u \in InFiveMinutes'
      /\ u.server = k[1] /\ BucketStart(u.at, rawMetricsBucket) = k[2]
  BY <1>5, <1>6 DEF RawGroup, InFiveMinutes
<1>8. s.server = k[1] /\ BucketStart(s.at, rawMetricsBucket) = k[2]
  BY <1>3 DEF RowsPlaced
<1> QED
  BY <1>3, <1>7, <1>8 DEF SameRow, InFiveMinutes

\* A sample lost in downsample5m was overwritten in its hour row.
LEMMA FiveMinuteMoveLoss ==
    ASSUME TypeOK, RowsPlaced, NEW w \in Workers, downsample5m(w),
           NEW s \in Stored \ Stored'
    PROVE  /\ s \in InHours
           /\ \E u \in InFiveMinutes \intersect InHours' : SameRow(u, s, aggregatedMetricsBucket)
<1>1. s \notin metrics
  BY DEF downsample5m, Stored
<1>2. ASSUME NEW k \in FiveMinuteKeys, NEW t \in metrics_5m[k], k[2] < FiveMinuteCutoff(w)
      PROVE  t \in InHours'
  <2>1. <<k[1], BucketStart(k[2], 60)>> \in HourKeys
    BY HourOfKey
  <2>2. t \in FiveMinuteGroup(w, <<k[1], BucketStart(k[2], 60)>>)
    BY <1>2 DEF FiveMinuteGroup, aggregatedMetricsBucket
  <2> QED
    BY <2>1, <2>2 DEF downsample5m, InHours
<1>3. s \notin InFiveMinutes
  <2> SUFFICES ASSUME NEW k \in FiveMinuteKeys, s \in metrics_5m[k] PROVE FALSE
    BY DEF InFiveMinutes
  <2>1. CASE k[2] < FiveMinuteCutoff(w)
    BY <1>2, <2>1 DEF Stored
  <2>2. CASE ~(k[2] < FiveMinuteCutoff(w))
    BY <2>2 DEF downsample5m, Stored, InFiveMinutes
  <2> QED
    BY <2>1, <2>2
<1>4. PICK h \in HourKeys : s \in metrics_1h[h]
  BY <1>1, <1>3 DEF Stored, InHours
<1>5. FiveMinuteGroup(w, h) # {} /\ metrics_1h'[h] = FiveMinuteGroup(w, h)
  BY <1>4 DEF downsample5m, Stored, InHours
<1>6. PICK u \in FiveMinuteGroup(w, h) : TRUE
  BY <1>5
<1>7. u \in InHours' /\ u \in InFiveMinutes
  BY <1>5, <1>6 DEF FiveMinuteGroup, InHours, InFiveMinutes
<1>8. u.server = h[1] /\ BucketStart(u.at, aggregatedMetricsBucket) = h[2]
  <2>1. RowsPlaced'
    BY RowsPlacedStep DEF Next
  <2> QED
    BY <1>5, <1>6, <2>1 DEF RowsPlaced
<1>9. s.server = h[1] /\ BucketStart(s.at, aggregatedMetricsBucket) = h[2]
  BY <1>4 DEF RowsPlaced
<1> QED
  BY <1>4, <1>7, <1>8, <1>9 DEF SameRow, InHours

LEMMA LossStep ==
    ASSUME TypeOK, RowsPlaced, StartsPast, [Next]_vars, NEW s \in Stored \ Stored'
    PROVE  \/ s.at < now - AggregatedRetention
           \/ s.server \in servers \ servers'
           \/ /\ s \in InFiveMinutes
              /\ \E u \in metrics \intersect InFiveMinutes' : SameRow(u, s, rawMetricsBucket)
           \/ /\ s \in InHours
              /\ \E u \in InFiveMinutes \intersect InHours' : SameRow(u, s, aggregatedMetricsBucket)
<1>1. ASSUME NEW v \in Servers, DeleteServer(v)
      PROVE  s.server \in servers \ servers'
  <2>1. s.server = v
    BY <1>1 DEF DeleteServer, Stored, InFiveMinutes, InHours, RowsPlaced
  <2> QED
    BY <1>1, <2>1 DEF DeleteServer
<1>2. ASSUME NEW w \in Workers, deleteExpired(w)
      PROVE  s.at < now - AggregatedRetention
  <2>1. PICK h \in HourKeys : s \in metrics_1h[h] /\ s \notin metrics_1h'[h]
    BY <1>2 DEF deleteExpired, Stored, InFiveMinutes, InHours
  <2>2. h[2] < AggregatedCutoff(w)
    BY <1>2, <2>1 DEF deleteExpired
  <2> QED
    BY <2>1, <2>2, ExpiredIsOld
<1>3. CASE \/ Tick
           \/ \E v \in Servers : CreateServer(v)
           \/ \E t \in Sample : SaveMetrics(t)
           \/ \E w \in Workers : Maintain(w) \/ MaintainStops(w)
           \/ UNCHANGED vars
  <2>1. metrics \subseteq metrics' /\ UNCHANGED <<metrics_5m, metrics_1h>>
    BY <1>3 DEF Tick, CreateServer, SaveMetrics, Maintain, MaintainStops, vars
  <2> QED
    BY <2>1 DEF Stored, InFiveMinutes, InHours
<1> QED
  BY <1>1, <1>2, <1>3, RawMoveLoss, FiveMinuteMoveLoss DEF Next

\* Whoever sends: what is lost before its time was overwritten by late samples of its
\* own bucket, which are in its row from then on.
THEOREM LossesAreOverwrites == Spec => LostOnlyByOverwriting
<1>1. AnySenderInv /\ [Next]_vars =>
        [\A s \in Stored \ Stored' :
            \/ s.at < now - AggregatedRetention
            \/ s.server \in servers \ servers'
            \/ /\ s \in InFiveMinutes
               /\ \E u \in metrics \intersect InFiveMinutes' : SameRow(u, s, rawMetricsBucket)
            \/ /\ s \in InHours
               /\ \E u \in InFiveMinutes \intersect InHours' :
                    SameRow(u, s, aggregatedMetricsBucket)]_vars
  BY LossStep DEF AnySenderInv
<1> QED
  BY <1>1, AnySenderInvariance, PTL DEF Spec, LostOnlyByOverwriting

-----------------------------------------------------------------------------
(* What a move does when senders are on time.                              *)

\* Raw rows are never grouped into a five-minute row that exists: the upsert of
\* downsampleRaw only inserts.
LEMMA RawGroupIsNew ==
    ASSUME IInv, NEW w \in Workers, NEW k \in FiveMinuteKeys, RawGroup(w, k) # {}
    PROVE  /\ metrics_5m[k] = {}
           /\ k[2] + 5 <= RawCutoff(w)
<1>1. PICK s \in metrics : /\ s.at < RawCutoff(w)
                           /\ BucketStart(s.at, 5) = k[2]
  BY DEF RawGroup, rawMetricsBucket
<1>2. s.at \in Int
  BY SampleFacts DEF IInv, TypeOK
<1>3. s.at < k[2] + 5
  BY <1>1, <1>2, BucketFacts
<1>4. metrics_5m[k] # {} => s.at >= k[2] + 5
  BY DEF IInv, BucketsComplete, rawMetricsBucket
<1>5. k[2] + 5 <= RawCutoff(w)
  <2>1. startedAt[w] - RawRetention \in Int
    BY CutoffTypes, RetentionAssumption DEF IInv
  <2>2. RawCutoff(w) = BucketStart(startedAt[w] - RawRetention, 5)
    BY DEF RawCutoff, completedBucketCutoff, rawMetricsBucket
  <2> QED
    BY <1>1, <1>2, <2>1, <2>2, CutoffFacts
<1>6. k[2] \in Int
  BY KeyFacts
<1> QED
  BY <1>2, <1>3, <1>4, <1>5, <1>6

\* Likewise for downsample5m: the hour row it writes is new, and the hour is over
\* by the cutoff.
LEMMA FiveMinuteGroupIsNew ==
    ASSUME IInv, NEW w \in Workers, NEW h \in HourKeys, FiveMinuteGroup(w, h) # {}
    PROVE  /\ metrics_1h[h] = {}
           /\ h[2] + 60 <= FiveMinuteCutoff(w)
<1>1. PICK k \in FiveMinuteKeys : /\ metrics_5m[k] # {}
                                  /\ k[2] < FiveMinuteCutoff(w)
                                  /\ BucketStart(k[2], 60) = h[2]
  BY DEF FiveMinuteGroup, aggregatedMetricsBucket
<1>2. k[2] \in Int /\ h[2] \in Int
  BY KeyFacts
<1>3. k[2] < h[2] + 60
  BY <1>1, <1>2, BucketFacts
<1>4. metrics_1h[h] # {} => k[2] >= h[2] + 60
  BY <1>1 DEF IInv, BucketsComplete, aggregatedMetricsBucket
<1>5. h[2] + 60 <= FiveMinuteCutoff(w)
  <2>1. startedAt[w] - FiveMinuteRetention \in Int
    BY CutoffTypes, RetentionAssumption DEF IInv
  <2>2. FiveMinuteCutoff(w) = BucketStart(startedAt[w] - FiveMinuteRetention, 60)
    BY DEF FiveMinuteCutoff, completedBucketCutoff, aggregatedMetricsBucket
  <2> QED
    BY <1>1, <1>2, <2>1, <2>2, CutoffFacts
<1> QED
  BY <1>2, <1>3, <1>4, <1>5

\* downsampleRaw moves samples and loses none.
LEMMA RawMoveKeepsStored ==
    ASSUME IInv, NEW w \in Workers, downsampleRaw(w)
    PROVE  Stored' = Stored
<1>1. /\ metrics_5m' = [k \in FiveMinuteKeys |->
                          IF RawGroup(w, k) # {} THEN RawGroup(w, k) ELSE metrics_5m[k]]
      /\ metrics' = {s \in metrics : s.at >= RawCutoff(w)}
      /\ metrics_1h' = metrics_1h
  BY DEF downsampleRaw
<1>2. InHours' = InHours
  BY <1>1 DEF InHours
<1>3. ASSUME NEW s \in metrics
      PROVE  s \in metrics' \union InFiveMinutes'
  <2>1. s.at \in Int /\ <<s.server, BucketStart(s.at, 5)>> \in FiveMinuteKeys
    BY SampleFacts DEF IInv, TypeOK
  <2>2. RawCutoff(w) \in Int
    BY CutoffTypes DEF IInv
  <2>3. CASE s.at >= RawCutoff(w)
    BY <1>1, <2>3
  <2>4. CASE s.at < RawCutoff(w)
    <3>1. s \in RawGroup(w, <<s.server, BucketStart(s.at, 5)>>)
      BY <2>4 DEF RawGroup, rawMetricsBucket
    <3> QED
      BY <1>1, <2>1, <3>1 DEF InFiveMinutes
  <2> QED
    BY <2>1, <2>2, <2>3, <2>4
<1>4. ASSUME NEW k \in FiveMinuteKeys, NEW s \in metrics_5m[k]
      PROVE  s \in InFiveMinutes'
  <2>1. RawGroup(w, k) = {}
    BY RawGroupIsNew
  <2>2. metrics_5m'[k] = metrics_5m[k]
    BY <1>1, <2>1
  <2> QED
    BY <2>2 DEF InFiveMinutes
<1>5. ASSUME NEW k \in FiveMinuteKeys, NEW s \in metrics_5m'[k]
      PROVE  s \in metrics \union InFiveMinutes
  BY <1>1 DEF InFiveMinutes, RawGroup
<1>6. metrics' \subseteq metrics
  BY <1>1
<1> QED
  BY <1>2, <1>3, <1>4, <1>5, <1>6 DEF Stored, InFiveMinutes

\* downsample5m moves rows and loses none of their samples.
LEMMA FiveMinuteMoveKeepsStored ==
    ASSUME IInv, NEW w \in Workers, downsample5m(w)
    PROVE  Stored' = Stored
<1>1. /\ metrics_1h' = [h \in HourKeys |->
                          IF FiveMinuteGroup(w, h) # {} THEN FiveMinuteGroup(w, h)
                          ELSE metrics_1h[h]]
      /\ metrics_5m' = [k \in FiveMinuteKeys |->
                          IF k[2] < FiveMinuteCutoff(w) THEN {} ELSE metrics_5m[k]]
      /\ metrics' = metrics
  BY DEF downsample5m
<1>2. ASSUME NEW k \in FiveMinuteKeys, NEW s \in metrics_5m[k]
      PROVE  s \in InFiveMinutes' \union InHours'
  <2>1. CASE k[2] < FiveMinuteCutoff(w)
    <3> DEFINE h == <<k[1], BucketStart(k[2], 60)>>
    <3>1. h \in HourKeys
      BY HourOfKey
    <3>2. s \in FiveMinuteGroup(w, h)
      BY <2>1 DEF FiveMinuteGroup, aggregatedMetricsBucket
    <3>3. s \in metrics_1h'[h]
      BY <1>1, <3>1, <3>2
    <3> QED
      BY <3>1, <3>3 DEF InHours
  <2>2. CASE ~(k[2] < FiveMinuteCutoff(w))
    BY <1>1, <2>2 DEF InFiveMinutes
  <2> QED
    BY <2>1, <2>2
<1>3. ASSUME NEW h \in HourKeys, NEW s \in metrics_1h[h]
      PROVE  s \in InHours'
  <2>1. FiveMinuteGroup(w, h) = {}
    BY FiveMinuteGroupIsNew
  <2> QED
    BY <1>1, <2>1 DEF InHours
<1>4. ASSUME NEW h \in HourKeys, NEW s \in metrics_1h'[h]
      PROVE  s \in InFiveMinutes \union InHours
  BY <1>1 DEF InFiveMinutes, InHours, FiveMinuteGroup
<1>5. ASSUME NEW k \in FiveMinuteKeys, NEW s \in metrics_5m'[k]
      PROVE  s \in metrics_5m[k]
  BY <1>1
<1>6. InFiveMinutes \subseteq InFiveMinutes' \union InHours'
  BY <1>2 DEF InFiveMinutes
<1>7. InHours \subseteq InHours'
  BY <1>3 DEF InHours
<1>8. InHours' \subseteq InFiveMinutes \union InHours
  BY <1>4 DEF InHours
<1>9. InFiveMinutes' \subseteq InFiveMinutes
  BY <1>5 DEF InFiveMinutes
<1> QED
  BY <1>1, <1>6, <1>7, <1>8, <1>9 DEF Stored

-----------------------------------------------------------------------------
(* The inductive invariant, one action at a time.                          *)

LEMMA IInvInit == Init => IInv
<1> SUFFICES ASSUME Init PROVE IInv
  OBVIOUS
<1>1. TypeOK
  BY TypeInit
<1>2. \A w \in Workers : startedAt[w] <= now
  BY InstantFacts DEF Init
<1> QED
  BY <1>1, <1>2 DEF Init, IInv, RowsPlaced, StartsPast, RowsOld, WorkersAhead, BucketsComplete,
     Conservation

LEMMA IInvTick ==
    ASSUME IInv, Tick
    PROVE  IInv'
<1>1. now \in Int /\ now' \in Int /\ now < now'
  BY InstantFacts DEF IInv, TypeOK, Tick
<1>2. UNCHANGED <<servers, metrics, metrics_5m, metrics_1h, pc, startedAt, accepted>>
  BY DEF Tick
<1>3. TypeOK' /\ RowsPlaced' /\ StartsPast'
  BY TypeStep, RowsPlacedStep, StartsPastStep DEF IInv, Next
<1>4. BucketsComplete'
  BY <1>2 DEF IInv, BucketsComplete
<1>5. RowsOld'
  BY <1>1, <1>2, KeyFacts, RetentionAssumption
  DEF IInv, RowsOld, rawMetricsBucket, aggregatedMetricsBucket
<1>6. WorkersAhead'
  BY <1>2 DEF IInv, WorkersAhead, RawCutoff, FiveMinuteCutoff
<1>7. Conservation'
  <2>1. Stored' = Stored
    BY <1>2 DEF Stored, InFiveMinutes, InHours
  <2>2. ASSUME NEW s \in accepted, s.at >= now' - AggregatedRetention
        PROVE  s.at >= now - AggregatedRetention
    <3>1. s.at \in Int
      BY SampleFacts DEF IInv, TypeOK
    <3> QED
      BY <1>1, <2>2, <3>1, RetentionAssumption
  <2> QED
    BY <1>2, <2>1, <2>2 DEF IInv, Conservation
<1> QED
  BY <1>3, <1>4, <1>5, <1>6, <1>7 DEF IInv

LEMMA IInvDeleteServer ==
    ASSUME IInv, NEW v \in Servers, DeleteServer(v)
    PROVE  IInv'
<1>1. /\ metrics' = {s \in metrics : s.server # v}
      /\ metrics_5m' = [k \in FiveMinuteKeys |-> IF k[1] = v THEN {} ELSE metrics_5m[k]]
      /\ metrics_1h' = [k \in HourKeys |-> IF k[1] = v THEN {} ELSE metrics_1h[k]]
      /\ accepted' = {s \in accepted : s.server # v}
      /\ UNCHANGED <<now, pc, startedAt>>
  BY DEF DeleteServer
<1>2. TypeOK' /\ RowsPlaced' /\ StartsPast'
  BY TypeStep, RowsPlacedStep, StartsPastStep DEF IInv, Next
<1>3. RowsOld' /\ BucketsComplete'
  BY <1>1 DEF IInv, RowsOld, BucketsComplete
<1>4. WorkersAhead'
  BY <1>1 DEF IInv, WorkersAhead, RawCutoff, FiveMinuteCutoff
<1>5. ASSUME NEW s \in Stored, s.server # v
      PROVE  s \in Stored'
  BY <1>1, <1>5 DEF Stored, InFiveMinutes, InHours, IInv, RowsPlaced
<1>6. Conservation'
  BY <1>1, <1>5 DEF IInv, Conservation
<1> QED
  BY <1>2, <1>3, <1>4, <1>6 DEF IInv

\* A sample saved on time is newer than everything already aggregated or about
\* to be.
LEMMA IInvSaveMetrics ==
    ASSUME IInv, SendersOnTime, NEW s \in Sample, SaveMetrics(s)
    PROVE  IInv'
<1>1. /\ metrics' = metrics \union {s}
      /\ accepted' = accepted \union {s}
      /\ UNCHANGED <<now, servers, metrics_5m, metrics_1h, pc, startedAt>>
  BY DEF SaveMetrics
<1>2. now \in Int /\ s.at \in Int /\ s.at >= now - RawRetention
  <2>1. now \in Int /\ s.at \in Int
    BY InstantFacts, SampleFacts DEF IInv, TypeOK
  <2> QED
    BY <2>1, RetentionAssumption, MaxAgeAssumption DEF SaveMetrics, SendersOnTime
<1>3. TypeOK' /\ RowsPlaced' /\ StartsPast'
  BY TypeStep, RowsPlacedStep, StartsPastStep DEF IInv, Next
<1>4. RowsOld'
  BY <1>1 DEF IInv, RowsOld
<1>5. WorkersAhead'
  <2>1. \A w \in Workers : s.at >= RawCutoff(w)
    BY <1>2, CutoffOrder, CutoffTypes, RetentionAssumption DEF IInv
  <2> QED
    BY <1>1, <2>1 DEF IInv, WorkersAhead, RawCutoff, FiveMinuteCutoff
<1>6. BucketsComplete'
  <2>1. \A k \in FiveMinuteKeys : metrics_5m[k] # {} => s.at >= k[2] + 5
    BY <1>2, KeyFacts, RetentionAssumption DEF IInv, RowsOld, rawMetricsBucket
  <2>2. \A h \in HourKeys : metrics_1h[h] # {} => s.at >= h[2] + 60
    BY <1>2, KeyFacts, RetentionAssumption DEF IInv, RowsOld, aggregatedMetricsBucket
  <2> QED
    BY <1>1, <2>1, <2>2 DEF IInv, BucketsComplete, rawMetricsBucket, aggregatedMetricsBucket
<1>7. Conservation'
  <2>1. Stored \subseteq Stored' /\ s \in Stored'
    BY <1>1 DEF Stored, InFiveMinutes, InHours
  <2> QED
    BY <1>1, <2>1 DEF IInv, Conservation
<1> QED
  BY <1>3, <1>4, <1>5, <1>6, <1>7 DEF IInv

\* Steps that leave the tables and the clock alone, and move no worker forward
\* past a table.
LEMMA IInvTablesUnchanged ==
    ASSUME IInv, TypeOK', RowsPlaced', StartsPast', UNCHANGED <<now, metrics, metrics_5m, metrics_1h, accepted>>,
           \A w \in Workers :
              \/ pc'[w] = pc[w] /\ startedAt'[w] = startedAt[w]
              \/ pc'[w] = "idle" /\ startedAt'[w] = startedAt[w]
              \/ pc'[w] = "downsampleRaw" /\ startedAt'[w] = now
    PROVE  IInv'
<1>1. RowsOld' /\ BucketsComplete'
  BY DEF IInv, RowsOld, BucketsComplete
<1>2. Conservation'
  BY DEF IInv, Conservation, Stored, InFiveMinutes, InHours
<1>3. WorkersAhead'
  BY DEF IInv, WorkersAhead, RawCutoff, FiveMinuteCutoff
<1> QED
  BY <1>1, <1>2, <1>3 DEF IInv

LEMMA IInvDownsampleRaw ==
    ASSUME IInv, NEW w \in Workers, downsampleRaw(w)
    PROVE  IInv'
<1>1. /\ metrics_5m' = [k \in FiveMinuteKeys |->
                          IF RawGroup(w, k) # {} THEN RawGroup(w, k) ELSE metrics_5m[k]]
      /\ metrics' = {s \in metrics : s.at >= RawCutoff(w)}
      /\ pc' = [pc EXCEPT ![w] = "downsample5m"]
      /\ UNCHANGED <<now, servers, metrics_1h, startedAt, accepted>>
  BY DEF downsampleRaw
<1>2. TypeOK' /\ RowsPlaced' /\ StartsPast'
  BY TypeStep, RowsPlacedStep, StartsPastStep DEF IInv, Next
<1>3. now \in Int /\ RawCutoff(w) \in Int /\ RawCutoff(w) <= now - RawRetention
  BY InstantFacts, CutoffTypes, CutoffOrder DEF IInv, TypeOK
\* A row of metrics_5m after the step is an old one or ends by the cutoff.
<1>4. ASSUME NEW k \in FiveMinuteKeys, metrics_5m'[k] # {}
      PROVE  \/ metrics_5m[k] # {} /\ metrics_5m'[k] = metrics_5m[k]
             \/ /\ metrics_5m'[k] = RawGroup(w, k)
                /\ RawGroup(w, k) # {}
                /\ k[2] + 5 <= RawCutoff(w)
  BY <1>1, <1>4, RawGroupIsNew
<1>5. RowsOld'
  <2>1. ASSUME NEW k \in FiveMinuteKeys, metrics_5m'[k] # {}
        PROVE  k[2] + 5 <= now - RawRetention
    BY <1>3, <1>4, <2>1, KeyFacts, RetentionAssumption DEF IInv, RowsOld, rawMetricsBucket
  <2> QED
    BY <1>1, <2>1 DEF IInv, RowsOld, rawMetricsBucket
<1>6. BucketsComplete'
  <2>1. ASSUME NEW s \in metrics', NEW k \in FiveMinuteKeys, metrics_5m'[k] # {}
        PROVE  s.at >= k[2] + 5
    <3>1. s \in metrics /\ s.at \in Int /\ s.at >= RawCutoff(w) /\ k[2] \in Int
      BY <1>1, SampleFacts, KeyFacts DEF IInv, TypeOK
    <3> QED
      BY <1>3, <1>4, <2>1, <3>1 DEF IInv, BucketsComplete, rawMetricsBucket
  <2>2. ASSUME NEW k \in FiveMinuteKeys, metrics_5m'[k] # {},
               NEW h \in HourKeys, metrics_1h'[h] # {}
        PROVE  k[2] >= h[2] + 60
    <3>1. CASE metrics_5m[k] # {}
      BY <1>1, <2>2, <3>1 DEF IInv, BucketsComplete, aggregatedMetricsBucket
    <3>2. CASE RawGroup(w, k) # {}
      <4>1. PICK s \in metrics : BucketStart(s.at, 5) = k[2]
        BY <3>2 DEF RawGroup, rawMetricsBucket
      <4>2. s.at \in Int /\ h[2] \in Int
        BY SampleFacts, KeyFacts DEF IInv, TypeOK
      <4>3. s.at >= h[2] + 60
        BY <1>1, <2>2 DEF IInv, BucketsComplete, aggregatedMetricsBucket
      <4>4. PICK t \in Instants : h[2] = BucketStart(t, 60)
        BY DEF HourKeys, aggregatedMetricsBucket
      <4>5. t \in Int
        BY InstantFacts
      <4> QED
        BY <4>1, <4>2, <4>3, <4>4, <4>5 DEF BucketStart
    <3> QED
      BY <1>4, <2>2, <3>1, <3>2
  <2> QED
    BY <1>1, <2>1, <2>2 DEF IInv, BucketsComplete, rawMetricsBucket, aggregatedMetricsBucket
<1>7. WorkersAhead'
  <2>1. ASSUME NEW u \in Workers, pc'[u] \in {"downsample5m", "deleteExpired"},
               NEW s \in metrics'
        PROVE  s.at >= RawCutoff(u)
    BY <1>1, <2>1 DEF IInv, WorkersAhead, TypeOK
  <2>2. ASSUME NEW u \in Workers, pc'[u] = "deleteExpired",
               NEW k \in FiveMinuteKeys, metrics_5m'[k] # {}
        PROVE  k[2] >= FiveMinuteCutoff(u)
    <3>1. pc[u] = "deleteExpired"
      BY <1>1, <2>2 DEF IInv, TypeOK
    <3>2. CASE metrics_5m[k] # {}
      BY <3>1, <3>2 DEF IInv, WorkersAhead
    <3>3. CASE RawGroup(w, k) # {}
      <4>1. PICK s \in metrics : BucketStart(s.at, 5) = k[2]
        BY <3>3 DEF RawGroup, rawMetricsBucket
      <4>2. s.at >= RawCutoff(u)
        BY <3>1 DEF IInv, WorkersAhead
      <4>3. s.at \in Int /\ RawCutoff(u) \in Int /\ FiveMinuteCutoff(u) \in Int
        BY SampleFacts, CutoffTypes DEF IInv, TypeOK
      <4>4. s.at >= FiveMinuteCutoff(u)
        BY <4>2, <4>3, CutoffOrder DEF IInv
      <4>5. startedAt[u] - FiveMinuteRetention \in Int
        BY CutoffTypes, RetentionAssumption DEF IInv
      <4> QED
        BY <4>1, <4>3, <4>4, <4>5, CutoffFacts
        DEF FiveMinuteCutoff, completedBucketCutoff, aggregatedMetricsBucket
    <3> QED
      BY <1>4, <2>2, <3>2, <3>3
  <2> QED
    BY <1>1, <2>1, <2>2 DEF IInv, WorkersAhead, RawCutoff, FiveMinuteCutoff
<1>8. Conservation'
  BY <1>1, RawMoveKeepsStored DEF IInv, Conservation
<1> QED
  BY <1>2, <1>5, <1>6, <1>7, <1>8 DEF IInv

LEMMA IInvDownsample5m ==
    ASSUME IInv, NEW w \in Workers, downsample5m(w)
    PROVE  IInv'
<1>1. /\ metrics_1h' = [h \in HourKeys |->
                          IF FiveMinuteGroup(w, h) # {} THEN FiveMinuteGroup(w, h)
                          ELSE metrics_1h[h]]
      /\ metrics_5m' = [k \in FiveMinuteKeys |->
                          IF k[2] < FiveMinuteCutoff(w) THEN {} ELSE metrics_5m[k]]
      /\ pc' = [pc EXCEPT ![w] = "deleteExpired"]
      /\ pc[w] = "downsample5m"
      /\ UNCHANGED <<now, servers, metrics, startedAt, accepted>>
  BY DEF downsample5m
<1>2. TypeOK' /\ RowsPlaced' /\ StartsPast'
  BY TypeStep, RowsPlacedStep, StartsPastStep DEF IInv, Next
<1>3. /\ now \in Int
      /\ RawCutoff(w) \in Int
      /\ FiveMinuteCutoff(w) \in Int
      /\ FiveMinuteCutoff(w) <= now - RawRetention
      /\ FiveMinuteCutoff(w) <= RawCutoff(w)
  BY InstantFacts, CutoffTypes, CutoffOrder DEF IInv, TypeOK
\* A row of metrics_1h after the step is an old one or ends by the cutoff; a row
\* of metrics_5m is an old one that starts no earlier.
<1>4. ASSUME NEW h \in HourKeys, metrics_1h'[h] # {}
      PROVE  \/ metrics_1h[h] # {} /\ metrics_1h'[h] = metrics_1h[h]
             \/ metrics_1h'[h] = FiveMinuteGroup(w, h) /\ h[2] + 60 <= FiveMinuteCutoff(w)
  BY <1>1, <1>4, FiveMinuteGroupIsNew
<1>5. ASSUME NEW k \in FiveMinuteKeys, metrics_5m'[k] # {}
      PROVE  /\ metrics_5m'[k] = metrics_5m[k]
             /\ k[2] >= FiveMinuteCutoff(w)
  BY <1>1, <1>3, <1>5, KeyFacts
<1>6. RowsOld'
  <2>1. ASSUME NEW h \in HourKeys, metrics_1h'[h] # {}
        PROVE  h[2] + 60 <= now - RawRetention
    BY <1>3, <1>4, <2>1, KeyFacts, RetentionAssumption
    DEF IInv, RowsOld, aggregatedMetricsBucket
  <2> QED
    BY <1>1, <1>5, <2>1 DEF IInv, RowsOld, aggregatedMetricsBucket
<1>7. BucketsComplete'
  <2>1. ASSUME NEW s \in metrics', NEW h \in HourKeys, metrics_1h'[h] # {}
        PROVE  s.at >= h[2] + 60
    <3>1. s \in metrics /\ s.at \in Int /\ s.at >= RawCutoff(w) /\ h[2] \in Int
      BY <1>1, SampleFacts, KeyFacts DEF IInv, TypeOK, WorkersAhead
    <3> QED
      BY <1>3, <1>4, <2>1, <3>1 DEF IInv, BucketsComplete, aggregatedMetricsBucket
  <2>2. ASSUME NEW k \in FiveMinuteKeys, metrics_5m'[k] # {},
               NEW h \in HourKeys, metrics_1h'[h] # {}
        PROVE  k[2] >= h[2] + 60
    <3>1. k[2] \in Int /\ h[2] \in Int
      BY KeyFacts
    <3> QED
      BY <1>3, <1>4, <1>5, <2>2, <3>1 DEF IInv, BucketsComplete, aggregatedMetricsBucket
  <2> QED
    BY <1>1, <1>5, <2>1, <2>2 DEF IInv, BucketsComplete, aggregatedMetricsBucket
<1>8. WorkersAhead'
  <2>1. ASSUME NEW u \in Workers, pc'[u] \in {"downsample5m", "deleteExpired"},
               NEW s \in metrics'
        PROVE  s.at >= RawCutoff(u)
    BY <1>1, <2>1 DEF IInv, WorkersAhead, TypeOK
  <2>2. ASSUME NEW u \in Workers, pc'[u] = "deleteExpired",
               NEW k \in FiveMinuteKeys, metrics_5m'[k] # {}
        PROVE  k[2] >= FiveMinuteCutoff(u)
    BY <1>1, <1>5, <2>2 DEF IInv, WorkersAhead, TypeOK
  <2> QED
    BY <1>1, <2>1, <2>2 DEF IInv, WorkersAhead, RawCutoff, FiveMinuteCutoff
<1>9. Conservation'
  BY <1>1, FiveMinuteMoveKeepsStored DEF IInv, Conservation
<1> QED
  BY <1>2, <1>6, <1>7, <1>8, <1>9 DEF IInv

LEMMA IInvDeleteExpired ==
    ASSUME IInv, NEW w \in Workers, deleteExpired(w)
    PROVE  IInv'
<1>1. /\ metrics_1h' = [h \in HourKeys |->
                          IF h[2] < AggregatedCutoff(w) THEN {} ELSE metrics_1h[h]]
      /\ pc' = [pc EXCEPT ![w] = "idle"]
      /\ UNCHANGED <<now, servers, metrics, metrics_5m, startedAt, accepted>>
  BY DEF deleteExpired
<1>2. TypeOK' /\ RowsPlaced' /\ StartsPast'
  BY TypeStep, RowsPlacedStep, StartsPastStep DEF IInv, Next
<1>3. RowsOld' /\ BucketsComplete'
  BY <1>1 DEF IInv, RowsOld, BucketsComplete
<1>4. WorkersAhead'
  BY <1>1 DEF IInv, WorkersAhead, RawCutoff, FiveMinuteCutoff, TypeOK
<1>5. Conservation'
  <2>1. ASSUME NEW s \in accepted, s \in Stored, s.at >= now - AggregatedRetention
        PROVE  s \in Stored'
    <3>1. CASE s \in metrics \union InFiveMinutes
      BY <1>1, <3>1 DEF Stored, InFiveMinutes
    <3>2. CASE s \in InHours
      <4>1. PICK h \in HourKeys : s \in metrics_1h[h]
        BY <3>2 DEF InHours
      <4>2. s.at \in Int /\ now - AggregatedRetention \in Int
        <5>1. s \in Sample /\ now \in Instants
          BY DEF IInv, TypeOK
        <5>2. now \in Int /\ s.at \in Int
          BY <5>1, InstantFacts, SampleFacts
        <5> QED
          BY <5>2, RetentionAssumption
      <4>3. ~(h[2] < AggregatedCutoff(w))
        BY <2>1, <4>1, <4>2, ExpiredIsOld DEF IInv
      <4> QED
        BY <1>1, <4>1, <4>3 DEF Stored, InHours
    <3> QED
      BY <2>1, <3>1, <3>2 DEF Stored
  <2> QED
    BY <1>1, <2>1 DEF IInv, Conservation
<1> QED
  BY <1>2, <1>3, <1>4, <1>5 DEF IInv

LEMMA IInvStep ==
    ASSUME SendersOnTime
    PROVE  IInv /\ [Next]_vars => IInv'
<1> SUFFICES ASSUME IInv, [Next]_vars PROVE IInv'
  OBVIOUS
<1>1. TypeOK' /\ RowsPlaced' /\ StartsPast'
  BY TypeStep, RowsPlacedStep, StartsPastStep DEF IInv
<1>2. CASE Tick
  BY <1>2, IInvTick
<1>3. ASSUME NEW v \in Servers, CreateServer(v) PROVE IInv'
  BY <1>1, <1>3, IInvTablesUnchanged DEF CreateServer
<1>4. ASSUME NEW v \in Servers, DeleteServer(v) PROVE IInv'
  BY <1>4, IInvDeleteServer
<1>5. ASSUME NEW s \in Sample, SaveMetrics(s) PROVE IInv'
  BY <1>5, IInvSaveMetrics
<1>6. ASSUME NEW w \in Workers, Maintain(w) PROVE IInv'
  BY <1>1, <1>6, IInvTablesUnchanged DEF Maintain, IInv, TypeOK
<1>7. ASSUME NEW w \in Workers, downsampleRaw(w) PROVE IInv'
  BY <1>7, IInvDownsampleRaw
<1>8. ASSUME NEW w \in Workers, downsample5m(w) PROVE IInv'
  BY <1>8, IInvDownsample5m
<1>9. ASSUME NEW w \in Workers, deleteExpired(w) PROVE IInv'
  BY <1>9, IInvDeleteExpired
<1>10. ASSUME NEW w \in Workers, MaintainStops(w) PROVE IInv'
  BY <1>1, <1>10, IInvTablesUnchanged DEF MaintainStops, IInv, TypeOK
<1>11. CASE UNCHANGED vars
  BY <1>1, <1>11, IInvTablesUnchanged DEF vars
<1> QED
  BY <1>2, <1>3, <1>4, <1>5, <1>6, <1>7, <1>8, <1>9, <1>10, <1>11 DEF Next

LEMMA Invariance ==
    ASSUME SendersOnTime
    PROVE  Spec => []IInv
<1>1. Init => IInv
  BY IInvInit
<1>2. IInv /\ [Next]_vars => IInv'
  BY IInvStep
<1> QED
  BY <1>1, <1>2, PTL DEF Spec

-----------------------------------------------------------------------------
(* The theorems.                                                           *)

\* If senders are on time, every acknowledged sample is accounted for until it is
\* older than the longest retention period, through any interleaving of saves,
\* deletions and maintenance runs, complete or cut short.
THEOREM NoSampleLost ==
    ASSUME SendersOnTime
    PROVE  Spec => []Conservation
BY Invariance, PTL DEF IInv

\* If senders are on time, the tables cover disjoint and ordered stretches of
\* time, so a bucket that has a row has no samples left in a finer table.
THEOREM TiersOrdered ==
    ASSUME SendersOnTime
    PROVE  Spec => []BucketsComplete
BY Invariance, PTL DEF IInv

-----------------------------------------------------------------------------
(* Aggregates never change, and the tables implement SampleStore.          *)

LEMMA FrozenStep ==
    ASSUME IInv, [Next]_vars
    PROVE  /\ \A k \in FiveMinuteKeys :
                metrics_5m[k] # {} => metrics_5m'[k] \in {{}, metrics_5m[k]}
           /\ \A h \in HourKeys :
                metrics_1h[h] # {} => metrics_1h'[h] \in {{}, metrics_1h[h]}
<1>1. CASE UNCHANGED <<metrics_5m, metrics_1h>>
  BY <1>1
<1>2. ASSUME NEW v \in Servers, DeleteServer(v)
      PROVE  /\ \A k \in FiveMinuteKeys : metrics_5m'[k] \in {{}, metrics_5m[k]}
             /\ \A h \in HourKeys : metrics_1h'[h] \in {{}, metrics_1h[h]}
  BY <1>2 DEF DeleteServer
<1>3. ASSUME NEW w \in Workers, downsampleRaw(w)
      PROVE  /\ metrics_1h' = metrics_1h
             /\ \A k \in FiveMinuteKeys :
                  metrics_5m[k] # {} => metrics_5m'[k] = metrics_5m[k]
  <2>1. \A k \in FiveMinuteKeys : metrics_5m[k] # {} => RawGroup(w, k) = {}
    BY RawGroupIsNew
  <2> QED
    BY <1>3, <2>1 DEF downsampleRaw
<1>4. ASSUME NEW w \in Workers, downsample5m(w)
      PROVE  /\ \A k \in FiveMinuteKeys : metrics_5m'[k] \in {{}, metrics_5m[k]}
             /\ \A h \in HourKeys : metrics_1h[h] # {} => metrics_1h'[h] = metrics_1h[h]
  <2>1. \A h \in HourKeys : metrics_1h[h] # {} => FiveMinuteGroup(w, h) = {}
    BY FiveMinuteGroupIsNew
  <2> QED
    BY <1>4, <2>1 DEF downsample5m
<1>5. ASSUME NEW w \in Workers, deleteExpired(w)
      PROVE  /\ metrics_5m' = metrics_5m
             /\ \A h \in HourKeys : metrics_1h'[h] \in {{}, metrics_1h[h]}
  BY <1>5 DEF deleteExpired
<1>6. CASE \/ Tick
           \/ \E v \in Servers : CreateServer(v)
           \/ \E s \in Sample : SaveMetrics(s)
           \/ \E w \in Workers : Maintain(w) \/ MaintainStops(w)
           \/ UNCHANGED vars
  BY <1>1, <1>6 DEF Tick, CreateServer, SaveMetrics, Maintain, MaintainStops, vars
<1> QED
  BY <1>2, <1>3, <1>4, <1>5, <1>6 DEF Next

\* If senders are on time, the upserts of maintenance only ever insert: no row of
\* metrics_5m or metrics_1h changes its contents.
THEOREM AggregatesNeverRewritten ==
    ASSUME SendersOnTime
    PROVE  Spec => AggregatesFrozen
<1>1. IInv /\ [Next]_vars =>
        [/\ \A k \in FiveMinuteKeys :
              metrics_5m[k] # {} => metrics_5m'[k] \in {{}, metrics_5m[k]}
         /\ \A h \in HourKeys :
              metrics_1h[h] # {} => metrics_1h'[h] \in {{}, metrics_1h[h]}]_vars
  BY FrozenStep
<1> QED
  BY <1>1, Invariance, PTL DEF Spec, AggregatesFrozen

LEMMA StoreInit == Init => Store!Init
BY DEF Init, Store!Init, Stored, InFiveMinutes, InHours

LEMMA StoreStep ==
    ASSUME IInv, [Next]_vars
    PROVE  [Store!Next]_(Store!vars)
<1> USE DEF Store!vars
<1>1. CASE Tick
  <2>1. Stored' = Stored
    BY <1>1 DEF Tick, Stored, InFiveMinutes, InHours
  <2> QED
    BY <1>1, <2>1 DEF Tick, Store!Next, Store!Advance
<1>2. ASSUME NEW v \in Servers, CreateServer(v)
      PROVE  Store!Register(v)
  BY <1>2 DEF CreateServer, Store!Register, Stored, InFiveMinutes, InHours
<1>3. ASSUME NEW v \in Servers, DeleteServer(v)
      PROVE  Store!Unregister(v)
  <2>1. InFiveMinutes' = {s \in InFiveMinutes : s.server # v}
    BY <1>3 DEF DeleteServer, InFiveMinutes, IInv, RowsPlaced
  <2>2. InHours' = {s \in InHours : s.server # v}
    BY <1>3 DEF DeleteServer, InHours, IInv, RowsPlaced
  <2>3. Stored' = {s \in Stored : s.server # v}
    BY <1>3, <2>1, <2>2 DEF DeleteServer, Stored
  <2> QED
    BY <1>3, <2>3 DEF DeleteServer, Store!Unregister
<1>4. ASSUME NEW s \in Sample, SaveMetrics(s)
      PROVE  Store!Save(s)
  <2>1. Stored \subseteq accepted
    BY DEF Stored, InFiveMinutes, InHours, IInv, RowsPlaced
  <2>2. s \notin Stored
    BY <1>4, <2>1 DEF SaveMetrics
  <2>3. Stored' = Stored \union {s}
    BY <1>4 DEF SaveMetrics, Stored, InFiveMinutes, InHours
  <2> QED
    BY <1>4, <2>2, <2>3 DEF SaveMetrics, Store!Save
<1>5. ASSUME NEW w \in Workers, Maintain(w) \/ MaintainStops(w)
      PROVE  UNCHANGED <<now, servers, Stored>>
  BY <1>5 DEF Maintain, MaintainStops, Stored, InFiveMinutes, InHours
<1>6. ASSUME NEW w \in Workers, downsampleRaw(w)
      PROVE  UNCHANGED <<now, servers, Stored>>
  BY <1>6, RawMoveKeepsStored DEF downsampleRaw
<1>7. ASSUME NEW w \in Workers, downsample5m(w)
      PROVE  UNCHANGED <<now, servers, Stored>>
  BY <1>7, FiveMinuteMoveKeepsStored DEF downsample5m
<1>8. ASSUME NEW w \in Workers, deleteExpired(w)
      PROVE  Store!Expire
  <2>1. InHours' \subseteq InHours /\ InFiveMinutes' = InFiveMinutes /\ metrics' = metrics
    BY <1>8 DEF deleteExpired, InHours, InFiveMinutes
  <2>2. ASSUME NEW s \in Stored \ Stored'
        PROVE  s.at < now - AggregatedRetention
    <3>1. PICK h \in HourKeys : s \in metrics_1h[h]
      BY <2>1, <2>2 DEF Stored, InHours
    <3>2. s \notin metrics_1h'[h]
      BY <2>2, <3>1 DEF Stored, InHours
    <3>3. h[2] < AggregatedCutoff(w)
      BY <1>8, <3>1, <3>2 DEF deleteExpired
    <3> QED
      BY <3>1, <3>3, ExpiredIsOld DEF IInv
  <2>3. Stored' \in SUBSET Stored
    BY <2>1 DEF Stored
  <2> QED
    BY <1>8, <2>2, <2>3 DEF deleteExpired, Store!Expire
<1>9. CASE UNCHANGED vars
  BY <1>9 DEF vars, Stored, InFiveMinutes, InHours
<1> QED
  BY <1>1, <1>2, <1>3, <1>4, <1>5, <1>6, <1>7, <1>8, <1>9 DEF Next, Store!Next

\* If senders are on time, the three tables and their maintenance implement the
\* store that keeps every acknowledged sample until it expires or its server is
\* deleted.
THEOREM TiersImplementStore ==
    ASSUME SendersOnTime
    PROVE  Spec => ImplementsStore
<1>1. Init => Store!Init
  BY StoreInit
<1>2. IInv /\ [Next]_vars => [Store!Next]_(Store!vars)
  BY StoreStep
<1> QED
  BY <1>1, <1>2, Invariance, PTL DEF Spec, Store!Spec, ImplementsStore

-----------------------------------------------------------------------------
(* What a completed run of maintenance has achieved.                       *)

LEMMA EnforcedStep ==
    ASSUME IInv, NEW w \in Workers, deleteExpired(w)
    PROVE  /\ \A s \in metrics' :
                s.at >= startedAt[w] - RawRetention - rawMetricsBucket
           /\ \A k \in FiveMinuteKeys : metrics_5m'[k] # {} =>
                k[2] >= startedAt[w] - FiveMinuteRetention - aggregatedMetricsBucket
           /\ \A h \in HourKeys : metrics_1h'[h] # {} =>
                h[2] >= startedAt[w] - AggregatedRetention - aggregatedMetricsBucket
<1> DEFINE r == startedAt[w] - RawRetention
           f == startedAt[w] - FiveMinuteRetention
           g == startedAt[w] - AggregatedRetention
<1>1. r \in Int /\ f \in Int /\ g \in Int
  BY CutoffTypes, RetentionAssumption DEF IInv
<1>2. /\ BucketStart(r, 5) \in Int /\ r - 5 <= BucketStart(r, 5)
      /\ BucketStart(f, 60) \in Int /\ f - 60 <= BucketStart(f, 60)
      /\ BucketStart(g, 60) \in Int /\ g - 60 <= BucketStart(g, 60)
  BY <1>1 DEF BucketStart
<1>3. /\ RawCutoff(w) = BucketStart(r, 5)
      /\ FiveMinuteCutoff(w) = BucketStart(f, 60)
      /\ AggregatedCutoff(w) = BucketStart(g, 60)
  BY DEF RawCutoff, FiveMinuteCutoff, AggregatedCutoff, completedBucketCutoff,
     rawMetricsBucket, aggregatedMetricsBucket
<1>4. ASSUME NEW s \in metrics'
      PROVE  s.at >= r - 5
  <2>1. s \in Sample /\ s.at >= RawCutoff(w)
    BY DEF deleteExpired, IInv, TypeOK, WorkersAhead
  <2>2. s.at \in Int
    BY <2>1, SampleFacts
  <2> QED
    BY <1>1, <1>2, <1>3, <2>1, <2>2
<1>5. ASSUME NEW k \in FiveMinuteKeys, metrics_5m'[k] # {}
      PROVE  k[2] >= f - 60
  <2>1. k[2] >= FiveMinuteCutoff(w)
    BY <1>5 DEF deleteExpired, IInv, WorkersAhead
  <2> QED
    BY <1>1, <1>2, <1>3, <2>1, KeyFacts
<1>6. ASSUME NEW h \in HourKeys, metrics_1h'[h] # {}
      PROVE  h[2] >= g - 60
  <2>1. ~(h[2] < AggregatedCutoff(w))
    BY <1>6 DEF deleteExpired
  <2> QED
    BY <1>1, <1>2, <1>3, <2>1, KeyFacts
<1> QED
  BY <1>4, <1>5, <1>6 DEF rawMetricsBucket, aggregatedMetricsBucket

\* If senders are on time, a maintenance run that completes leaves no row older
\* than its table's retention period, counted from the run's start, plus one
\* bucket - whatever was saved or maintained by others meanwhile.
THEOREM MaintenanceEnforcesRetention ==
    ASSUME SendersOnTime
    PROVE  Spec => RetentionEnforced
<1>1. IInv /\ [Next]_vars =>
        [\A w \in Workers : deleteExpired(w) =>
            /\ \A s \in metrics' :
                s.at >= startedAt[w] - RawRetention - rawMetricsBucket
            /\ \A k \in FiveMinuteKeys : metrics_5m'[k] # {} =>
                k[2] >= startedAt[w] - FiveMinuteRetention - aggregatedMetricsBucket
            /\ \A h \in HourKeys : metrics_1h'[h] # {} =>
                h[2] >= startedAt[w] - AggregatedRetention - aggregatedMetricsBucket]_vars
  BY EnforcedStep
<1> QED
  BY <1>1, Invariance, PTL DEF Spec, RetentionEnforced
=============================================================================
