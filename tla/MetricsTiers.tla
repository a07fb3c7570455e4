---------------------------- MODULE MetricsTiers -----------------------------
(***************************************************************************)
(* The three metric tables of the Core and the maintenance that moves      *)
(* samples between them: metrics (raw rows), metrics_5m and metrics_1h.    *)
(*                                                                         *)
(* SaveMetrics commits raw rows while Maintain runs, in up to |Workers|    *)
(* Core processes that share the database file (the lifecycle lock is a    *)
(* shared one), each as three separate transactions that read the wall     *)
(* clock once, at the start.  A transaction is atomic (SQLite); a run may  *)
(* stop between two of them, by an error return or because the process     *)
(* dies.                                                                   *)
(*                                                                         *)
(* An aggregate row is represented by the set of samples its columns were  *)
(* computed from: sample_count is its cardinality and avg, min and max are *)
(* functions of it.  The empty set stands for "no such row".               *)
(***************************************************************************)
EXTENDS Integers, FiniteSets

CONSTANTS
    Servers,                \* server identifiers
    SampleIds,              \* what tells apart samples collected at one instant
    Workers,                \* the Core processes that run maintenance
    Instants,               \* the moments the clock may show, in minutes
    RawRetention,           \* TARISYA_RETENTION_RAW, in minutes
    FiveMinuteRetention,    \* TARISYA_RETENTION_5M
    AggregatedRetention,    \* TARISYA_RETENTION_AGGREGATED
    MaxAge                  \* how old a sample can be when its row is committed

\* Clock readings are after 1970, which is where the SQL's integer division
\* rounds down.
ASSUME InstantsAssumption == Instants \subseteq Nat

\* The order maintainAt insists on before it touches a table.
ASSUME RetentionAssumption ==
    /\ RawRetention \in Nat /\ FiveMinuteRetention \in Nat
    /\ AggregatedRetention \in Nat
    /\ 0 < RawRetention
    /\ RawRetention < FiveMinuteRetention
    /\ FiveMinuteRetention < AggregatedRetention

ASSUME MaxAgeAssumption == MaxAge \in Nat

VARIABLES
    now,            \* the wall clock
    servers,        \* rows of table servers
    metrics,        \* rows of table metrics
    metrics_5m,     \* rows of table metrics_5m, by primary key
    metrics_1h,     \* rows of table metrics_1h, by primary key
    pc,             \* the transaction each worker runs next
    startedAt,      \* the clock as each worker read it in Maintain
    accepted        \* history: samples answered 202 whose server still exists

tables == <<metrics, metrics_5m, metrics_1h>>
vars == <<now, servers, metrics, metrics_5m, metrics_1h, pc, startedAt, accepted>>

rawMetricsBucket == 5
aggregatedMetricsBucket == 60

\* A sender's clock may run ahead of the Core's by this much.
FutureSlack == 5

Sample == [server : Servers, at : Instants, id : SampleIds]

\* (t / size) * size, and time.Truncate: the start of the bucket t falls in.
BucketStart(t, size) == t - (t % size)

FiveMinuteKeys ==
    Servers \X {BucketStart(t, rawMetricsBucket) : t \in Instants}
HourKeys ==
    Servers \X {BucketStart(t, aggregatedMetricsBucket) : t \in Instants}

\* Variant: the cutoff falls inside a bucket.
completedBucketCutoff_NotTruncated(at, size) == at

completedBucketCutoff(at, size) == BucketStart(at, size)

\* Variant: raw rows kept for the wrong period.
RawCutoff_WrongPeriod(w) ==
    completedBucketCutoff(startedAt[w] - FiveMinuteRetention, rawMetricsBucket)

RawCutoff(w) ==
    completedBucketCutoff(startedAt[w] - RawRetention, rawMetricsBucket)

\* Variant: the cutoff is aligned to the source's buckets, not the target's.
FiveMinuteCutoff_SourceAligned(w) ==
    completedBucketCutoff(startedAt[w] - FiveMinuteRetention, rawMetricsBucket)

FiveMinuteCutoff(w) ==
    completedBucketCutoff(startedAt[w] - FiveMinuteRetention, aggregatedMetricsBucket)

AggregatedCutoff(w) ==
    completedBucketCutoff(startedAt[w] - AggregatedRetention, aggregatedMetricsBucket)

Init ==
    /\ now \in Instants
    /\ servers = {}
    /\ metrics = {}
    /\ metrics_5m = [k \in FiveMinuteKeys |-> {}]
    /\ metrics_1h = [k \in HourKeys |-> {}]
    /\ pc = [w \in Workers |-> "idle"]
    /\ startedAt = [w \in Workers |-> now]
    /\ accepted = {}

-----------------------------------------------------------------------------
(* The environment: time, and the servers users register and delete.       *)

Tick ==
    /\ now' \in Instants
    /\ now' > now
    /\ UNCHANGED <<servers, metrics, metrics_5m, metrics_1h, pc, startedAt, accepted>>

CreateServer(v) ==
    /\ v \notin servers
    /\ servers' = servers \union {v}
    /\ UNCHANGED <<now, metrics, metrics_5m, metrics_1h, pc, startedAt, accepted>>

\* Variant: metrics_1h declared without ON DELETE CASCADE.
DeleteServer_NoCascade(v) ==
    /\ v \in servers
    /\ servers' = servers \ {v}
    /\ metrics' = {s \in metrics : s.server # v}
    /\ metrics_5m' = [k \in FiveMinuteKeys |-> IF k[1] = v THEN {} ELSE metrics_5m[k]]
    /\ accepted' = {s \in accepted : s.server # v}
    /\ UNCHANGED <<now, metrics_1h, pc, startedAt>>

\* One DELETE; every metric table references servers(id) ON DELETE CASCADE.
DeleteServer(v) ==
    /\ v \in servers
    /\ servers' = servers \ {v}
    /\ metrics' = {s \in metrics : s.server # v}
    /\ metrics_5m' = [k \in FiveMinuteKeys |-> IF k[1] = v THEN {} ELSE metrics_5m[k]]
    /\ metrics_1h' = [k \in HourKeys |-> IF k[1] = v THEN {} ELSE metrics_1h[k]]
    /\ accepted' = {s \in accepted : s.server # v}
    /\ UNCHANGED <<now, pc, startedAt>>

\* The insert of SaveMetrics.  validatePayload bounds collected_at from above
\* only; MaxAge is what senders and the network make of the lower bound.
SaveMetrics(s) ==
    /\ s.server \in servers
    /\ s.id \notin {a.id : a \in accepted}
    /\ s.at <= now + FutureSlack
    /\ s.at >= now - MaxAge
    /\ metrics' = metrics \union {s}
    /\ accepted' = accepted \union {s}
    /\ UNCHANGED <<now, servers, metrics_5m, metrics_1h, pc, startedAt>>

-----------------------------------------------------------------------------
(* Maintenance.                                                            *)

\* Maintain reads the clock once.  Any moment will do: it runs when a Core
\* starts, then on an hourly ticker.
Maintain(w) ==
    /\ pc[w] = "idle"
    /\ pc' = [pc EXCEPT ![w] = "downsampleRaw"]
    /\ startedAt' = [startedAt EXCEPT ![w] = now]
    /\ UNCHANGED <<now, servers, metrics, metrics_5m, metrics_1h, accepted>>

\* The raw rows downsampleRaw aggregates into the five-minute row k.
RawGroup(w, k) ==
    {s \in metrics : /\ s.at < RawCutoff(w)
                     /\ s.server = k[1]
                     /\ BucketStart(s.at, rawMetricsBucket) = k[2]}

\* Variant: the source rows are left behind.
downsampleRaw_KeepsSource(w) ==
    /\ pc[w] = "downsampleRaw"
    /\ metrics_5m' = [k \in FiveMinuteKeys |->
                        IF RawGroup(w, k) # {} THEN RawGroup(w, k) ELSE metrics_5m[k]]
    /\ pc' = [pc EXCEPT ![w] = "downsample5m"]
    /\ UNCHANGED <<now, servers, metrics, metrics_1h, startedAt, accepted>>

\* Variant: ON CONFLICT DO NOTHING.
downsampleRaw_DoNothing(w) ==
    /\ pc[w] = "downsampleRaw"
    /\ metrics_5m' = [k \in FiveMinuteKeys |->
                        IF metrics_5m[k] # {} THEN metrics_5m[k] ELSE RawGroup(w, k)]
    /\ metrics' = {s \in metrics : s.at >= RawCutoff(w)}
    /\ pc' = [pc EXCEPT ![w] = "downsample5m"]
    /\ UNCHANGED <<now, servers, metrics_1h, startedAt, accepted>>

\* INSERT ... SELECT ... GROUP BY ... ON CONFLICT DO UPDATE, then DELETE, in
\* one transaction.  On a conflict the excluded row wins.
downsampleRaw(w) ==
    /\ pc[w] = "downsampleRaw"
    /\ metrics_5m' = [k \in FiveMinuteKeys |->
                        IF RawGroup(w, k) # {} THEN RawGroup(w, k) ELSE metrics_5m[k]]
    /\ metrics' = {s \in metrics : s.at >= RawCutoff(w)}
    /\ pc' = [pc EXCEPT ![w] = "downsample5m"]
    /\ UNCHANGED <<now, servers, metrics_1h, startedAt, accepted>>

\* The samples of the five-minute rows downsample5m combines into the hour row h.
FiveMinuteGroup(w, h) ==
    UNION {metrics_5m[k] : k \in
            {k \in FiveMinuteKeys :
                /\ k[2] < FiveMinuteCutoff(w)
                /\ k[1] = h[1]
                /\ BucketStart(k[2], aggregatedMetricsBucket) = h[2]}}

\* The same from metrics_5m to metrics_1h; the columns are combined weighted by
\* sample_count, so the hour's row summarises the union of the moved rows.
downsample5m(w) ==
    /\ pc[w] = "downsample5m"
    /\ metrics_1h' = [h \in HourKeys |->
                        IF FiveMinuteGroup(w, h) # {} THEN FiveMinuteGroup(w, h)
                        ELSE metrics_1h[h]]
    /\ metrics_5m' = [k \in FiveMinuteKeys |->
                        IF k[2] < FiveMinuteCutoff(w) THEN {} ELSE metrics_5m[k]]
    /\ pc' = [pc EXCEPT ![w] = "deleteExpired"]
    /\ UNCHANGED <<now, servers, metrics, startedAt, accepted>>

\* Variant: the bucket at the cutoff goes too.
deleteExpired_Inclusive(w) ==
    /\ pc[w] = "deleteExpired"
    /\ metrics_1h' = [h \in HourKeys |->
                        IF h[2] <= AggregatedCutoff(w) THEN {} ELSE metrics_1h[h]]
    /\ pc' = [pc EXCEPT ![w] = "idle"]
    /\ UNCHANGED <<now, servers, metrics, metrics_5m, startedAt, accepted>>

\* DELETE FROM metrics_1h WHERE bucket_start < cutoff: the end of the run.
deleteExpired(w) ==
    /\ pc[w] = "deleteExpired"
    /\ metrics_1h' = [h \in HourKeys |->
                        IF h[2] < AggregatedCutoff(w) THEN {} ELSE metrics_1h[h]]
    /\ pc' = [pc EXCEPT ![w] = "idle"]
    /\ UNCHANGED <<now, servers, metrics, metrics_5m, startedAt, accepted>>

\* The next transaction fails and rolls back, or the process dies: maintainAt
\* returns without running the remaining ones.  A restarted Core calls
\* Maintain again.
MaintainStops(w) ==
    /\ pc[w] # "idle"
    /\ pc' = [pc EXCEPT ![w] = "idle"]
    /\ UNCHANGED <<now, servers, metrics, metrics_5m, metrics_1h, startedAt, accepted>>

Next ==
    \/ Tick
    \/ \E v \in Servers : CreateServer(v) \/ DeleteServer(v)
    \/ \E s \in Sample : SaveMetrics(s)
    \/ \E w \in Workers :
        \/ Maintain(w)
        \/ downsampleRaw(w)
        \/ downsample5m(w)
        \/ deleteExpired(w)
        \/ MaintainStops(w)

Spec == Init /\ [][Next]_vars

-----------------------------------------------------------------------------
(* Properties.                                                             *)

\* Every table holds rows of its kind and every worker is at a transaction of
\* maintainAt.
TypeOK ==
    /\ now \in Instants
    /\ servers \in SUBSET Servers
    /\ metrics \in SUBSET Sample
    /\ metrics_5m \in [FiveMinuteKeys -> SUBSET Sample]
    /\ metrics_1h \in [HourKeys -> SUBSET Sample]
    /\ pc \in [Workers -> {"idle", "downsampleRaw", "downsample5m", "deleteExpired"}]
    /\ startedAt \in [Workers -> Instants]
    /\ accepted \in SUBSET Sample

InFiveMinutes == UNION {metrics_5m[k] : k \in FiveMinuteKeys}
InHours == UNION {metrics_1h[h] : h \in HourKeys}

\* The samples some row of some table accounts for.
Stored == metrics \union InFiveMinutes \union InHours

\* No acknowledged sample is lost: until it is older than the longest retention
\* period, a raw row or an aggregate row accounts for it, wherever maintenance
\* runs of several processes have got to and wherever they were cut short.
Conservation ==
    \A s \in accepted : s.at >= now - AggregatedRetention => s \in Stored

\* No sample is counted twice: not in two tables, nor in two rows of a table.
\* Half a move (aggregated, not yet deleted) would show here.
CountedOnce ==
    /\ metrics \intersect InFiveMinutes = {}
    /\ metrics \intersect InHours = {}
    /\ InFiveMinutes \intersect InHours = {}
    /\ \A j, k \in FiveMinuteKeys : j # k => metrics_5m[j] \intersect metrics_5m[k] = {}
    /\ \A j, k \in HourKeys : j # k => metrics_1h[j] \intersect metrics_1h[k] = {}

\* The tables cover disjoint, ordered stretches of time: what is raw is newer
\* than every five-minute bucket, and those are newer than every hour.  This is
\* what "complete old buckets" in Maintain's comment means to a reader of the
\* tables: the bucket a row stands for has no samples left elsewhere.
BucketsComplete ==
    /\ \A s \in metrics, k \in FiveMinuteKeys :
        metrics_5m[k] # {} => s.at >= k[2] + rawMetricsBucket
    /\ \A s \in metrics, h \in HourKeys :
        metrics_1h[h] # {} => s.at >= h[2] + aggregatedMetricsBucket
    /\ \A k \in FiveMinuteKeys, h \in HourKeys :
        metrics_5m[k] # {} /\ metrics_1h[h] # {} => k[2] >= h[2] + aggregatedMetricsBucket

\* An aggregate, once written, is never rewritten: a row only ever disappears
\* (moved to the next table, expired, or deleted with its server).  The upserts'
\* ON CONFLICT branch is there and must never change a row's contents.
AggregatesFrozen ==
    [][/\ \A k \in FiveMinuteKeys :
            metrics_5m[k] # {} => metrics_5m'[k] \in {{}, metrics_5m[k]}
       /\ \A h \in HourKeys :
            metrics_1h[h] # {} => metrics_1h'[h] \in {{}, metrics_1h[h]}]_vars

\* A run of maintenance that reaches its end has enforced the retention periods
\* as of its start, whatever was saved, deleted or maintained by another process
\* meanwhile: no raw row, five-minute row or hour row is older than its period
\* plus the one bucket that had not completed.
RetentionEnforced ==
    [][\A w \in Workers : deleteExpired(w) =>
        /\ \A s \in metrics' :
            s.at >= startedAt[w] - RawRetention - rawMetricsBucket
        /\ \A k \in FiveMinuteKeys :
            metrics_5m'[k] # {} => k[2] >= startedAt[w] - FiveMinuteRetention - aggregatedMetricsBucket
        /\ \A h \in HourKeys :
            metrics_1h'[h] # {} => h[2] >= startedAt[w] - AggregatedRetention - aggregatedMetricsBucket]_vars

\* The samples u and s belong to one row of a table with buckets of this size.
SameRow(u, s, size) ==
    /\ u.server = s.server
    /\ BucketStart(u.at, size) = BucketStart(s.at, size)

\* Whoever sends, and however late: a sample goes only when it is past the longest
\* retention period, when its server is deleted, or when late samples of its bucket
\* are aggregated over it.  Those come from the next finer table and are in the row
\* afterwards, so that a raw row is never lost, a sample that has been moved is
\* never lost without another in its place, and other buckets are not touched.
LostOnlyByOverwriting ==
    [][\A s \in Stored \ Stored' :
        \/ s.at < now - AggregatedRetention
        \/ s.server \in servers \ servers'
        \/ /\ s \in InFiveMinutes
           /\ \E u \in metrics \intersect InFiveMinutes' : SameRow(u, s, rawMetricsBucket)
        \/ /\ s \in InHours
           /\ \E u \in InFiveMinutes \intersect InHours' : SameRow(u, s, aggregatedMetricsBucket)]_vars

\* Senders' clocks are right enough, and the network fast enough, for a sample to
\* arrive before its bucket is aggregated.  Without it an acknowledged sample
\* reopens a bucket that maintenance has already moved.
SendersOnTime == MaxAge <= RawRetention

\* The inductive invariant behind the properties, in parts.  Rows hold the
\* samples of their bucket and only acknowledged ones:
RowsPlaced ==
    /\ metrics \subseteq accepted
    /\ \A k \in FiveMinuteKeys : \A s \in metrics_5m[k] :
        s \in accepted /\ s.server = k[1] /\ BucketStart(s.at, rawMetricsBucket) = k[2]
    /\ \A h \in HourKeys : \A s \in metrics_1h[h] :
        s \in accepted /\ s.server = h[1] /\ BucketStart(s.at, aggregatedMetricsBucket) = h[2]

\* runs of maintenance started at a moment that has been,
StartsPast == \A w \in Workers : startedAt[w] <= now

\* (so far whoever sends, and however late)
AnySenderInv ==
    /\ TypeOK
    /\ RowsPlaced
    /\ StartsPast
    /\ CountedOnce

\* a bucket that has a row ended before the current raw retention period began,
RowsOld ==
    /\ \A k \in FiveMinuteKeys :
        metrics_5m[k] # {} => k[2] + rawMetricsBucket <= now - RawRetention
    /\ \A h \in HourKeys :
        metrics_1h[h] # {} => h[2] + aggregatedMetricsBucket <= now - RawRetention

\* and what a worker has moved stays moved, whatever is saved meanwhile.
WorkersAhead ==
    \A w \in Workers :
        /\ pc[w] \in {"downsample5m", "deleteExpired"} =>
            \A s \in metrics : s.at >= RawCutoff(w)
        /\ pc[w] = "deleteExpired" =>
            \A k \in FiveMinuteKeys : metrics_5m[k] # {} => k[2] >= FiveMinuteCutoff(w)

IInv ==
    /\ TypeOK
    /\ RowsPlaced
    /\ StartsPast
    /\ RowsOld
    /\ WorkersAhead
    /\ BucketsComplete
    /\ Conservation

\* The tables implement the store that just keeps what it acknowledged.
Store == INSTANCE SampleStore WITH stored <- Stored, Retention <- AggregatedRetention

\* Maintenance is invisible except for expiry: every step of the tables is a
\* step of SampleStore or leaves what is stored alone.
ImplementsStore == Store!Spec
=============================================================================
