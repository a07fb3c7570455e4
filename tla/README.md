# Tarisya in TLA+

Tarisya is a small self-hosted monitoring system. An *Agent* on every watched
machine sends a sample of its metrics to the *Core* once per interval; the Core
keeps the samples in one SQLite file, thins them out as they age, and serves them
to the *Console* in a browser. `tarisya backup`, `restore`, `migrate` and `doctor`
work on the same file.

This directory holds TLA+ modules of the parts of the Core where the order of
events decides whether data survives, of the Agent's loop, and of the parts of the
Console where it decides what a person sees; TLC configurations that check them on
small instances, and TLAPS proofs of the same properties for all instances. Everything
is translated from the Go, the SQL and the TypeScript under `src/`; `PROJECT.json`
gives, for every definition that models code, the file and lines it stands for.

    tlc -workers 2 -config MetricsTiers.cfg MCMetricsTiers    # check one run
    tlapm MetricsTiers_proofs.tla                             # check one set of proofs

## Inventory

What each component keeps, what it does, and what makes it correct. "Modelled in"
names the modules; components without one are in the plan or out of scope.

| Component | State | Operations | Modelled in |
|---|---|---|---|
| Metric tables and retention (`core/retention.go`, `core/store.go`) | tables `metrics`, `metrics_5m`, `metrics_1h` | `SaveMetrics`; `Maintain` = three transactions; cascade of a deleted server | `MetricsTiers`, `SampleStore` |
| Servers, API keys, ingestion (`core/store.go`, `core/http.go`) | `servers`, `server_api_keys`, requests in flight | create, delete, rotate, revoke, `Bootstrap`, `receiveMetrics` | `ServerKeys`, `KeyRegister` |
| Rate limiter (`core/rate_limit.go`) | a map of token buckets, the time of the last cleanup | `allow` | `RateLimiter`, `TokenBucket` |
| Database file and restore (`core/database_lock.go`, `core/database_admin.go`) | the file, `path-wal`, `path.lock`, staged files, pre-restore backups | `OpenStore`, `Close`, `RestoreDatabase` | `DatabaseLifecycle`, `RestorableDatabase` |
| Backup (`core/database_admin.go`) | the output file and its `.sha256` sidecar | `backupDatabase` and its cleanup | `Backup` |
| Database size limit (`core/store.go`, `core/retention.go`) | the sizes of file, log and index | the check before `SaveMetrics`, 507 | `SizeLimit` |
| Schema migration (`core/store.go`, `cmd/migrate`) | `schema_migrations` and the tables | `Migrate`, `RunMigration` up and down | `Migration` |
| Metrics queries (`core/store.go`, `core/http.go`) | none of their own | history pages, charts, server status | `MetricsHistory`, `MetricsChart`, status in `ConsoleHealth` |
| Authentication (`core/auth.go`, `core/http.go`) | `users`, session cookies | register, login with rehash, logout | the session as the Console meets it: `ConsoleSession`; the rest planned: `Sessions` |
| Agent (`agent/agent.go`) | ticker, one request | collect, send, time out | `Agent` |
| Console: cache (`console/src/features`) | queries, requests in flight | fetch, invalidate, succeed, fail | `QueryCache` |
| Console: session (`features/auth`, `login-page`, `nav-user`) | the cached user, route, forms | login, logout, redirects | `ConsoleSession` |
| Console: servers (`servers-page`, `components/servers`) | the list, dialogs | create, delete, rotate | `ConsoleServers`, `RotateKeyDialog` |
| Console: dashboard (`dashboard-page`, `components/dashboard`, `features/metrics`) | selection, cached answers | select, poll, chart, badges | `ConsoleDashboard`, `ConsoleHealth`, `MetricsChart` |
| Console: look (`theme-provider`, `ui/sidebar`, `lib/format`, `use-relative-time`) | theme, sidebar, clock | choose, toggle, tick | `ConsoleTheme`, `ConsoleSidebar`, `RelativeTime` |
| Installers (`scripts/*.sh`) | files, services | install, upgrade, roll back | planned: `Installer` |
| Core process (`cmd/core/main.go`) | | start order, maintenance loop, shutdown | inside `ServerKeys` and `MetricsTiers` |
| Configuration, doctor, packaging, embedded Console | read once, or none | | not modelled, see below |

How they interact. All of the Core's components share one SQLite file through a pool
of one connection per process, so within a process a statement or a transaction is
a step; several processes (two Cores, a Core and a command) are serialised by SQLite
per transaction. HTTP handlers run concurrently and meet in the rate limiter's mutex
and in the connection. The maintenance loop is one more goroutine of the Core.
Commands are processes of their own; the lifecycle lock, a file lock beside the
database, is shared for a Core and exclusive for what replaces or checks the file.
Agents and Consoles meet the Core only over HTTP, with timeouts on both ends.

What is hard, by component, and the properties that would catch it going wrong. The
full list, with the line where each hazard bites, is under "hazards" in
`PROJECT.json`.

- **Metric tables.** Maintenance moves rows between tables in three transactions that
  share one clock reading, may be cut short between any two, and may run in two
  processes with different readings while samples are saved. Its upserts replace a
  row that is there already. Correct means: no acknowledged sample is lost before
  its retention ends (`Conservation`), none is counted twice (`CountedOnce`), a
  bucket is aggregated only when it is complete (`BucketsComplete`), an aggregate is
  never rewritten (`AggregatesFrozen`), a finished run has enforced the periods
  (`RetentionEnforced`); together, that three tables behave as one store
  (`ImplementsStore`). With samples of any age, what is lost is overwritten by an upsert
  and never goes otherwise (`LostOnlyByOverwriting`).
- **Keys and ingestion.** The key is checked in one transaction and the sample is
  stored in another; rotation, revocation, deletion, a restart or a bootstrap with
  other settings fits in between. Correct means that keys behave as a register of them
  does (`ImplementsRegister`: a key keeps to its server, `KeysOnlyRetire`; a retired one
  lets nothing new in, `RevocationDrains`; nothing outlives its server, `NoOrphans`), that
  samples are those of the server as it is now (`SamplesFromOwnKeys`), that a rotation
  leaves no second key (`OneActiveKey`), and `LastSeenMonotone`.
- **Rate limiter.** The clock is read before the mutex is taken, and buckets are
  forgotten. Correct means that a client gains nothing by either
  (`ImplementsBucket`), that who waits for `Retry-After` is let through
  (`RetryHonoured`), and that the map does not grow for ever (`ForgetsIdleClients`).
- **Database file.** A restore is a sequence of file operations on a path to which
  connections may be open, with commits in a log beside it. Correct means that a
  Core never serves a file that was replaced (`CoresOnDatabase`, which the code does not
  satisfy, while a Core that serves the file keeps it, `ServingKeepsFile`), that a
  restore, wherever it fails or is killed, happens as a whole or not at all
  (`RestoresAtomically`) and that nothing goes unsaved (`NothingUnsavedGoes`).
- **Backup.** Two files are reserved, written, and removed by name when a step
  fails. Correct means that what is reported is complete (`BackupComplete`), a
  digest never lies beside another database (`SidecarMatches`), and files of others
  stay as they are (`ForeignKept`, which the code does not satisfy, while it does satisfy
  `ForeignOutputKept`).
- **Schema.** Cores that start together share the lifecycle lock and may all find an
  unversioned database; the backup comes before the transaction, and a migration down
  has no transaction. Correct means that a Core in service has its tables
  (`SchemaWhole`), that what a migration up changes was saved as it is at that
  moment (`MigrationSaved`; a migration down makes no backup), and that losing the
  race does not keep a Core down (`CoresComeUp`).
- **Charts.** Points and statistics are two statements, between which samples come and
  go; the range is chosen by the client, and how long raw samples are kept by the
  configuration. Correct means that a chart has all of its range (`ChartComplete`) and
  that no point is above the peak beside it (`PeakCovers`); together, `ChartFaithful`.
- **Size limit.** The size is compared before the transaction, and other requests, writes
  without a limit and maintenance get in between. Correct means that the limit is overshot
  by at most one sample per request in flight (`OvershootBounded`).
- **Agent.** A slow attempt makes ticks wait and be dropped; a request that was given up
  may still be stored. Correct means that "offline" has a reason
  (`OfflineMeansTrouble`), that a running Agent goes on (`NeverSilent`, which is proved)
  and that it does not catch up in bursts (`NoBursts`).
- **Session.** The Console knows of the cookie only by the answer of `/auth/me`, which
  may be of an earlier cookie; two pages redirect to each other on it. Correct means
  that a logout is final (`LoggedOutForgets`) and that the pages come to rest
  (`SessionSettles`).
- **Servers page.** Dialogs are closed, and rows come and go, while their requests are in
  flight; the list is cached, and a request for it may be older than a change. Correct
  means that a key is shown to who made it only (`ClosedDialogForgets`), that the list
  does not contradict what the person was told (`ListHasOwnChanges`), and that the key
  told last is the one that counts (`ToldKeyIsActive`).
- **Dashboard.** Answers for earlier selections arrive after the selection; polls fail.
  Correct means that what is shown is of what is selected (`ShownIsSelected`), goes
  forward only (`ShownNeverGoesBack`) and goes forward (`SamplesShown`), and that badge
  and cards, which have thresholds of their own, agree (`CardsAgreeWithHealth`).
- **Look.** Ages at the edges of their units and between two clocks (`LabelsExact`), a
  theme decided twice and changed from three sides (`NoFlash`), a sidebar with two
  states and one toggle (`ToggleIsSeen`).
- **History pages.** A page's cursor is a time while the order is by time and id, and
  rows come and go between pages. Correct means that pages never overlap
  (`PagesDescend`) and that who follows them to the end has missed nothing but ties
  (`OnlyTiesMissed`).

## The modules

### SampleStore and MetricsTiers

`SampleStore` is the promise: a set of samples; saving adds one, deleting a server
removes its own, and only samples past the longest retention period may go.

`MetricsTiers` is the implementation. A raw row is a sample; an aggregate row, at
its primary key (server, bucket start), is the set of samples its columns were
computed from, so that `sample_count` is a cardinality and the weighted averages of
`downsample5m` are a union. `downsampleRaw`, `downsample5m` and `deleteExpired` are
the three transactions of `maintainAt`, each whole (upsert and delete). The cutoffs
are computed as in the code, from the clock as `Maintain` read it, truncated to the
target's bucket. On a conflict the new group replaces the row, as
`DO UPDATE SET ... = excluded...` does. `MaintainStops` is an error return or the
end of the process; `Workers` are processes. `SaveMetrics` takes any sample that
`validatePayload` lets pass: `collected_at` at most five minutes ahead. The code has
no lower bound; `MaxAge` says how old samples can be when they arrive, which is up
to Agents' clocks and the network.

### KeyRegister and ServerKeys

`KeyRegister` is the promise: a key belongs to one server until that server is closed, a
retired key admits nothing any more, and a sample is stored only while its key belongs to
its server.

`ServerKeys` is one Core process against the tables `servers` and `server_api_keys`. Each
request of the Console is one step, since each runs one transaction; `receiveMetrics` is two
steps, `ReceiveMetrics` (`APIKeyValid`) and `SaveMetrics` or `SaveMetricsFails`. `Stop` ends
the process and what is in flight; `Start` comes back with or without bootstrap
settings, which may be others than last time. Per server the model keeps the keys its
stored samples were sent with, which is what attributing a sample is about. Deleted
rows take the rows that reference them along, as `ON DELETE CASCADE` does while
`PRAGMA foreign_keys` is on. A bootstrap on start installs a key, `receiveMetrics` past its
check is an admission of the register, `SaveMetrics` a `Store`; `Stop` drops them all.

### TokenBucket and RateLimiter

`TokenBucket` is the promise: every client has a bucket that never forgets and pays
for every request let through. `RateLimiter` is `allow`: `Arrive` reads the clock and
waits for the mutex; `Grant` and `Reject` are the rest, with cleanup, refill, charge
and `Retry-After`. Tokens are measured in the time they take to accrue, so refilling
is adding elapsed time, and Go's floating point is exact here. `level` is a history variable,
the bucket of the promise. It fills up at `Pace`: at 1, the limiter's own rate, for any
limit whose burst accrues before a client is forgotten, and faster for others
(`FullWhenForgotten`).

### RestorableDatabase and DatabaseLifecycle

`RestorableDatabase` is the promise: a set of rows that changes by commits and by
whole restores, each of which has saved what it replaces, none of which replaces the
database of a Core in service. It is also what the code does not promise: a Core
that opened the database before a restore becomes `"outdated"` by it, and if it gets up
all the same, `"stray"`. Only then may the database be torn, since the Core's connection
and the path's no longer share a file but share the name of its log.

`DatabaseLifecycle` has the files themselves, since a connection stays with the file
that the path named when it was opened. A Core opens its connection, then tries the
shared lock (in the code `PRAGMA database_list` on the pool's connection comes before
`TryRLock`), then commits to the log; the last close checkpoints. A restore is a
step per call in the order of `restoreDatabaseAt`: verify the backup and its sidecar,
open the target, take the exclusive lock, pre-restore backup, checkpoint and close,
stage, check what was staged, remove the sidecar files, rename. `ReturnOrDie` is any
of: success, an error at any step with the deferred cleanup, or a kill. What SQLite
and the operating system do (log, checkpoint at the last close, unlinked files stay
open, locks go with the process) is modelled as the code relies on it. No step of a
restore looks at Cores but through the lock, and no step of a Core waits for a restore: how
long a Core stays between the two calls of its start, or a restore between two of its
steps, is open. `Standing` is the refinement mapping of a Core. The file is
replaced as on POSIX; on Windows a file that is open cannot be replaced.

### Backup

Runs of `backupDatabase` on one output path: reserve the output, reserve the sidecar,
`VACUUM INTO` (begins with what is committed then, and takes a while), check and
digest the output, write the sidecar. `Fail` is an error at any of these, followed by
the deferred cleanup, file by file; `ReturnOrDie` is the return or a kill.
`MoveFiles` is a person with a file manager, while no run is under way.

### Migration

The tables that exist, which of some of them have contents, and the row of version 1.
`CreateMigrationsTable`, `ReadVersion`, `InspectObjects`, `BackUp` and `ApplySchema` are
the statements of `migrate` in order, each of which other Cores may get in between;
the transaction is one step. `ApplySchemaConflicts` is the primary key refusing a second
row of version 1, on which the process ends. `Drop` is one statement of the down
migration. `Fails` is an error or a kill anywhere. The lifecycle lock is the guards of
`OpenStore` and `RunMigration`: Cores share it, a command is alone. A database may start
empty or with some of the tables, but with the columns that the schema's indexes
need; with others `migrate` fails on every start.

### MetricsHistory

A client that reads the raw samples of a server page by page, with `before` set to the
`next_cursor` of the page before, while `SaveMetrics` inserts rows (in any order of
`collected_at`) and `downsampleRaw` deletes the oldest. `FetchPage` is the handler: one
query for a row more than the page shows. The page is stated as what
`ORDER BY collected_at DESC, id DESC LIMIT ?` returns (`IsPage`). The cursor's text
has nanoseconds and the column milliseconds, so it comes back as it was. `expected` is a
history variable: the rows that have been there since before the first page.

### MetricsChart

One request for a chart: `AskChart` is the handler's look at the server and the clock,
`ReadPoints` and `ReadStatistics` are the two statements, and samples are saved,
aggregated away and deleted between any of them. A row is its `collected_at`. `PointsOf`
is the `GROUP BY`, `Series` what `useMetricSeries` makes of the answer. Only the raw
table is read: the ranges that `metricsChart` takes end at 24 hours, and the aggregated
tables begin at seven days. `wanted` is a history variable: the samples of the range that
were there when the chart was asked for. `ChartAssumption` says that raw samples are kept
for as long as the longest range and the handler's delay. `LoadConfig` does not compare
the two: with the default of seven days it holds, with a configured one shorter than a range
the chart lacks samples that are in `metrics_5m` by then.

### Agent

`Run` with its ticker, whose channel holds one tick. Time passes in units, and `TimePasses`
is the only action that takes any: the Agent acts at once when it can. An attempt
(`collectAndSend`) collects nothing (`CollectFails`), or is sent and then stored, accepted,
refused, lost or ended by the HTTP client's timeout. What the Core has not read when the
Agent gives up it may store later (`CoreStoresLate`). There is no second attempt for a
sample. `AgentAssumption` is `OfflineThreshold >= Interval + 2 * Timeout`; with the
defaults 90 s, 15 s and 10 s it holds, but the first is the Core's configuration and the
others the Agent's, and nothing compares them.

### QueryCache

One query as `@tanstack/react-query` keeps it, from how the hooks use it: data, the status
of the last attempt, the request in flight. What the Console's behaviour depends on, and
easily surprises: a failed refetch keeps the data of the answer before, a fetch joins the
one in flight, also when it is asked for because of an invalidation without data, and
`setQueryData` does not cancel a request. The library is external to the repository. That
it drops data that nobody has looked at for a while is left out: what is shown then is
what is shown before the first answer.

### ConsoleSession

One tab: the cookie in the browser, the route with `location.state.from`, the query of
`useMe`, the mutations of login and logout, and whether their components are still
mounted. A request carries the cookie it was sent with. `RedirectToLogin` is
`ProtectedRoute`, `LeaveLogin` the redirect of `LoginPage`; both depend on the same query.
A failure of `/auth/me` that is not a 401 is thrown, nothing catches it, and the page is
empty (`crashed`) until it is loaded again. `Expire` ends the cookie and the token in it.

### ConsoleServers and RotateKeyDialog

`ConsoleServers` is the page of servers: the list as a query, `CreateServerDialog` and one
`DeleteServerDialog` per row, and a person who closes dialogs and changes pages while
creations, deletions and list requests are in flight. A dialog's mutation follows its last
request only; `reset()` lets go of it, as unmounting does. A request that the browser has
given up on (`"lost"`, `givenUp`) may be carried out by the Core later, `CreateStored` and
`DeleteStoredLate`, and its answer goes nowhere. Nobody else changes the servers.

`RotateKeyDialog` is the third dialog of a row, on its own since it shares nothing with
the list but that the row may go: a confirmation, a mutation that the row follows, and
the answer with the fields that `rotateServerAPIKey` writes. A rotation may fail for the
browser before the Core has committed it; the confirmation stays open for another try, and
the Core may commit the two in either order (`RotateStored` of a `"lost"` one). If it commits
the first one last, the key that the second one told is revoked. `ToldKeyIsActive` is
therefore about rotations at whose click no other one could still be stored (`alone`).

### ConsoleDashboard and ConsoleHealth

`ConsoleDashboard` is the selection (`?server=`, the list, the range) and one query of the
page with an entry per key: a polled one, which stands for the latest sample or the server's
detail, or the chart's. They differ in the key, the polling and what a failure shows, and
share the selection only, so a behaviour follows one of them. A request is answered for
the address it went to and stored under the key it was made for. `OpenDashboard` is the way
back to the page by the sidebar, a link or the history, with any `?server=` or none.

`ConsoleHealth` is the health of a server told twice: by the Core's `status` from its
configured thresholds, and by the cards from those of `config/metrics.ts`. The two are
separate requests and may be of different samples; a server may be online without a sample,
when maintenance has taken the last one (`SamplesExpire`: samples expire by when they were
collected, a server is seen when one is received). `ThresholdsAssumption` is what
`LoadConfig` checks, `0 <= warning < critical <= 100`. `CardsAgreeWithHealth` says, level
by level, what follows from which of the two thresholds is the greater: with the defaults
of 80 and 90 a server with a critical card is critical, but a card may be `warning` on a
healthy server, and a critical server may have a disk at 92 whose card is not critical.

### RelativeTime, ConsoleTheme and ConsoleSidebar

`RelativeTime` is `lib/format.ts` over the browser's clock in milliseconds, with the hook
that renders it anew. `LabelsExact` is stated against the reference: a label
stands for the ages from n units to the next. `ConsoleTheme` is the script of
`index.html`, `ThemeProvider` with its effect, the storage and another tab that writes to
it. `ConsoleSidebar` is `SidebarProvider`, its toggle and its cookie, which other tabs write
too and nothing reads, and which of the two states is rendered for the window there is.

### SizeLimit

`SaveMetrics` against the limit: `FindsRoom` is the comparison with `DatabaseSize`,
`StoreSample` the transaction, and requests in between are `passed`. A commit makes file or
log longer by up to `MaxGrowth`, or not at all; nothing makes them shorter while the Core
runs, since `Vacuum` has no caller, so a database that is full stays full until it is
opened anew (`Reopen`), when the log has gone or another database was restored.
`WriteOther` is every write without a check: accounts, servers, keys, maintenance.
`overshoot` is a history variable: the samples stored since the limit was reached.

### MCClients

The modules from `MetricsHistory` to here but `QueryCache` are what uses the Core's API,
from one side or the other, and the size limit; they share no variables. `MCClients`
checks them together: a behaviour is one of one `part`, and the others rest in a state
of their own, so that their states add up instead of multiplying. `Parts` says which parts
there are behaviours of: all of them in `clients`, and in `clients_live` the two with a
liveness property, as TLC's search for cycles is over the whole graph. Each module also has
a specification of its own, which is what the proofs are about.

### MCCore

`ServerKeys`, `RateLimiter` and `Backup` share no variables either; `MCCore` checks them
in one run in the same way. Requests, senders and backups have names in common, so that
one set of permutations serves as the symmetry of all parts.

## The runs

| Run | Properties | Instance | Shows |
|---|---|---|---|
| `tiers` | `Conservation`, `BucketsComplete`, `AggregatesFrozen`, `RetentionEnforced`, `ImplementsStore` | 2 servers, 2 samples, 2 processes, 7 moments | two processes may maintain while samples are saved; three tables are one store |
| `tiers_late` | `Conservation`, violated | as `tiers`, 1 server, 1 process, samples up to 20 minutes late | finding 1 |
| `tiers_any` | `CountedOnce`, `LostOnlyByOverwriting` | as `tiers`, samples of any age | late samples are not counted twice, and do no other harm than in `tiers_late` |
| `core` | of `ServerKeys`: `SamplesFromOwnKeys`, `OneActiveKey`, `LastSeenMonotone`, `ImplementsRegister` | 2 users, 2 servers, 4 keys (2 of bootstrap), 2 requests, 2 moments | check-then-store is safe against everything that fits in between |
| | of `RateLimiter`: `ForgetsIdleClients`, `RetryHonoured`, `ImplementsBucket` | 2 clients, 2 calls, burst 1, 8 units | forgetting and stale readings gain nothing, forgetting happens, `Retry-After` can be relied on |
| | of `Backup`: `BackupComplete`, `SidecarMatches`, `ForeignOutputKept` | 3 runs, 2 commits | what is reported is complete, outputs of others stay |
| `lifecycle` | `RestoresAtomically`, `ServingKeepsFile`, `NothingUnsavedGoes` | 2 Cores, 2 restores, 3 files, 1 row | restores are whole, leave Cores in service alone, and save what they replace |
| `lifecycle_start` | `CoresOnDatabase`, violated | 1 Core, 1 restore, 3 files, 1 row | finding 2 |
| `backup_foreign` | `ForeignKept`, violated | 1 run | finding 3 |
| `migration` | `SchemaWhole`, `MigrationSaved`, `CoresComeUp` | 2 Cores, 1 command, 2 tables with contents, 4 initial schemas, 2 faults, migrations down complete | Cores that race to migrate lose nothing, and come up |
| `migration_cut` | `SchemaWhole`, violated | as `migration`, 1 table with contents, 1 fault, any migration down | finding 4 |
| `clients` | of `MetricsHistory`: `OnlyTiesMissed`, `PagesDescend` | 3 moments, 3 ids, pages of 1 and 2 | pages tile the history, but for ties |
| | of `MetricsChart`: `ChartFaithful` | ranges of 2 and 4, retention 5, buckets of 2, delay 1, clock to 7, 2 rows | a chart is complete, and below its peak |
| | of `SizeLimit`: `OvershootBounded` | 3 senders, limit 3, growth 0 to 2, sizes to 5 | the limit is overshot once per request in flight |
| | of `Agent`: `OfflineMeansTrouble`, `NoBursts` | interval 2, timeout 3, threshold 8 | attempts slower than the interval do no harm |
| | of `ConsoleSession`: `LoggedOutForgets` | 2 users | a logout is final |
| | of `ConsoleServers`: `ClosedDialogForgets`, `ListHasOwnChanges` | 2 creations | late answers neither show nor hide what they should not |
| | of `RotateKeyDialog`: `ToldKeyIsActive` | 3 rotations | the key told last is the active one |
| | of `ConsoleDashboard`: `ShownIsSelected`, `ShownNeverGoesBack` | 2 servers, 2 ranges, 2 samples, 1 failure, 2 requests in flight | late answers stay where they belong |
| | of `ConsoleHealth`: `CardsAgreeWithHealth` | usages 69, 80, 95 for each metric, 2 samples, thresholds 80 and 90 or 70 and 95 | badge and cards contradict each other on a sample only where their thresholds do |
| | of `RelativeTime`: `LabelsExact` | moments on both sides of every change of unit, and before 0 | labels mean what they say |
| | of `ConsoleTheme`: `NoFlash` | 3 choices, 2 looks of the system | script and provider decide alike |
| `clients_live` | of `ConsoleSession`: `SessionSettles` | as in `clients` | redirects end |
| | of `ConsoleDashboard`: `SamplesShown` | as in `clients` | polling goes on |
| `console_rotate` | `RotatedKeyShown`, violated | 2 rotations | finding 5 |

Type invariants (`TypeOK` and the like, one per module) are conjuncts of the inductive
invariants and proved for every instance; the runs do not repeat them.

Why the bounds are enough. Everything that goes wrong between actors here goes wrong
between two of them (two processes that maintain, two requests, two restores), and
`Backup` gets a third because two runs can already leave a path that a third meets; in
`core` the parts do not meet, so each has the bounds it would have alone. In
`MetricsTiers` the periods are 10, 60 and 120 minutes and the moments are chosen to put
samples in one five-minute bucket, in two of an hour, and in different hours, with
cutoffs inside a bucket and on its edge; the clock runs until rows expire. In
`ServerKeys` two moments suffice for "earlier" and "later". In `RateLimiter` the burst
accrues exactly when a client may be forgotten (`Capacity = ClientTTL - 2 * MaxWait`),
and a token does not take whole seconds, so that `Retry-After` is rounded. In
`DatabaseLifecycle` three files are enough for a path that was replaced twice while one
Core is still connected to the first file and one to the second; with a fourth, for the
staged copy of one more restore meanwhile, the properties hold too. In `Migration` one command
suffices, since commands are alone, and may run again and again. In `MetricsHistory`
three rows make three pages, or a full one and a rest, two of them may share a moment,
and three moments are one on each side of a cursor. In `MetricsChart` one row is inside
a range while the other is on its edge, and the clock runs until rows of a range are old
enough to go; in `Agent` the timeout is longer than the interval, so that ticks are
dropped, and the threshold is exactly what the assumption asks for. In `SizeLimit` the
growth is enough to pass the limit from below it while all three senders are in flight.
Two creations or selections are an earlier and a later one, and the third rotation is
the one that an earlier mount of the row left in flight. `ConsoleHealth` has a usage in
each band and on edges of both sets of thresholds, and configured thresholds on either side
of the cards'. Files, processes, requests
and the like are symmetric (symmetry is off in `migration`, `clients` and
`clients_live`). All the safety properties of the passing runs are also proved, for every
instance; the mutants in `PROJECT.json` show for each that a plausible slip in the code
breaks it within the bounds of its run.

Deadlock is checked in every run: in all of these systems something can always happen.
The last moment of a bounded clock is no exception, since starts, stops and calls go on.

Fairness is assumed in two runs. In `migration`, `FairSpec` says that a Core which
failed is started again (`Restart=on-failure` with `RestartSec=5s` in
`packaging/systemd/tarisya-core.service`) and that a Core in `migrate` takes its next step.
Nothing is assumed of commands, which nobody has to run, so `CoresComeUp` speaks of
behaviours in which they end for good; faults are bounded by `MaxFaults`, as a Core that
is killed on every start never serves. It says `[]<>` rather than `<>[]`, since a Core
in service may be stopped and started at will.

In `clients_live` (`ClientsFairness`, the fairness of the session's and the dashboard's
specifications): requests end, which `fetch` and the browser's network see to, with an
answer or an error, never with a particular one (`AnswerMe`, `CoreReads`, `Arrive(q) \/
Lose(q)`); `refetchInterval` ends (`Ask`), which supposes a visible tab, as polling pauses in
a hidden one; and React carries out the navigation of a
page it has rendered (`RedirectToLogin`, `LeaveLogin`). The last two are strong, as a
person who keeps going elsewhere can disable them again and again, but is not always
faster than a render. Nothing is assumed of the person or of the Core's answers:
`SamplesShown` allows for failures, bounded by `MaxLost`, and `SessionSettles` for an
empty page.

The other properties are safety.
`ForgetsIdleClients` and `RetentionEnforced` are stated as what a call or a finished run
has achieved, not as what eventually happens: the code gives no guarantee that a call
comes, and a run of maintenance may fail for ever.

## Findings

1. **Late samples overwrite aggregates** (`tiers_late`). A sample that arrives after
   its bucket was aggregated is stored as a raw row. The next `downsampleRaw` computes
   the bucket's row from it alone, and the upsert's `excluded` values replace the row
   that stood for the earlier samples. `Maintain`'s comment (`retention.go:24`) speaks
   of *complete* old buckets; nothing makes a bucket complete, as `validatePayload`
   bounds `collected_at` from above only. With samples at most one raw retention
   period late (`SendersOnTime`) it does not happen, which is proved. With the default
   of seven days that takes an Agent whose clock is a week behind. Whoever sends, it is
   the only way in which a sample goes too early, which is proved too
   (`LostOnlyByOverwriting`).
2. **A Core can come up on a replaced file** (`lifecycle_start`). `acquireDatabaseLock`
   asks SQLite for the database's path, which opens the file, and then tries the lock. A
   restore that has the lock in between, whether it took it before the Core opened the file
   or after, leaves the Core with a shared lock and a connection to the file that was
   replaced. What the Core commits then goes to a file without a name, or to the new one's
   log. Nothing in the code excludes it, however short a start is. A Core that is up on the
   file keeps it, and what a restore takes away is in its pre-restore backup: both are
   proved, as is that such a Core is the only way to tear the database
   (`RestoresAtomically`).
3. **A backup's cleanup removes a sidecar it did not create** (`backup_foreign`). The
   comment of `BackupDatabase` says existing output files are never overwritten. The
   cleanup is armed before the sidecar is reserved, so a run that fails *because* the
   sidecar exists removes it. An output that exists is kept in any case, although it is
   removed by name too, and a sidecar is never overwritten; both are proved
   (`ForeignOutputKept`).
4. **A migration up does not repair a migration down that was cut short**
   (`migration_cut`). Its
   statements run one by one, without a transaction or a backup. If one fails, or the
   process is killed after the first, version 1 is still recorded, because
   `schema_migrations` goes last. `migrate` returns at once from then on, and a Core serves
   without the tables that are gone. A test is named after the opposite
   (`TestFailedMigrationLeavesDatabaseAtPreviousVersionAndKeepsBackup`), which holds of
   migrations up. With `DownsComplete` it does not happen, which is proved.
5. **A rotated key is shown nowhere** (`console_rotate`). `RotateApiKeyDialog` says that
   the new key is shown once and takes `data.agent_config` of the answer, as
   `types/server.ts` declares it. `rotateServerAPIKey` answers with `server_id`, `api_key`
   and `core_url`. The dialog opens without a field, the old key is revoked, and the Agent
   is locked out; another rotation does no better.

## The proofs

Each `*_proofs` module extends its component and ends in theorems
`Spec => []Invariant`, `Spec => [][Action]_vars` or `Spec => Abstract!Spec`. The
properties are seldom inductive; each component's module defines `IInv`, or several
invariants named for what they say, the conjunction of the properties and of named parts
that say why they hold. Each proof is `Init => IInv`, one lemma per action for
`IInv /\ Next => IInv'` (per conjunct where it takes work), and the action properties and
refinements from `IInv`. An assumption is made by the theorems that need it only.

- **MetricsTiers.** Two invariants. `AnySenderInv` holds whoever sends: `RowsPlaced`, rows
  hold acknowledged samples of their own bucket, `StartsPast`, and `CountedOnce`. Proved
  from it: `TypeCorrect`, `RowsHoldTheirBucket`, `NoSampleCountedTwice` and
  `LossesAreOverwrites`, which says exactly what a late sample can destroy. `IInv` adds
  what needs senders to be on time. `RowsOld`: a bucket with a row ended before the
  current raw retention period began; a sample that is saved is then newer than every
  aggregated bucket. `WorkersAhead`: what a worker has moved stays moved. With these an
  upsert never meets a row with anything in it, so moves lose nothing. Proved:
  `NoSampleLost`, `TiersOrdered`, `AggregatesNeverRewritten`,
  `MaintenanceEnforcesRetention`, `TiersImplementStore`. Assumed: `SendersOnTime` for
  these, and for all the order of the periods that `maintainAt` insists on.
- **ServerKeys.** `RowsDrawn`: what has a row was set or drawn before.
  `RequestsCurrent`: a request past the check finds the key's row under the server it
  checked, or neither; it rests on identifiers not being drawn twice and on
  `Bootstrap` running only while nothing is in flight. `LastSeenPast`. Proved:
  `TypeCorrect`, `KeysAndSamplesHaveServers`, `SamplesFiledCorrectly`,
  `RotationLeavesOneKey`, `KeysRetireForGood`, `RevocationTakesHold`,
  `LastSeenNeverGoesBack`, and `KeysImplementRegister`. For the last, each action is matched
  with one of `KeyRegister`: `RequestsCurrent` is why `SaveMetrics`, which looks for the
  server's row and never at the key again, is a `Store`, and why a server that is created
  or bootstrapped is not one that a request under way would store for. Assumed: random
  identifiers and keys do not repeat, one process, and a clock that does not go back (the
  code stores wall-clock times).
- **RateLimiter.** Three invariants, by what they need. `CallInv` needs nothing:
  `CallsRecent` and `TimesOrdered` bound how far readings, refills and cleanups are apart,
  and `PromisesCovered` relates a bucket to the time a client was told. Proved from it:
  `TypeCorrect` and `RetryAfterHonoured`, for any limit and any wait. `SeenSinceCleanup`
  needs `WaitsAreShort` and gives `IdleClientsForgotten`. `LevelCovers` relates the
  limiter's bucket to the one that never forgets and gives `LimitEnforced`, from
  `FullWhenForgotten`. That one is tight: a limit whose burst takes longer to accrue than a
  client is remembered, which `LoadConfig` accepts, is not kept at `Pace` 1, since a client
  gains by being forgotten. The theorem then says what is kept instead: the same burst at
  the smallest `Pace` that fills it by the time a client is forgotten.
- **DatabaseLifecycle.** `LockInv`: the lock is held when a restore is past it, its staged
  file is no one else's and sound once checked, and the pre-restore backup has what the path
  still holds. `NoneOnStaged`: no Core is connected to a file that is being staged, so that a
  restore never makes an outdated Core a current one. Proved: `TypeCorrect`,
  `ServingCoresKeepTheFile`, `WhatGoesWasSaved`, and `RestoreIsAtomic`, for which each action
  is matched with one of `RestorableDatabase`. Assumed: nothing of how long anything takes.
- **Backup.** `OneHolder`, `OutputReserved`, `NoDigestYet` and `SnapshotRecent`: at
  most one run is between its reservation and its return with the output as it left it,
  the sidecar has no digest until that run writes it, and a snapshot is not older than
  the run. Proved: `TypeCorrect`, `BackupsAreComplete`, `SidecarsMatch` and
  `ForeignOutputsAreKept`, for which a run that removes the output by name is the one that
  holds it.
- **Migration.** `CommandsAlone`: a command under way excludes everyone.
  `VersionTrue`: version 1 is only there with all tables, but for a migration down under
  way. `BackedUp`: no one serves while there is no version, so what a process has
  backed up is still what is there when it migrates. Proved: `TypeCorrect`,
  `MigrationsAreSaved`, and with `DownsComplete`, `CoresHaveTheirTables`.
- **The clients** (`Clients_proofs`, except `MetricsHistory`). Most parts are inductive
  with a strengthening of a line or two. `AgentInv`: `TicksInv`, where in the interval a
  tick that waits fell, and `SeenInv`, how far the last sight of the server is behind the
  last attempt. `ChartInv`: `WantedThere`, `PointsThere` and `WantedHasPoint`, that
  maintenance has taken nothing of the range whenever it started, and what was read is
  still there at the second statement. `ServersInv`: `ClosedDialogIsNew`,
  `SeenWereStored`, `DeletedAreGone`, `ListWasThere` and `AnswerHasOwnChanges`, that an
  answer on its way has what the person was told already, since the invalidation replaces
  a request that was there before. `DashInv`: `AnswersMatch` and `SamplesInOrder`.
  `SessionInv`: `LoggedOutAsksForNobody`. `RotateInv`: `AloneStaysAlone`. `SizeInv`:
  `OvershootCovered`, that a request which has found room counts already. The theorems are
  named in `PROJECT.json`. Assumed: `AgentAssumption`, `ChartAssumption` and
  `ThresholdsAssumption` for what they are named after. `ToldKeyIsActive` is about rotations
  at whose click no other one of the row could still be stored (`alone`).
- **MetricsHistory.** `ReceivedNotOlder` and `MissingOlder`: the cursor separates what
  has been received from what has not, but for ties. Proved: `TypeCorrect`,
  `HistoryComplete`, `HistoryDescends`, for any page sizes.

Proved and not in a run, besides the types: `NoOrphans`, `KeysOnlyRetire` and
`RevocationDrains`, which follow from `ImplementsRegister` or nearly so, `RowsPlaced`,
`ToggleIsSeen`, `NeverSilent` and `AgeNeverShrinks`. Only TLC shows the five violations, which are
about instances, and `CoresComeUp`, `SessionSettles` and `SamplesShown`: liveness under
fairness is out of the prover's reach, as are `ENABLED`, induction over data and
`RECURSIVE` operators; of the latter nothing here needs any so far.

## What is abstracted

Column values, names, messages, hashes, logging, formatting. SQLite's transactions are
atomic and durable, its foreign keys are enforced on the Core's one connection.
Random identifiers and secrets never repeat. Clocks do not go back, and floating point
is exact. An API key is its hash. In the Console the retries of one fetch are one request,
and a page is what decides which of its parts are rendered.

Not modelled, and not planned: the Core's configuration (a sequence of independent
checks; what the models need of it is an `ASSUME`), doctor (reads and reports; the
commands that change state are modelled), packaging, the embedded Console and build
information (no state), password hashing and JWT encoding (pure computation), charts of
the aggregated tables (no range is long enough to read them). Of the Console: the
components under `ui/` that pass properties to a library, rendering, the open state of
menus, the timer and the clipboard of a copied field, the other polled queries'
intervals, and that an invalidation of the servers by the prefix of its key also
refetches the details of the server on the dashboard, which are polled anyway.

Hazards without a property: an Agent and a Core that are configured not to match, a raw
retention shorter than a chart's range (both excluded by an `ASSUME`, and both go wrong
without it), the user of a new login under a late answer of the old one, what else the
Console caches beyond a logout, a rotation that is committed after the browser has given
it up. A session that has ended goes on being shown as well: a 401 of a
refetch leaves the user of the answer before in the cache, so `ProtectedRoute` redirects
nobody although the comment of `useMe` treats a 401 as not logged in. `ConsoleSession`
has the behaviour; there is no text that says what the Console should do then. The hazards
in `PROJECT.json` without a property say why in a note.

## Plan

The order is by what a mistake would cost. The modules described above are done.

1. `RunMigration`, `CheckDatabase` and online backups as further actors of
   `DatabaseLifecycle`, so that the lock which `Migration` takes as given is the one
   modelled there; `Backup`'s output as the backup that a restore reads.
2. `Sessions`: register, login with rehash, bootstrap's password, in the Core; composed
   with `ConsoleSession`.
3. `Agent` composed with `ServerKeys`' ingestion: "at most one row per tick" as the
   abstract specification.
4. The graceful shutdown of the Core with its timeout, and requests in flight.
5. `Installer`: steps and rollback.

Theorems to come: the lock's exclusion with all its actors in `DatabaseLifecycle`, an
abstract specification of a migration that `Migration` implements (versions and schemas
change together, after a backup), and "at most one row per tick" for `Agent` composed
with ingestion.
