------------------------------ MODULE ServerKeys ------------------------------
(***************************************************************************)
(* Servers, their API keys and the ingestion of metrics, as the handlers   *)
(* of one Core process run against the SQLite store.                       *)
(*                                                                         *)
(* The connection pool holds one connection, so a statement or a           *)
(* transaction is a step.  The handlers of the Console's requests run one  *)
(* transaction each; receiveMetrics runs two, APIKeyValid and then         *)
(* SaveMetrics, with anything in between.  The process may stop at any     *)
(* point; it comes back with Migrate, Maintain and Bootstrap behind it,    *)
(* before it serves requests again.                                        *)
(***************************************************************************)
EXTENDS Integers, FiniteSets

CONSTANTS
    Users,              \* registered accounts
    Servers,            \* server identifiers
    Keys,               \* API keys; a row stores the hash, which is as good
    Senders,            \* requests of Agents that can be in flight at once
    BootstrapServers,   \* what TARISYA_BOOTSTRAP_SERVER_ID is set to, over time
    BootstrapKeys,      \* what TARISYA_BOOTSTRAP_API_KEY is set to, over time
    NoUser, NoServer,   \* "no row"
    MaxClock            \* bound on the clock

ASSUME NoRowAssumption == NoUser \notin Users /\ NoServer \notin Servers

\* Names set by an operator are not ones the Core draws at random.
ASSUME BootstrapAssumption ==
    BootstrapServers \subseteq Servers /\ BootstrapKeys \subseteq Keys

ASSUME MaxClockAssumption == MaxClock \in Nat \ {0}

VARIABLES
    clock,          \* the wall clock
    up,             \* the Core serves requests
    owner,          \* servers.user_id, or NoUser when the row is not there
    lastSeenAt,     \* servers.last_seen_at; 0 stands for NULL
    keyServer,      \* server_api_keys.server_id by key, or NoServer: no row
    keyRevoked,     \* server_api_keys.revoked_at is not NULL; FALSE without row
    metrics,        \* per server, the keys its stored samples were sent with
    drawn,          \* history: the identifiers and keys used so far
    inFlight        \* per request: nothing, or the sample APIKeyValid let pass

store == <<owner, lastSeenAt, keyServer, keyRevoked, metrics>>
vars == <<clock, up, owner, lastSeenAt, keyServer, keyRevoked, metrics, drawn, inFlight>>

\* A request past APIKeyValid remembers the sample's server, the key it came with
\* and when it passed.
Idle == [pc |-> "idle"]

Checked(v, k) == [pc |-> "checked", server |-> v, key |-> k, since |-> clock]

\* A server's row exists.
Registered(v) == owner[v] # NoUser

\* APIKeyValid: a row of this server, with this key, not revoked.
APIKeyValid(v, k) == keyServer[k] = v /\ ~keyRevoked[k]

ActiveKeys(v) == {k \in Keys : APIKeyValid(v, k)}

Init ==
    /\ clock = 1
    /\ up = FALSE
    /\ owner = [v \in Servers |-> NoUser]
    /\ lastSeenAt = [v \in Servers |-> 0]
    /\ keyServer = [k \in Keys |-> NoServer]
    /\ keyRevoked = [k \in Keys |-> FALSE]
    /\ metrics = [v \in Servers |-> {}]
    /\ drawn = {}
    /\ inFlight = [r \in Senders |-> Idle]

-----------------------------------------------------------------------------
(* The process and the clock.                                              *)

ClockTick ==
    /\ clock < MaxClock
    /\ clock' = clock + 1
    /\ UNCHANGED <<up, store, drawn, inFlight>>

\* The process ends, by shutdown or otherwise; its handlers end with it.
Stop ==
    /\ up
    /\ up' = FALSE
    /\ inFlight' = [r \in Senders |-> Idle]
    /\ UNCHANGED <<clock, store, drawn>>

\* Store.Bootstrap: the server is created or handed to the configured user; the
\* key is inserted, and a row that is there already is left alone.
Bootstrap(u, v, k) ==
    /\ owner' = [owner EXCEPT ![v] = u]
    /\ keyServer' = [keyServer EXCEPT ![k] = IF @ = NoServer THEN v ELSE @]
    /\ UNCHANGED <<lastSeenAt, keyRevoked, metrics>>

\* main: with bootstrap settings or without, then the HTTP server starts.
Start ==
    /\ ~up
    /\ up' = TRUE
    /\ \/ /\ UNCHANGED <<store, drawn>>
       \/ \E u \in Users, v \in BootstrapServers, k \in BootstrapKeys :
            /\ Bootstrap(u, v, k)
            /\ drawn' = drawn \union {v, k}
    /\ UNCHANGED <<clock, inFlight>>

-----------------------------------------------------------------------------
(* The Console's requests: one transaction each.  What authenticateUser    *)
(* established is u; a server that is not u's reads as not found and       *)
(* changes nothing.                                                        *)

\* createServer: randomHex and randomSecret never repeat.
CreateServer(u, v, k) ==
    /\ up
    /\ v \notin drawn \union BootstrapServers
    /\ k \notin drawn \union BootstrapKeys
    /\ owner' = [owner EXCEPT ![v] = u]
    /\ keyServer' = [keyServer EXCEPT ![k] = v]
    /\ drawn' = drawn \union {v, k}
    /\ UNCHANGED <<clock, up, lastSeenAt, keyRevoked, metrics, inFlight>>

\* deleteServer: one DELETE, which cascades to the keys and the metrics.
DeleteServer(u, v) ==
    /\ up
    /\ owner[v] = u
    /\ owner' = [owner EXCEPT ![v] = NoUser]
    /\ lastSeenAt' = [lastSeenAt EXCEPT ![v] = 0]
    /\ keyServer' = [k \in Keys |-> IF keyServer[k] = v THEN NoServer ELSE keyServer[k]]
    /\ keyRevoked' = [k \in Keys |-> keyServer[k] # v /\ keyRevoked[k]]
    /\ metrics' = [metrics EXCEPT ![v] = {}]
    /\ UNCHANGED <<clock, up, drawn, inFlight>>

\* UPDATE server_api_keys SET revoked_at ... WHERE server_id = v AND revoked_at
\* IS NULL.
RevokedWith(v) == [k \in Keys |-> keyRevoked[k] \/ keyServer[k] = v]

\* Variant: the previous key is left active.
RotateAPIKey_KeepsPrevious(u, v, k) ==
    /\ up
    /\ owner[v] = u
    /\ k \notin drawn \union BootstrapKeys
    /\ keyServer' = [keyServer EXCEPT ![k] = v]
    /\ drawn' = drawn \union {k}
    /\ UNCHANGED <<clock, up, owner, lastSeenAt, keyRevoked, metrics, inFlight>>

\* rotateServerAPIKey: revoke every active key, insert the new one.
RotateAPIKey(u, v, k) ==
    /\ up
    /\ owner[v] = u
    /\ k \notin drawn \union BootstrapKeys
    /\ keyRevoked' = RevokedWith(v)
    /\ keyServer' = [keyServer EXCEPT ![k] = v]
    /\ drawn' = drawn \union {k}
    /\ UNCHANGED <<clock, up, owner, lastSeenAt, metrics, inFlight>>

\* revokeServerAPIKey: idempotent.
RevokeAPIKey(u, v) ==
    /\ up
    /\ owner[v] = u
    /\ keyRevoked' = RevokedWith(v)
    /\ UNCHANGED <<clock, up, owner, lastSeenAt, keyServer, metrics, drawn, inFlight>>

-----------------------------------------------------------------------------
(* receiveMetrics.                                                         *)

\* Variant: revoked_at is not looked at.
ReceiveMetrics_IgnoresRevoked(r, v, k) ==
    /\ up
    /\ inFlight[r] = Idle
    /\ keyServer[k] = v
    /\ inFlight' = [inFlight EXCEPT ![r] = Checked(v, k)]
    /\ UNCHANGED <<clock, up, store, drawn>>

\* A payload for server v with bearer token k passes APIKeyValid.  (Without a
\* valid key it is answered 401 and nothing changes.)
ReceiveMetrics(r, v, k) ==
    /\ up
    /\ inFlight[r] = Idle
    /\ APIKeyValid(v, k)
    /\ inFlight' = [inFlight EXCEPT ![r] = Checked(v, k)]
    /\ UNCHANGED <<clock, up, store, drawn>>

\* Variant: metrics.server_id does not reference servers(id).
SaveMetrics_NoReference(r) ==
    LET v == inFlight[r].server IN
    /\ inFlight[r].pc = "checked"
    /\ metrics' = [metrics EXCEPT ![v] = @ \union {inFlight[r].key}]
    /\ lastSeenAt' = [lastSeenAt EXCEPT ![v] = IF Registered(v) THEN clock ELSE @]
    /\ inFlight' = [inFlight EXCEPT ![r] = Idle]
    /\ UNCHANGED <<clock, up, owner, keyServer, keyRevoked, drawn>>

\* Variant: the clock is read before the transaction waits for the connection.
SaveMetrics_EarlyClock(r) ==
    LET v == inFlight[r].server IN
    /\ inFlight[r].pc = "checked"
    /\ Registered(v)
    /\ metrics' = [metrics EXCEPT ![v] = @ \union {inFlight[r].key}]
    /\ lastSeenAt' = [lastSeenAt EXCEPT ![v] = inFlight[r].since]
    /\ inFlight' = [inFlight EXCEPT ![r] = Idle]
    /\ UNCHANGED <<clock, up, owner, keyServer, keyRevoked, drawn>>

\* SaveMetrics commits: the insert needs the server's row (the foreign key), and
\* last_seen_at is the clock as read once the transaction holds the connection.
SaveMetrics(r) ==
    LET v == inFlight[r].server IN
    /\ inFlight[r].pc = "checked"
    /\ Registered(v)
    /\ metrics' = [metrics EXCEPT ![v] = @ \union {inFlight[r].key}]
    /\ lastSeenAt' = [lastSeenAt EXCEPT ![v] = clock]
    /\ inFlight' = [inFlight EXCEPT ![r] = Idle]
    /\ UNCHANGED <<clock, up, owner, keyServer, keyRevoked, drawn>>

\* SaveMetrics fails and rolls back: the server is gone, the database is full or
\* the client hung up.  The Agent gets 500 or 507, or nothing.
SaveMetricsFails(r) ==
    /\ inFlight[r].pc = "checked"
    /\ inFlight' = [inFlight EXCEPT ![r] = Idle]
    /\ UNCHANGED <<clock, up, store, drawn>>

Next ==
    \/ ClockTick
    \/ Stop
    \/ Start
    \/ \E u \in Users, v \in Servers, k \in Keys :
        \/ CreateServer(u, v, k)
        \/ RotateAPIKey(u, v, k)
    \/ \E u \in Users, v \in Servers : DeleteServer(u, v) \/ RevokeAPIKey(u, v)
    \/ \E r \in Senders, v \in Servers, k \in Keys : ReceiveMetrics(r, v, k)
    \/ \E r \in Senders : SaveMetrics(r) \/ SaveMetricsFails(r)

Spec == Init /\ [][Next]_vars

-----------------------------------------------------------------------------
(* Properties.                                                             *)

\* The tables and the requests in flight are well typed.
TypeOK ==
    /\ clock \in 1 .. MaxClock
    /\ up \in BOOLEAN
    /\ owner \in [Servers -> Users \union {NoUser}]
    /\ lastSeenAt \in [Servers -> 0 .. MaxClock]
    /\ keyServer \in [Keys -> Servers \union {NoServer}]
    /\ keyRevoked \in [Keys -> BOOLEAN]
    /\ metrics \in [Servers -> SUBSET Keys]
    /\ drawn \in SUBSET (Servers \union Keys)
    /\ inFlight \in [Senders -> {Idle} \union
            [pc : {"checked"}, server : Servers, key : Keys, since : 1 .. MaxClock]]

\* The inductive invariant behind the properties, in parts.  What has a row was
\* set or drawn at some time, and a key without row is not revoked;
RowsDrawn ==
    /\ \A v \in Servers : Registered(v) => v \in drawn
    /\ \A k \in Keys : keyServer[k] # NoServer => k \in drawn
    /\ \A k \in Keys : keyServer[k] = NoServer => ~keyRevoked[k]

\* a request past the check finds its key's row under its server, or finds
\* neither: no server takes a deleted one's name while requests are in flight.
RequestsCurrent ==
    \A r \in Senders : inFlight[r].pc = "checked" =>
        /\ up
        /\ inFlight[r].server \in drawn
        /\ Registered(inFlight[r].server) =>
              keyServer[inFlight[r].key] = inFlight[r].server

LastSeenPast == \A v \in Servers : lastSeenAt[v] <= clock

\* The requests that can still store a sample with key k.
Pending(k) == {r \in Senders : inFlight[r].pc = "checked" /\ inFlight[r].key = k}

\* No key and no sample outlives its server, although SaveMetrics inserts long
\* after the key was checked and the server may be deleted in between.
NoOrphans ==
    /\ \A k \in Keys : keyServer[k] # NoServer => Registered(keyServer[k])
    /\ \A v \in Servers : ~Registered(v) => metrics[v] = {} /\ lastSeenAt[v] = 0

\* Every stored sample came with a key of the server it is filed under - the
\* server as it exists now, not one that had its name before: what a request
\* checked still means the same when it commits, across deletions, rotations,
\* restarts and bootstraps.
SamplesFromOwnKeys ==
    \A v \in Servers : \A k \in metrics[v] : keyServer[k] = v

\* However rotations, revocations and restarts interleave, a server has at most
\* one active key besides those set by TARISYA_BOOTSTRAP_API_KEY, so a rotation
\* leaves no earlier key usable.
OneActiveKey ==
    \A v \in Servers : \A j, k \in ActiveKeys(v) \ BootstrapKeys : j = k

IInv ==
    /\ TypeOK
    /\ RowsDrawn
    /\ RequestsCurrent
    /\ LastSeenPast
    /\ NoOrphans
    /\ SamplesFromOwnKeys
    /\ OneActiveKey

\* The row of a key is only ever revoked or deleted: it never moves to another
\* server, and once revoked it is never active again, not even when a restart
\* bootstraps the same key.
KeysOnlyRetire ==
    [][\A k \in Keys : keyServer[k] # NoServer =>
        \/ keyServer'[k] = NoServer
        \/ /\ keyServer'[k] = keyServer[k]
           /\ keyRevoked[k] => keyRevoked'[k]]_vars

\* A revocation takes hold: from then on the requests that can still store a
\* sample with the key are some of those already past the check, and fewer with
\* every step that involves them.
RevocationDrains ==
    [][\A k \in Keys : keyRevoked[k] => Pending(k)' \subseteq Pending(k)]_vars

\* last_seen_at never goes back while the server exists, although requests wait
\* for the connection and commit in any order.  (It decides online or offline.)
LastSeenMonotone ==
    [][\A v \in Servers : Registered(v) /\ Registered(v)' =>
        lastSeenAt'[v] >= lastSeenAt[v]]_vars

-----------------------------------------------------------------------------
(* What the tables and the requests amount to.                             *)

registered == {v \in Servers : Registered(v)}

admissions ==
    {[request |-> r, server |-> inFlight[r].server, key |-> inFlight[r].key] :
        r \in {q \in Senders : inFlight[q].pc = "checked"}}

\* Keys keep to their servers, a retired key admits nothing any more, not even when
\* a restart bootstraps it, and a sample is stored only while its key belongs to
\* the server: although SaveMetrics looks at the server's row only, a key that is
\* set or drawn replaces whatever row there is, and requests outlast both.
Register == INSTANCE KeyRegister WITH
    Requests <- Senders,
    servers <- registered,
    holder <- keyServer,
    retired <- {k \in Keys : keyRevoked[k]},
    admitted <- admissions,
    samples <- metrics

ImplementsRegister == Register!Spec
=============================================================================
