--------------------------------- MODULE Agent ---------------------------------
(***************************************************************************)
(* The Agent's loop and what the Core makes of its samples: a ticker whose *)
(* channel holds one tick, an attempt per tick that ends at the latest     *)
(* with the HTTP client's timeout, and a Core that may store a sample      *)
(* after the Agent has given it up.  Time passes in units; the Agent acts  *)
(* at once when it can.                                                    *)
(***************************************************************************)
EXTENDS Integers

CONSTANTS
    Interval,           \* between ticks
    Timeout,            \* of a request
    OfflineThreshold    \* of the Core

\* Load accepts any positive interval and timeout; nothing compares them with the
\* Core's threshold, which by default is greater than this.
ASSUME AgentAssumption ==
    /\ Interval \in Nat \ {0} /\ Timeout \in Nat \ {0}
    /\ OfflineThreshold \in Nat /\ OfflineThreshold >= Interval + 2 * Timeout

VARIABLES
    running,
    due,            \* an attempt is due: the first one, or a tick in the ticker's channel
    toTick,         \* time to the next tick; 0 as long as there is no ticker
    attempt,        \* the request: "none", "asked" or "stored" by the Core
    since,          \* time since the last attempt began,
    sinceBefore,    \* and since the one before it
    failed,         \* the last attempt that ended failed, or none has ended yet
    abandoned,      \* the Core may still store a sample that was given up
    lastSeen        \* time since the Core saw the server

agentVars == <<running, due, toTick, attempt, since, sinceBefore, failed, abandoned, lastSeen>>

\* Bound: times are told apart up to here.
LongAgo == OfflineThreshold + 1

AgentInit ==
    /\ running = FALSE
    /\ due = FALSE
    /\ toTick = 0
    /\ attempt = "none"
    /\ since = LongAgo /\ sinceBefore = LongAgo
    /\ failed = TRUE
    /\ abandoned = FALSE
    /\ lastSeen = LongAgo

\* main: a first attempt before there is a ticker.
Launch ==
    /\ ~running
    /\ running' = TRUE
    /\ due' = TRUE
    /\ since' = LongAgo /\ sinceBefore' = LongAgo
    /\ failed' = TRUE
    /\ UNCHANGED <<toTick, attempt, abandoned, lastSeen>>

Ready == running /\ due /\ attempt = "none"

\* Run makes the ticker when the first attempt has ended.
TickerAfter == IF toTick = 0 THEN Interval ELSE toTick

\* An attempt that has nothing to send.
CollectFails ==
    /\ Ready
    /\ due' = FALSE
    /\ toTick' = TickerAfter
    /\ since' = 0 /\ sinceBefore' = since
    /\ failed' = TRUE
    /\ UNCHANGED <<running, attempt, abandoned, lastSeen>>

\* Variant: the tick is left in the channel.
SendSample_TickStays ==
    /\ Ready
    /\ due' = (toTick # 0)
    /\ attempt' = "asked"
    /\ since' = 0 /\ sinceBefore' = since
    /\ UNCHANGED <<running, toTick, failed, abandoned, lastSeen>>

\* collectAndSend takes the tick, reads the clock and posts the sample.
SendSample ==
    /\ Ready
    /\ due' = FALSE
    /\ attempt' = "asked"
    /\ since' = 0 /\ sinceBefore' = since
    /\ UNCHANGED <<running, toTick, failed, abandoned, lastSeen>>

\* The Core: SaveMetrics stores the sample and when it saw the server.
CoreStores ==
    /\ attempt = "asked"
    /\ attempt' = "stored"
    /\ lastSeen' = 0
    /\ UNCHANGED <<running, due, toTick, since, sinceBefore, failed, abandoned>>

\* Variant: any answer will do.
Accepted_AnyStatus ==
    /\ attempt \in {"asked", "stored"}
    /\ attempt' = "none"
    /\ toTick' = TickerAfter
    /\ failed' = FALSE
    /\ UNCHANGED <<running, due, since, sinceBefore, abandoned, lastSeen>>

\* 202, which the Core writes after it has stored.
Accepted ==
    /\ attempt = "stored"
    /\ attempt' = "none"
    /\ toTick' = TickerAfter
    /\ failed' = FALSE
    /\ UNCHANGED <<running, due, since, sinceBefore, abandoned, lastSeen>>

\* The Core may go on with a request that the Agent has left.
Abandons == abandoned' \in {abandoned, abandoned \/ attempt = "asked"}

\* Unreachable, refused, or no answer in time.  There is no second attempt for a sample.
SendFails ==
    /\ attempt # "none"
    /\ attempt' = "none"
    /\ Abandons
    /\ toTick' = TickerAfter
    /\ failed' = TRUE
    /\ UNCHANGED <<running, due, since, sinceBefore, lastSeen>>

\* One of the samples given up is stored; there may be more.
CoreStoresLate ==
    /\ abandoned
    /\ abandoned' \in BOOLEAN
    /\ lastSeen' = 0
    /\ UNCHANGED <<running, due, toTick, attempt, since, sinceBefore, failed>>

\* A signal cancels the context, and with it the request.
StopAgent ==
    /\ running
    /\ running' = FALSE
    /\ due' = FALSE
    /\ toTick' = 0
    /\ attempt' = "none"
    /\ Abandons
    /\ UNCHANGED <<since, sinceBefore, failed, lastSeen>>

Later(age) == IF age = LongAgo THEN age ELSE age + 1

\* http.Client ends a request at its timeout.
InTime == attempt # "none" => since < Timeout

\* The ticker drops a tick for which there is no room in the channel.
TimePasses ==
    /\ ~Ready /\ InTime
    /\ since' = Later(since) /\ sinceBefore' = Later(sinceBefore) /\ lastSeen' = Later(lastSeen)
    /\ \/ toTick = 1 /\ toTick' = Interval /\ due' = TRUE
       \/ toTick > 1 /\ toTick' = toTick - 1 /\ UNCHANGED due
       \/ toTick = 0 /\ UNCHANGED <<toTick, due>>
    /\ UNCHANGED <<running, attempt, failed, abandoned>>

AgentNext ==
    \/ Launch \/ StopAgent
    \/ CollectFails \/ SendSample \/ Accepted \/ SendFails
    \/ CoreStores \/ CoreStoresLate
    \/ TimePasses

AgentSpec == AgentInit /\ [][AgentNext]_agentVars

-----------------------------------------------------------------------------
(* Properties.                                                             *)

AgentFlags == running \in BOOLEAN /\ due \in BOOLEAN /\ failed \in BOOLEAN /\ abandoned \in BOOLEAN

AgentTypes ==
    /\ AgentFlags
    /\ toTick \in 0 .. Interval
    /\ attempt \in {"none", "asked", "stored"}
    /\ since \in 0 .. LongAgo /\ sinceBefore \in 0 .. LongAgo /\ lastSeen \in 0 .. LongAgo

\* A request is the running Agent's, and no older than the timeout; without a ticker
\* the first attempt is due or under way.
AgentTypeOK ==
    /\ AgentTypes
    /\ attempt # "none" => running /\ since <= Timeout
    /\ ~running => ~due /\ toTick = 0
    /\ running /\ toTick = 0 => (due <=> attempt = "none")

\* A server that the Core calls offline has an Agent that is down or whose last
\* attempt failed, however long the attempts take and wherever the ticks fall.
OfflineMeansTrouble == lastSeen > OfflineThreshold => ~running \/ failed

\* A running Agent is never silent for longer than an interval and a timeout, whatever
\* fails.
NeverSilent == running /\ ~due => since <= Interval + Timeout

\* Ticks that wait behind a slow attempt do not pile up: of any three attempts the
\* last begins no less than an interval after the first.
NoBursts == [][SendSample \/ CollectFails => sinceBefore >= Interval]_agentVars
=============================================================================
