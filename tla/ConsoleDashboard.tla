---------------------------- MODULE ConsoleDashboard ---------------------------
(***************************************************************************)
(* The dashboard: the server and the range the person selects, and the     *)
(* cached answers shown for them, polled while requests for the selections *)
(* before are still in flight.  A behaviour follows one of the page's      *)
(* queries: a polled one, which is the latest sample or the server's       *)
(* detail, or the chart's.  They share nothing but the selection.          *)
(***************************************************************************)
EXTENDS Naturals, FiniteSets

CONSTANTS
    Servers,        \* numbers: a later server has a greater one
    Ranges,         \* the ranges of the selector
    DefaultRange,   \* "24h"
    MaxSamples,     \* bound on samples that arrive while the page is open
    MaxLost,        \* bound on requests that fail
    MaxFlying       \* bound on requests in flight, for different keys

ASSUME DashboardAssumption ==
    /\ Servers \subseteq Nat \ {0}
    /\ \A S \in SUBSET Servers : S # {} => \E s \in S : \A t \in S : t <= s
    /\ DefaultRange \in Ranges /\ "any" \notin Ranges
    /\ MaxSamples \in Nat \ {0} /\ MaxLost \in Nat /\ MaxFlying \in Nat

VARIABLES
    query,          \* the query followed: a "polled" one or "range"
    urlServer,      \* ?server= in the address; 0 for none
    servers,        \* the list of useServers; {} before it is there
    listStatus,     \* its status: "pending", "success" or "error"
    range,
    cache,          \* key |-> the last answer and whether the last attempt failed
    flying,         \* requests in flight
    sample,         \* samples the Core has
    lost            \* requests that failed so far

dashVars == <<query, urlServer, servers, listStatus, range, cache, flying, sample, lost>>

Keys == Servers \X (Ranges \union {"any"})

Newest(S) == CHOOSE s \in S : \A t \in S : t <= s

\* The server of the address, or the first of the list, which is the newest; 0 for none.
SelectedServer ==
    IF urlServer # 0 THEN urlServer
    ELSE IF servers = {} THEN 0 ELSE Newest(servers)

\* Variant: the key leaves the range out.
Key_NoRange(s, r) == <<s, "any">>

\* metricKeys and serverKeys.detail: the range is part of the key of a chart.
Key(s, r) == IF query = "range" THEN <<s, r>> ELSE <<s, "any">>

SelectedKey == Key(SelectedServer, range)

NoAnswer == [has |-> FALSE, server |-> 0, range |-> "any", sample |-> 0, failed |-> FALSE]

\* What the address asks for, under its key.  When the Core reads it matters for a
\* sample only.
Request(s, r) ==
    [key |-> Key(s, r), server |-> s, range |-> IF query = "range" THEN r ELSE "any",
     read |-> query = "range", sample |-> 0]

DashInit ==
    /\ query \in {"polled", "range"}
    /\ urlServer \in Servers \union {0}
    /\ servers = {}
    /\ listStatus = "pending"
    /\ range = DefaultRange
    /\ cache = [k \in Keys |-> NoAnswer]
    /\ flying = {}
    /\ sample = 1
    /\ lost = 0

-----------------------------------------------------------------------------
(* Requests.                                                               *)

\* Variant: a poll does not wait for the one before.
Fetching_Never(k) == FALSE

\* A fetch joins the one in flight for its key.
Fetching(k) == \E q \in flying : q.key = k

\* Variant: polls end with the first failure.
PollDue_UntilError == query = "polled" /\ ~cache[SelectedKey].failed

\* refetchInterval, whatever became of the polls before.
PollDue == query = "polled"

CanAsk(s, r) ==
    /\ s # 0
    /\ ~Fetching(Key(s, r))
    /\ Cardinality(flying) < MaxFlying

\* The observer of the selected key asks: because it has no data, or because its
\* interval is over.  A chart, which is not polled, is asked for again when it is
\* selected anew and stale, or after a failure.
Ask ==
    /\ CanAsk(SelectedServer, range)
    /\ PollDue \/ cache[SelectedKey] = NoAnswer
    /\ flying' = flying \union {Request(SelectedServer, range)}
    /\ UNCHANGED <<query, urlServer, servers, listStatus, range, cache, sample, lost>>

\* The Core reads what it has for the server and range of the address.
CoreReads ==
    \E q \in flying :
        /\ ~q.read
        /\ flying' = (flying \ {q}) \union {[q EXCEPT !.read = TRUE, !.sample = sample]}
        /\ UNCHANGED <<query, urlServer, servers, listStatus, range, cache, sample, lost>>

\* The answer is stored under the key of the request, selected or not.
Arrive(q) ==
    /\ q.read
    /\ flying' = flying \ {q}
    /\ cache' = [cache EXCEPT ![q.key] =
            [has |-> TRUE, server |-> q.server, range |-> q.range, sample |-> q.sample,
             failed |-> FALSE]]
    /\ UNCHANGED <<query, urlServer, servers, listStatus, range, sample, lost>>

\* After the last retry.  The data stays.
Lose(q) ==
    /\ lost < MaxLost
    /\ lost' = lost + 1
    /\ flying' = flying \ {q}
    /\ cache' = [cache EXCEPT ![q.key].failed = TRUE]
    /\ UNCHANGED <<query, urlServer, servers, listStatus, range, sample>>

\* An agent's sample is stored.  Answers for charts are told apart by server and range.
NewSample ==
    /\ query = "polled"
    /\ sample < MaxSamples
    /\ sample' = sample + 1
    /\ UNCHANGED <<query, urlServer, servers, listStatus, range, cache, flying, lost>>

-----------------------------------------------------------------------------
(* The selection.  A key that is selected and stale is asked for.          *)

Selects(s, r) ==
    \/ UNCHANGED flying
    \/ /\ CanAsk(s, r)
       /\ flying' = flying \union {Request(s, r)}

\* The list arrives, or arrives anew: without ?server= it decides the selection.
ListLoads ==
    \E S \in SUBSET Servers :
        /\ servers' = S
        /\ listStatus' = "success"
        /\ Selects(IF urlServer # 0 \/ S = {} THEN urlServer ELSE Newest(S), range)
        /\ UNCHANGED <<query, urlServer, range, cache, sample, lost>>

\* The list could not be fetched, or not again; what there was of it stays.
ListBreaks ==
    /\ listStatus # "error"
    /\ listStatus' = "error"
    /\ UNCHANGED <<query, urlServer, servers, range, cache, flying, sample, lost>>

\* DashboardPage: a message instead of everything for a list in error or without
\* servers.
PageShown == listStatus = "pending" \/ (listStatus = "success" /\ servers # {})

\* ServerSelector.
SelectServer(s) ==
    /\ PageShown
    /\ s \in servers
    /\ urlServer' = s
    /\ Selects(s, range)
    /\ UNCHANGED <<query, servers, listStatus, range, cache, sample, lost>>

\* TimeRangeSelector; pressing the range that is on would turn it off and is ignored.
\* Only the chart's query depends on it.
SelectRange(r) ==
    /\ query = "range" /\ PageShown
    /\ r # range
    /\ range' = r
    /\ Selects(SelectedServer, r)
    /\ UNCHANGED <<query, urlServer, servers, listStatus, cache, sample, lost>>

\* The page is opened anew: by the sidebar, whose link to "/" drops the ?server=, by the
\* link of a row, or through the history, which may bring any ?server= back.  The range
\* starts over if another page was shown in between.
OpenDashboard(s) ==
    /\ urlServer' = s
    /\ range' \in {range, DefaultRange}
    /\ Selects(IF s # 0 \/ servers = {} THEN s ELSE Newest(servers), range')
    /\ UNCHANGED <<query, servers, listStatus, cache, sample, lost>>

DashNext ==
    \/ Ask
    \/ CoreReads
    \/ \E q \in flying : Arrive(q) \/ Lose(q)
    \/ NewSample
    \/ ListLoads
    \/ ListBreaks
    \/ \E s \in Servers : SelectServer(s)
    \/ \E r \in Ranges : SelectRange(r)
    \/ \E s \in Servers \union {0} : OpenDashboard(s)

\* Intervals end, the Core reads what it is asked, and requests end.
DashSpec ==
    /\ DashInit /\ [][DashNext]_dashVars
    /\ WF_dashVars(Ask)
    /\ WF_dashVars(CoreReads)
    /\ WF_dashVars(\E q \in flying : Arrive(q) \/ Lose(q))

-----------------------------------------------------------------------------
(* What the page shows.                                                    *)

\* Samples and details stay when a poll fails, and are skeletons before.
TileShown == cache[SelectedKey]

\* A chart whose last attempt failed gives way to a message.
ChartShown == IF cache[SelectedKey].failed THEN NoAnswer ELSE cache[SelectedKey]

Shown ==
    IF ~PageShown \/ SelectedServer = 0 THEN NoAnswer
    ELSE IF query = "range" THEN ChartShown
    ELSE TileShown

-----------------------------------------------------------------------------
(* Properties.                                                             *)

Answers == [has : BOOLEAN, server : Servers \union {0}, range : Ranges \union {"any"},
            sample : 0 .. MaxSamples, failed : BOOLEAN]

\* A request and an answer lie under keys; no key is asked for twice at a time.
DashTypeOK ==
    /\ query \in {"polled", "range"}
    /\ urlServer \in Servers \union {0}
    /\ servers \subseteq Servers
    /\ listStatus \in {"pending", "success", "error"}
    /\ listStatus = "pending" => servers = {}
    /\ range \in Ranges
    /\ cache \in [Keys -> Answers]
    /\ flying \subseteq [key : Keys, server : Servers, range : Ranges \union {"any"},
                         read : BOOLEAN, sample : 0 .. MaxSamples]
    /\ \A p, q \in flying : p.key = q.key => p = q
    /\ sample \in 1 .. MaxSamples
    /\ lost \in 0 .. MaxLost

\* What is shown was asked for with the server and the range selected now, in whatever
\* order the answers for this and the earlier selections arrive.
ShownIsSelected ==
    Shown.has =>
        /\ Shown.server = SelectedServer
        /\ query = "range" => Shown.range = range

\* While the selection stays the sample shown is never replaced by an older one.
ShownNeverGoesBack ==
    [][Shown.has /\ Shown'.has /\ SelectedServer' = SelectedServer /\ range' = range
        => Shown.sample <= Shown'.sample]_dashVars

\* The inductive invariant, in parts: an answer lies under the key of its server and
\* range, as it will when it arrives,
AnswersMatch ==
    /\ \A k \in Keys :
        cache[k].has => /\ cache[k].server = k[1]
                        /\ query = "range" => cache[k].range = k[2]
    /\ \A q \in flying : q.server = q.key[1]
    /\ query = "range" => \A q \in flying : q.range = q.key[2]

\* and what will arrive is no older than what is there.
SamplesInOrder ==
    /\ \A k \in Keys : cache[k].sample <= sample
    /\ \A q \in flying : q.sample <= sample
    /\ \A q \in flying : q.read => cache[q.key].sample <= q.sample
    /\ query = "range" => /\ \A k \in Keys : cache[k].sample = 0
                          /\ \A q \in flying : q.read /\ q.sample = 0

DashInv == DashTypeOK /\ AnswersMatch /\ SamplesInOrder

\* A sample that is stored is shown, if the person stays with its server and the list
\* does not take the page away, whatever number of polls fail before one succeeds.
SamplesShown ==
    \A s \in Servers, n \in 1 .. MaxSamples :
        (query = "polled" /\ SelectedServer = s /\ sample >= n)
            ~> (SelectedServer # s \/ ~PageShown \/ Shown.sample >= n)
=============================================================================
