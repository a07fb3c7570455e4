---------------------------- MODULE MetricsHistory -----------------------------
(***************************************************************************)
(* The raw samples of a server, page by page: a client that follows        *)
(* next_cursor from the newest page on, while samples are saved and        *)
(* maintenance deletes old ones.  A page is one query.                     *)
(***************************************************************************)
EXTENDS Naturals, FiniteSets

CONSTANTS
    Times,          \* what collected_at may be, in milliseconds
    Ids,            \* rowids
    Limits          \* page sizes a client may ask for

\* A time after 1970 is never the zero time, which stands for "no cursor".
ASSUME TimesAssumption == Times \subseteq Nat \ {0} /\ Ids \subseteq Nat
ASSUME LimitsAssumption == Limits \subseteq Nat \ {0}

VARIABLES
    rows,           \* of table metrics, for this server
    before,         \* the client's cursor; 0 before the first page
    received,       \* the rows on the pages so far
    step,           \* the client: "idle", "paging" or "finished"
    expected        \* history: rows there since before the first page

client == <<before, received, step>>
vars == <<rows, client, expected>>

Row == [at : Times, id : Ids]

Init ==
    /\ rows = {}
    /\ before = 0
    /\ received = {}
    /\ step = "idle"
    /\ expected = {}

\* SaveMetrics: samples may arrive in any order and at the same instant; the rowid
\* is greater than those in the table.
SaveMetrics(at) ==
    /\ \E id \in Ids :
        /\ \A r \in rows : r.id < id
        /\ rows' = rows \union {[at |-> at, id |-> id]}
    /\ UNCHANGED <<client, expected>>

\* downsampleRaw takes the rows before its cutoff away.
downsampleRaw(cutoff) ==
    /\ rows' = {r \in rows : r.at >= cutoff}
    /\ expected' = {r \in expected : r.at >= cutoff}
    /\ UNCHANGED client

-----------------------------------------------------------------------------
(* MetricsHistory and the handler around it.                               *)

\* Variant: the row at the cursor is on the next page as well.
Candidates_Inclusive == {r \in rows : before = 0 \/ r.at <= before}

\* WHERE ? IS NULL OR collected_at < ?.
Candidates == {r \in rows : before = 0 \/ r.at < before}

\* ORDER BY collected_at DESC, id DESC.
Newer(r, s) == r.at > s.at \/ (r.at = s.at /\ r.id > s.id)

Lesser(a, b) == IF a <= b THEN a ELSE b

\* The first limit rows in that order.
IsPage(page, limit) ==
    /\ page \subseteq Candidates
    /\ Cardinality(page) = Lesser(limit, Cardinality(Candidates))
    /\ \A r \in page, s \in Candidates \ page : Newer(r, s)

\* Variant: the query asks for no row more than the page shows.
HasMore_NoExtraRow(limit) == FALSE

\* The query asks for one row more than the page shows, to see whether it is there.
HasMore(limit) == Cardinality(Candidates) > limit

\* next_cursor is the collected_at of the page's last row.
IsLast(r, page) == r \in page /\ \A s \in page \ {r} : Newer(s, r)

\* The client asks for a page.
FetchPage(limit) ==
    /\ step # "finished"
    /\ \E page \in SUBSET rows :
        /\ IsPage(page, limit)
        /\ received' = received \union page
        /\ \/ /\ HasMore(limit)
              /\ \E r \in page : IsLast(r, page) /\ before' = r.at
              /\ step' = "paging"
           \/ /\ ~HasMore(limit)
              /\ UNCHANGED before
              /\ step' = "finished"
    /\ expected' = IF step = "idle" THEN rows ELSE expected
    /\ UNCHANGED rows

\* The client starts over, from any page.
StartOver ==
    /\ step # "idle"
    /\ before' = 0
    /\ received' = {}
    /\ step' = "idle"
    /\ expected' = {}
    /\ UNCHANGED rows

Next ==
    \/ \E at \in Times : SaveMetrics(at) \/ downsampleRaw(at)
    \/ \E limit \in Limits : FetchPage(limit)
    \/ StartOver

Spec == Init /\ [][Next]_vars

-----------------------------------------------------------------------------
(* Properties.                                                             *)

\* Rows have distinct ids, and a client has a cursor while it pages.
TypeOK ==
    /\ rows \subseteq Row
    /\ IsFiniteSet(rows)
    /\ \A r, s \in rows : r.id = s.id => r = s
    /\ before \in Times \union {0}
    /\ received \subseteq Row
    /\ step \in {"idle", "paging", "finished"}
    /\ step = "idle" => before = 0 /\ received = {} /\ expected = {}
    /\ step = "paging" => before # 0
    /\ expected \subseteq rows

\* Whatever is saved and deleted meanwhile, a client that has followed the cursor to
\* the end has every row that was there all the time, but for rows that were
\* collected at the very instant of another row it has: the cursor is a time, and
\* the next page starts before it.
OnlyTiesMissed ==
    step = "finished" =>
        \A m \in expected \ received : \E r \in received : r.at = m.at

\* Every page is older than all the pages before it, so no row is seen twice, and
\* none out of order, although newer rows keep coming in.
PagesDescend ==
    [][step = "paging" /\ step' # "idle" =>
        \A new \in received' \ received, old \in received : new.at < old.at]_vars

\* The inductive invariant, in parts: what has been received is not older than the
\* cursor,
ReceivedNotOlder == step = "paging" => \A r \in received : r.at >= before

\* and what has not is, unless it is missed.
MissingOlder ==
    step = "paging" =>
        \A m \in expected \ received :
            m.at < before \/ \E r \in received : r.at = m.at

IInv ==
    /\ TypeOK
    /\ ReceivedNotOlder
    /\ MissingOlder
    /\ OnlyTiesMissed
=============================================================================
