------------------------------ MODULE QueryCache -------------------------------
(***************************************************************************)
(* One query of the Console's cache, as @tanstack/react-query keeps it for *)
(* the hooks under src/console/src/features: the last data, the status of  *)
(* the last attempt, and the request in flight.  "asked" is a request that *)
(* the Core has not read, "read" one whose answer is on its way.  The      *)
(* retries of one fetch are one request: the Core reads the last of them.  *)
(***************************************************************************)

\* No data yet; `blank` only gives the field a value of the right kind.
Unfetched(blank) ==
    [has |-> FALSE, data |-> blank, status |-> "pending", invalid |-> FALSE,
     request |-> "idle", carries |-> blank]

IsFetching(q) == q.request # "idle"

\* A fetch joins the one in flight.  Without data it sets the status back to pending.
Fetch(q, carries) ==
    IF IsFetching(q) THEN q
    ELSE [q EXCEPT !.request = "asked", !.carries = carries,
                   !.status = IF q.has THEN @ ELSE "pending"]

\* Success clears the error and the invalidation, whatever happened since the request.
Succeed(q, data) ==
    [q EXCEPT !.has = TRUE, !.data = data, !.status = "success",
              !.invalid = FALSE, !.request = "idle"]

\* A failure keeps the data of earlier answers.
Fail(q) == [q EXCEPT !.status = "error", !.invalid = TRUE, !.request = "idle"]

\* setQueryData leaves a request in flight alone.
SetData(q, data) ==
    [q EXCEPT !.has = TRUE, !.data = data, !.status = "success", !.invalid = FALSE]

\* invalidateQueries: an observed query is fetched again; the request in flight is
\* dropped for it, but only if there is data already.
Invalidate(q, carries) ==
    LET dropped == [q EXCEPT !.invalid = TRUE,
                             !.request = IF q.has THEN "idle" ELSE @]
    IN  Fetch(dropped, carries)

\* What a component that mounts with the query may leave: a first fetch, a fetch
\* because the data is stale (a matter of time, unless it was invalidated), or none.
\* After a failure without data the library may or may not try again.
Mounts(q, carries) ==
    IF q.invalid /\ q.has THEN {Fetch(q, carries)}
    ELSE IF q.status = "pending" THEN {Fetch(q, carries)}
    ELSE {q, Fetch(q, carries)}
=============================================================================
