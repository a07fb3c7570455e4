----------------------------- MODULE SampleStore -----------------------------
(***************************************************************************)
(* What the metric tables promise, without tables: every sample the Core   *)
(* has acknowledged stays in the store until it is older than the longest  *)
(* retention period or its server is deleted.  How many tables there are,  *)
(* how samples are aggregated and when maintenance runs is not visible     *)
(* here.  MetricsTiers is shown to implement this specification.           *)
(***************************************************************************)
EXTENDS Integers

CONSTANTS
    Sample,         \* the samples that may be saved: records with .server, .at
    Servers,        \* server identifiers
    Instants,       \* the moments the clock may show, in minutes
    Retention       \* how long a sample must be kept

VARIABLES
    now,            \* the wall clock
    servers,        \* the registered servers
    stored          \* the samples the store accounts for

vars == <<now, servers, stored>>

Init ==
    /\ now \in Instants
    /\ servers = {}
    /\ stored = {}

Advance ==
    /\ now' \in Instants
    /\ now' > now
    /\ UNCHANGED <<servers, stored>>

Register(v) ==
    /\ v \notin servers
    /\ servers' = servers \union {v}
    /\ UNCHANGED <<now, stored>>

\* Deleting a server takes its samples with it, all of them and no others.
Unregister(v) ==
    /\ v \in servers
    /\ servers' = servers \ {v}
    /\ stored' = {s \in stored : s.server # v}
    /\ UNCHANGED now

Save(s) ==
    /\ s.server \in servers
    /\ s \notin stored
    /\ stored' = stored \union {s}
    /\ UNCHANGED <<now, servers>>

\* Only samples past their retention may go.
Expire ==
    /\ stored' \in SUBSET stored
    /\ \A s \in stored \ stored' : s.at < now - Retention
    /\ UNCHANGED <<now, servers>>

Next ==
    \/ Advance
    \/ \E v \in Servers : Register(v) \/ Unregister(v)
    \/ \E s \in Sample : Save(s)
    \/ Expire

Spec == Init /\ [][Next]_vars
=============================================================================
