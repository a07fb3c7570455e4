----------------------------- MODULE KeyRegister -----------------------------
(***************************************************************************)
(* What API keys promise, without users, clocks, names drawn at random or  *)
(* a process that stops: a key belongs to one server until that server is  *)
(* closed; once retired it admits nothing any more; and a sample is only   *)
(* stored for a server whose key it came with, however long it takes.      *)
(* ServerKeys is shown to implement this specification.                    *)
(***************************************************************************)

CONSTANTS
    Servers,        \* server identifiers
    Keys,           \* API keys
    Requests,       \* requests that can be under way at once
    NoServer        \* of a key that belongs to none

VARIABLES
    servers,        \* the servers there are
    holder,         \* per key, the server it belongs to
    retired,        \* the keys that are out of use
    admitted,       \* the requests that may still store a sample
    samples         \* per server, the keys its samples came with

vars == <<servers, holder, retired, admitted, samples>>

KeysOf(v) == {k \in Keys : holder[k] = v}

Admission(r, v, k) == [request |-> r, server |-> v, key |-> k]

Init ==
    /\ servers = {}
    /\ holder = [k \in Keys |-> NoServer]
    /\ retired = {}
    /\ admitted = {}
    /\ samples = [v \in Servers |-> {}]

\* A server with a key; a key that belongs to a server already stays with it, in
\* use or not.  No server takes a name that a request under way would store for.
Install(v, k) ==
    /\ v \notin servers => \A a \in admitted : a.server # v
    /\ servers' = servers \union {v}
    /\ holder' = [holder EXCEPT ![k] = IF @ = NoServer THEN v ELSE @]
    /\ UNCHANGED <<retired, admitted, samples>>

\* A key that belongs to no server takes the place of those of v.
Replace(v, k) ==
    /\ v \in servers
    /\ holder[k] = NoServer
    /\ holder' = [holder EXCEPT ![k] = v]
    /\ retired' = retired \union KeysOf(v)
    /\ UNCHANGED <<servers, admitted, samples>>

Retire(v) ==
    /\ v \in servers
    /\ retired' = retired \union KeysOf(v)
    /\ UNCHANGED <<servers, holder, admitted, samples>>

\* The server goes with its keys and its samples.
Close(v) ==
    /\ v \in servers
    /\ servers' = servers \ {v}
    /\ holder' = [k \in Keys |-> IF k \in KeysOf(v) THEN NoServer ELSE holder[k]]
    /\ retired' = retired \ KeysOf(v)
    /\ samples' = [samples EXCEPT ![v] = {}]
    /\ UNCHANGED admitted

Admit(r, v, k) ==
    /\ \A a \in admitted : a.request # r
    /\ k \in KeysOf(v) \ retired
    /\ admitted' = admitted \union {Admission(r, v, k)}
    /\ UNCHANGED <<servers, holder, retired, samples>>

\* The key still belongs to the server, although it may be retired by now.
Store(a) ==
    /\ a.key \in KeysOf(a.server)
    /\ samples' = [samples EXCEPT ![a.server] = @ \union {a.key}]
    /\ admitted' = admitted \ {a}
    /\ UNCHANGED <<servers, holder, retired>>

\* Requests fail, or all end with the process.
Drop ==
    /\ admitted' \in SUBSET admitted
    /\ UNCHANGED <<servers, holder, retired, samples>>

Next ==
    \/ \E v \in Servers, k \in Keys : Install(v, k) \/ Replace(v, k)
    \/ \E v \in Servers : Retire(v) \/ Close(v)
    \/ \E r \in Requests, v \in Servers, k \in Keys : Admit(r, v, k)
    \/ \E a \in admitted : Store(a)
    \/ Drop

Spec == Init /\ [][Next]_vars
=============================================================================
