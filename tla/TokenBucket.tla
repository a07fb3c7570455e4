----------------------------- MODULE TokenBucket -----------------------------
(***************************************************************************)
(* What a rate limit promises of each client: requests are let through at  *)
(* no more than a steady pace, with bursts up to a bound.  Every client    *)
(* has a bucket that never forgets, is refilled as the clock advances and  *)
(* pays for every request that is let through.                             *)
(*                                                                         *)
(* Tokens are measured in the time it takes to accrue them at Pace = 1: a  *)
(* request costs Cost = 60 / requestsPerMinute seconds.  Over any period   *)
(* of length T a client is granted at most (Capacity + Pace * T) / Cost    *)
(* requests.                                                               *)
(***************************************************************************)
EXTENDS Integers

CONSTANTS
    Clients,        \* client addresses
    Cost,           \* of a request
    Pace,           \* what accrues in a unit of time
    Capacity        \* of a bucket

VARIABLES
    now,            \* the clock
    level           \* per client, what is in its bucket

vars == <<now, level>>

Init ==
    /\ now = 0
    /\ level = [c \in Clients |-> Capacity]

Advance ==
    /\ now' = now + 1
    /\ level' = [c \in Clients |->
                   IF level[c] + Pace < Capacity THEN level[c] + Pace ELSE Capacity]

Grant(c) ==
    /\ level[c] >= Cost
    /\ level' = [level EXCEPT ![c] = @ - Cost]
    /\ UNCHANGED now

Next ==
    \/ Advance
    \/ \E c \in Clients : Grant(c)

Spec == Init /\ [][Next]_vars
=============================================================================
