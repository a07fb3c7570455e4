----------------------------- MODULE RateLimiter -----------------------------
(***************************************************************************)
(* clientRateLimiter: a token bucket per client address, forgotten when    *)
(* the client has not been seen for a while.                               *)
(*                                                                         *)
(* allow reads the clock before it takes the mutex, so calls work with     *)
(* readings that are out of order by as much as a call may wait for the    *)
(* mutex.  The rest of allow runs with the mutex held and is one step.     *)
(*                                                                         *)
(* Time is counted in units fine enough for the seconds, the tokens and    *)
(* the readings in question, and tokens in the time they take to accrue    *)
(* (tokens / tokensPerSec): elapsed * tokensPerSec is then elapsed, and    *)
(* what floating point rounds is exact.  The readings are monotonic.       *)
(***************************************************************************)
EXTENDS Integers

CONSTANTS
    Clients,            \* client addresses
    Requests,           \* handlers that can be in allow at once
    Cost,               \* one token: 60 s / requestsPerMinute
    Burst,              \* burst, in tokens
    Second,             \* one second
    ClientTTL,          \* rateLimitClientTTL
    CleanupInterval,    \* rateLimitCleanupInterval
    MaxWait,            \* how long a call may wait for the mutex
    Pace,               \* of the bucket whose limit is kept; see FullWhenForgotten
    MaxTime             \* bound on the clock

ASSUME LimitAssumption ==
    /\ Cost \in Nat \ {0} /\ Burst \in Nat \ {0} /\ Second \in Nat \ {0}
    /\ ClientTTL \in Nat \ {0} /\ CleanupInterval \in Nat \ {0}
    /\ MaxWait \in Nat /\ MaxTime \in Nat /\ Pace \in Nat \ {0}

\* A full bucket.
Capacity == Burst * Cost

\* No call waits for as long as a client is remembered.
WaitsAreShort == MaxWait < ClientTTL

\* By the time a client is forgotten a bucket that fills up at Pace is full.  At
\* Pace 1, the limiter's own, the constants of the code give it to any limit whose
\* burst takes less than ten minutes to accrue.  LoadConfig does not insist: a
\* limit with a larger burst is kept at the smallest Pace that has it, since its
\* clients gain by being forgotten.
FullWhenForgotten == Capacity <= Pace * (ClientTTL - 2 * MaxWait)

VARIABLES
    now,            \* the clock
    clients,        \* the addresses that have a bucket
    tokens,         \* tokenBucket.tokens; 0 for an address without bucket,
    updated,        \* tokenBucket.updated, likewise
    lastSeen,       \* and tokenBucket.lastSeen
    lastCleanupAt,  \* lastCleanupAt; the zero time is long past any reading
    calls,          \* per handler, the call of allow that waits for the mutex
    level,          \* history: a bucket that is never forgotten
    promised        \* history: when a client was told to retry; 0 if it was not

buckets == <<clients, tokens, updated, lastSeen, lastCleanupAt>>
limiterVars == <<now, buckets, calls, level, promised>>

NoCall == [pc |-> "none"]
Call(c) == [pc |-> "waiting", client |-> c, at |-> now]

Lesser(a, b) == IF a <= b THEN a ELSE b

\* What the history's bucket accrues in a time t.
Accrued(t) == Pace * t

\* It holds what may accrue while a call waits besides.
LevelCapacity == Capacity + Accrued(MaxWait)

LimiterInit ==
    /\ now = 0
    /\ clients = {}
    /\ tokens = [c \in Clients |-> 0]
    /\ updated = [c \in Clients |-> 0]
    /\ lastSeen = [c \in Clients |-> 0]
    /\ lastCleanupAt = - CleanupInterval
    /\ calls = [r \in Requests |-> NoCall]
    /\ level = [c \in Clients |-> LevelCapacity]
    /\ promised = [c \in Clients |-> 0]

\* The mutex is not held for long: no call waits for more than MaxWait.
Advance ==
    /\ now < MaxTime
    /\ \A r \in Requests : calls[r].pc = "waiting" => now < calls[r].at + MaxWait
    /\ now' = now + 1
    /\ level' = [c \in Clients |-> Lesser(level[c] + Accrued(1), LevelCapacity)]
    /\ UNCHANGED <<buckets, calls, promised>>

\* allow(c) reads the clock and calls l.mu.Lock().
Arrive(r, c) ==
    /\ calls[r] = NoCall
    /\ calls' = [calls EXCEPT ![r] = Call(c)]
    /\ UNCHANGED <<now, buckets, level, promised>>

-----------------------------------------------------------------------------
(* allow with the mutex held, for client c and the reading at.             *)

CleanupDue(at) == at - lastCleanupAt >= CleanupInterval

\* Variant: only a full interval later.
Remembered_TTLDoubled(at) ==
    {d \in clients : CleanupDue(at) => at - lastSeen[d] < 2 * ClientTTL}

\* The buckets that are left by the cleanup, if one is due.
Remembered(at) ==
    {d \in clients : CleanupDue(at) => at - lastSeen[d] < ClientTTL}

\* Variant: a reading before the last refill sets the bucket's time back.
Refilled_TakesAnyReading(c, at) ==
    IF c \in Remembered(at)
    THEN [tokens |-> Lesser(Capacity, tokens[c] + (IF at > updated[c] THEN at - updated[c] ELSE 0)),
          updated |-> at]
    ELSE [tokens |-> Capacity, updated |-> at]

\* The bucket of c after the refill: a new one is full, and a reading that is
\* not after the last refill adds nothing.
Refilled(c, at) ==
    IF c \in Remembered(at)
    THEN IF at > updated[c]
         THEN [tokens |-> Lesser(Capacity, tokens[c] + (at - updated[c])), updated |-> at]
         ELSE [tokens |-> tokens[c], updated |-> updated[c]]
    ELSE [tokens |-> Capacity, updated |-> at]

\* What allow leaves behind, with left tokens in the bucket of c.
UpdateBuckets(c, at, left) ==
    LET kept == Remembered(at) IN
    /\ clients' = kept \union {c}
    /\ tokens' = [d \in Clients |->
                    IF d = c THEN left ELSE IF d \in kept THEN tokens[d] ELSE 0]
    /\ updated' = [d \in Clients |->
                    IF d = c THEN Refilled(c, at).updated
                    ELSE IF d \in kept THEN updated[d] ELSE 0]
    /\ lastSeen' = [d \in Clients |->
                    IF d = c THEN at ELSE IF d \in kept THEN lastSeen[d] ELSE 0]
    /\ lastCleanupAt' = IF CleanupDue(at) THEN at ELSE lastCleanupAt

Grant(r) ==
    LET c == calls[r].client
        b == Refilled(c, calls[r].at) IN
    /\ calls[r].pc = "waiting"
    /\ b.tokens >= Cost
    /\ UpdateBuckets(c, calls[r].at, b.tokens - Cost)
    /\ calls' = [calls EXCEPT ![r] = NoCall]
    /\ level' = [level EXCEPT ![c] = @ - Cost]
    /\ promised' = [promised EXCEPT ![c] = 0]
    /\ UNCHANGED now

\* Variant: rounded to the nearest second below, but one at least.
RetryAfter_RoundedDown(left) ==
    IF Cost - left < Second THEN Second ELSE (Cost - left) - ((Cost - left) % Second)

\* The Retry-After header: the time to the next token, in whole seconds.
RetryAfter(left) == (Cost - left) + ((left - Cost) % Second)

\* 429, and the client is told when to come back.
Reject(r) ==
    LET c == calls[r].client
        b == Refilled(c, calls[r].at)
        again == now + RetryAfter(b.tokens) IN
    /\ calls[r].pc = "waiting"
    /\ b.tokens < Cost
    /\ UpdateBuckets(c, calls[r].at, b.tokens)
    /\ calls' = [calls EXCEPT ![r] = NoCall]
    /\ promised' = [promised EXCEPT ![c] = IF @ = 0 THEN again ELSE Lesser(@, again)]
    /\ UNCHANGED <<now, level>>

LimiterNext ==
    \/ Advance
    \/ \E r \in Requests, c \in Clients : Arrive(r, c)
    \/ \E r \in Requests : Grant(r) \/ Reject(r)

LimiterSpec == LimiterInit /\ [][LimiterNext]_limiterVars

-----------------------------------------------------------------------------
(* Properties.                                                             *)

\* Buckets hold between nothing and a full burst, and their times are readings of
\* the clock.
LimiterTypeOK ==
    /\ now \in 0 .. MaxTime
    /\ clients \in SUBSET Clients
    /\ tokens \in [Clients -> 0 .. Capacity]
    /\ updated \in [Clients -> 0 .. MaxTime]
    /\ lastSeen \in [Clients -> 0 .. MaxTime]
    /\ lastCleanupAt \in (0 .. MaxTime) \union {- CleanupInterval}
    /\ calls \in [Requests -> {NoCall} \union
                    [pc : {"waiting"}, client : Clients, at : 0 .. MaxTime]]
    /\ level \in [Clients -> Int]
    /\ promised \in [Clients -> Nat]

\* A client that does as Retry-After says is let through, whatever the order the
\* mutex serves its requests in and even if it was forgotten meanwhile, unless
\* another request of its own was let through first.
RetryHonoured ==
    [][\A r \in Requests :
        LET c == calls[r].client IN
        Reject(r) /\ promised[c] # 0 => calls[r].at < promised[c]]_limiterVars

\* The map does not grow with all the addresses ever seen: after any call, every
\* bucket in it was used within the last fifteen minutes.
ForgetsIdleClients ==
    [][\A r \in Requests : Grant(r) \/ Reject(r) =>
        \A c \in clients' : lastSeen'[c] > calls[r].at - ClientTTL - CleanupInterval]_limiterVars

\* The inductive invariant behind the properties, in parts.  Calls wait for
\* MaxWait at most;
CallsRecent ==
    \A r \in Requests : calls[r].pc = "waiting" =>
        calls[r].at <= now /\ now <= calls[r].at + MaxWait

\* a bucket's times are past, in order, and no further apart than a call waits;
TimesOrdered ==
    /\ lastCleanupAt <= now
    /\ \A c \in clients :
        /\ lastSeen[c] <= updated[c]
        /\ updated[c] <= lastSeen[c] + MaxWait
        /\ updated[c] <= now

\* and a bucket accrues a token by the time its client was told to come back.
PromisesCovered ==
    \A c \in clients : promised[c] # 0 =>
        tokens[c] + (promised[c] - updated[c]) >= Cost

CallInv ==
    /\ LimiterTypeOK
    /\ CallsRecent
    /\ TimesOrdered
    /\ PromisesCovered

\* If waits are short, no bucket was idle for long when the last cleanup looked.
SeenSinceCleanup ==
    \A c \in clients : lastSeen[c] > lastCleanupAt - ClientTTL

\* If it is full by the time a client is forgotten, the history's bucket holds
\* whatever the limiter would grant by now.
LevelCovers ==
    \A c \in Clients :
        /\ level[c] <= LevelCapacity
        /\ c \in clients =>
              level[c] >= Lesser(LevelCapacity, tokens[c] + Accrued(now - updated[c]))
        /\ c \notin clients => level[c] = LevelCapacity

\* The limiter implements a bucket per client that is never forgotten, although
\* it forgets buckets and works with stale readings of the clock.
Bucket == INSTANCE TokenBucket WITH Capacity <- LevelCapacity

ImplementsBucket == Bucket!Spec
=============================================================================
