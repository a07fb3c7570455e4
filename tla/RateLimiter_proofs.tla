-------------------------- MODULE RateLimiter_proofs --------------------------
(***************************************************************************)
(* Theorems about RateLimiter, for any limit and any numbers of clients    *)
(* and of calls waiting for the mutex.  What waits and bursts have to do   *)
(* with how long a client is remembered is assumed where it is needed.     *)
(***************************************************************************)
EXTENDS RateLimiter, TLAPS

-----------------------------------------------------------------------------
(* Constants and helpers.                                                  *)

\* What accrues in a time is linear in it, and at least the time itself.
LEMMA AccruedInt == ASSUME NEW x \in Int PROVE Accrued(x) \in Int
BY LimitAssumption DEF Accrued

LEMMA AccruedGrows == ASSUME NEW x \in Nat PROVE Accrued(x) >= x
<1>1. \A p \in Nat \ {0} : p * x >= x
  OBVIOUS
<1> QED
  BY <1>1, LimitAssumption DEF Accrued

LEMMA AccruedSum ==
    ASSUME NEW x \in Int, NEW y \in Int
    PROVE  Accrued(x + y) = Accrued(x) + Accrued(y)
<1>1. \A p \in Nat : p * (x + y) = p * x + p * y
  OBVIOUS
<1> QED
  BY <1>1, LimitAssumption DEF Accrued

LEMMA AccruedOrder ==
    ASSUME NEW x \in Int, NEW y \in Int, x <= y
    PROVE  Accrued(x) <= Accrued(y)
<1>1. \A p \in Nat : p * x <= p * y
  OBVIOUS
<1> QED
  BY <1>1, LimitAssumption DEF Accrued

LEMMA CapacityFacts == Capacity \in Nat /\ Capacity >= Cost /\ LevelCapacity \in Nat
<1>1. \A b, k \in Nat : b # 0 => b * k \in Nat /\ b * k >= k
  OBVIOUS
<1>2. Accrued(MaxWait) \in Int /\ Accrued(MaxWait) >= MaxWait
  BY LimitAssumption, AccruedInt, AccruedGrows
<1> QED
  BY <1>1, <1>2, LimitAssumption DEF Capacity, LevelCapacity

LEMMA RetryAfterFacts ==
    ASSUME NEW left \in Nat, left < Cost
    PROVE  RetryAfter(left) \in Nat /\ RetryAfter(left) >= Cost - left
<1>1. \A x \in Int : x % Second \in 0 .. Second - 1
  BY LimitAssumption
<1>2. left - Cost \in Int /\ Cost - left \in Nat
  BY LimitAssumption
<1> QED
  BY <1>1, <1>2, LimitAssumption DEF RetryAfter

\* A call that waits for the mutex has a client and a reading.
LEMMA CallFacts ==
    ASSUME LimiterTypeOK, NEW r \in Requests, calls[r].pc = "waiting"
    PROVE  /\ calls[r].client \in Clients
           /\ calls[r].at \in 0 .. MaxTime
BY DEF LimiterTypeOK, NoCall

\* What a refill leaves: between nothing and a full bucket, and not less than a
\* token if the client was forgotten.
LEMMA RefillFacts ==
    ASSUME LimiterTypeOK, NEW c \in Clients, NEW at \in 0 .. MaxTime
    PROVE  /\ Refilled(c, at).tokens \in 0 .. Capacity
           /\ Refilled(c, at).updated \in 0 .. MaxTime
           /\ Refilled(c, at).updated >= at
           /\ c \notin Remembered(at) =>
                /\ Refilled(c, at).tokens = Capacity
                /\ Refilled(c, at).updated = at
           /\ c \in Remembered(at) /\ at > updated[c] =>
                /\ Refilled(c, at).tokens = Lesser(Capacity, tokens[c] + (at - updated[c]))
                /\ Refilled(c, at).updated = at
           /\ c \in Remembered(at) /\ at <= updated[c] =>
                /\ Refilled(c, at).tokens = tokens[c]
                /\ Refilled(c, at).updated = updated[c]
<1>1. /\ tokens[c] \in 0 .. Capacity /\ updated[c] \in 0 .. MaxTime
      /\ Capacity \in Nat /\ MaxTime \in Nat
  BY CapacityFacts, LimitAssumption DEF LimiterTypeOK
<1>2. CASE c \notin Remembered(at)
  BY <1>1, <1>2 DEF Refilled
<1>3. CASE c \in Remembered(at) /\ at > updated[c]
  BY <1>1, <1>3 DEF Refilled, Lesser
<1>4. CASE c \in Remembered(at) /\ at <= updated[c]
  BY <1>1, <1>4 DEF Refilled
<1> QED
  BY <1>1, <1>2, <1>3, <1>4

\* What a call that ends leaves of the map.
LEMMA UpdateFacts ==
    ASSUME LimiterTypeOK, NEW c \in Clients, NEW at \in 0 .. MaxTime,
           NEW left \in 0 .. Capacity, UpdateBuckets(c, at, left)
    PROVE  /\ clients' = Remembered(at) \union {c}
           /\ clients' \subseteq Clients
           /\ Remembered(at) \subseteq clients
           /\ tokens'[c] = left
           /\ updated'[c] = Refilled(c, at).updated
           /\ lastSeen'[c] = at
           /\ \A d \in Remembered(at) \ {c} :
                /\ d \in Clients
                /\ tokens'[d] = tokens[d]
                /\ updated'[d] = updated[d]
                /\ lastSeen'[d] = lastSeen[d]
           /\ lastCleanupAt' = IF CleanupDue(at) THEN at ELSE lastCleanupAt
BY DEF UpdateBuckets, LimiterTypeOK, Remembered

-----------------------------------------------------------------------------
(* Type correctness.                                                       *)

LEMMA TypeInit == LimiterInit => LimiterTypeOK
<1> SUFFICES ASSUME LimiterInit PROVE LimiterTypeOK
  OBVIOUS
<1>1. 0 \in 0 .. MaxTime /\ 0 \in 0 .. Capacity /\ LevelCapacity \in Int
  BY CapacityFacts, LimitAssumption
<1>2. /\ tokens \in [Clients -> 0 .. Capacity]
      /\ updated \in [Clients -> 0 .. MaxTime]
      /\ lastSeen \in [Clients -> 0 .. MaxTime]
      /\ level \in [Clients -> Int]
      /\ promised \in [Clients -> Nat]
  BY <1>1 DEF LimiterInit
<1>3. /\ now \in 0 .. MaxTime
      /\ clients \in SUBSET Clients
      /\ lastCleanupAt \in (0 .. MaxTime) \union {- CleanupInterval}
      /\ calls \in [Requests -> {NoCall} \union
                      [pc : {"waiting"}, client : Clients, at : 0 .. MaxTime]]
  BY <1>1 DEF LimiterInit
<1> QED
  BY <1>2, <1>3 DEF LimiterTypeOK

\* The map stays well typed when a call ends.
LEMMA UpdateTypes ==
    ASSUME LimiterTypeOK, NEW c \in Clients, NEW at \in 0 .. MaxTime,
           NEW left \in 0 .. Capacity, UpdateBuckets(c, at, left)
    PROVE  /\ clients' \in SUBSET Clients
           /\ tokens' \in [Clients -> 0 .. Capacity]
           /\ updated' \in [Clients -> 0 .. MaxTime]
           /\ lastSeen' \in [Clients -> 0 .. MaxTime]
           /\ lastCleanupAt' \in (0 .. MaxTime) \union {- CleanupInterval}
<1>1. /\ 0 \in 0 .. MaxTime /\ 0 \in 0 .. Capacity
      /\ Refilled(c, at).updated \in 0 .. MaxTime
  BY CapacityFacts, LimitAssumption, RefillFacts
<1>2. clients' \in SUBSET Clients
  BY UpdateFacts
<1>3. tokens' \in [Clients -> 0 .. Capacity]
  BY <1>1 DEF UpdateBuckets, LimiterTypeOK
<1>4. updated' \in [Clients -> 0 .. MaxTime]
  BY <1>1 DEF UpdateBuckets, LimiterTypeOK
<1>5. lastSeen' \in [Clients -> 0 .. MaxTime]
  BY <1>1 DEF UpdateBuckets, LimiterTypeOK
<1>6. lastCleanupAt' \in (0 .. MaxTime) \union {- CleanupInterval}
  BY DEF UpdateBuckets, LimiterTypeOK
<1> QED
  BY <1>2, <1>3, <1>4, <1>5, <1>6

LEMMA TypeStep == LimiterTypeOK /\ [LimiterNext]_limiterVars => LimiterTypeOK'
<1> SUFFICES ASSUME LimiterTypeOK, [LimiterNext]_limiterVars PROVE LimiterTypeOK'
  OBVIOUS
<1>1. CASE Advance
  <2>1. now' \in 0 .. MaxTime
    BY <1>1, LimitAssumption DEF Advance, LimiterTypeOK
  <2>2. level' \in [Clients -> Int]
    <3>1. Accrued(1) \in Int
      BY AccruedInt
    <3> QED
      BY <1>1, <3>1, CapacityFacts DEF Advance, LimiterTypeOK, Lesser
  <2> QED
    BY <1>1, <2>1, <2>2 DEF Advance, LimiterTypeOK, buckets
<1>2. ASSUME NEW r \in Requests, NEW c \in Clients, Arrive(r, c) PROVE LimiterTypeOK'
  <2>1. Call(c) \in [pc : {"waiting"}, client : Clients, at : 0 .. MaxTime]
    BY DEF Call, LimiterTypeOK
  <2> QED
    BY <1>2, <2>1 DEF Arrive, LimiterTypeOK, buckets
<1>3. ASSUME NEW r \in Requests, Grant(r) PROVE LimiterTypeOK'
  <2> DEFINE c == calls[r].client
             b == Refilled(c, calls[r].at)
  <2>1. c \in Clients /\ calls[r].at \in 0 .. MaxTime
    BY <1>3, CallFacts DEF Grant
  <2>2. b.tokens \in 0 .. Capacity /\ b.tokens >= Cost
    BY <1>3, <2>1, RefillFacts DEF Grant
  <2>3. b.tokens - Cost \in 0 .. Capacity
    BY <2>2, CapacityFacts, LimitAssumption
  <2>4. UpdateBuckets(c, calls[r].at, b.tokens - Cost)
    BY <1>3 DEF Grant
  <2>5. level' \in [Clients -> Int] /\ promised' \in [Clients -> Nat]
    BY <1>3, <2>1, LimitAssumption DEF Grant, LimiterTypeOK
  <2>6. /\ now' \in 0 .. MaxTime
        /\ calls' \in [Requests -> {NoCall} \union
                        [pc : {"waiting"}, client : Clients, at : 0 .. MaxTime]]
    BY <1>3 DEF Grant, LimiterTypeOK
  <2> HIDE DEF c, b
  <2> QED
    BY <2>1, <2>3, <2>4, <2>5, <2>6, UpdateTypes DEF LimiterTypeOK
<1>4. ASSUME NEW r \in Requests, Reject(r) PROVE LimiterTypeOK'
  <2> DEFINE c == calls[r].client
             b == Refilled(c, calls[r].at)
  <2>1. c \in Clients /\ calls[r].at \in 0 .. MaxTime
    BY <1>4, CallFacts DEF Reject
  <2>2. b.tokens \in 0 .. Capacity /\ b.tokens < Cost
    BY <1>4, <2>1, RefillFacts DEF Reject
  <2>3. RetryAfter(b.tokens) \in Nat /\ now \in Nat
    BY <2>2, CapacityFacts, RetryAfterFacts DEF LimiterTypeOK
  <2>4. UpdateBuckets(c, calls[r].at, b.tokens)
    BY <1>4 DEF Reject
  <2>5. level' = level /\ promised' \in [Clients -> Nat]
    BY <1>4, <2>1, <2>3 DEF Reject, LimiterTypeOK, Lesser
  <2>6. /\ now' \in 0 .. MaxTime
        /\ calls' \in [Requests -> {NoCall} \union
                        [pc : {"waiting"}, client : Clients, at : 0 .. MaxTime]]
    BY <1>4 DEF Reject, LimiterTypeOK
  <2> HIDE DEF c, b
  <2>7. level' \in [Clients -> Int]
    BY <2>5 DEF LimiterTypeOK
  <2> QED
    BY <2>1, <2>2, <2>4, <2>5, <2>6, <2>7, UpdateTypes DEF LimiterTypeOK
<1>5. CASE UNCHANGED limiterVars
  BY <1>5 DEF limiterVars, buckets, LimiterTypeOK
<1> QED
  BY <1>1, <1>2, <1>3, <1>4, <1>5 DEF LimiterNext

\* Buckets hold between nothing and a full burst at all times.
THEOREM TypeCorrect == LimiterSpec => []LimiterTypeOK
BY TypeInit, TypeStep, PTL DEF LimiterSpec

-----------------------------------------------------------------------------
(* What calls do to the parts of the invariants.                           *)

\* The readings the invariant compares are integers.
LEMMA TypeFacts ==
    ASSUME LimiterTypeOK
    PROVE  /\ now \in Int /\ lastCleanupAt \in Int
           /\ Capacity \in Nat /\ LevelCapacity = Capacity + Accrued(MaxWait)
           /\ \A c \in Clients :
                /\ tokens[c] \in 0 .. Capacity /\ updated[c] \in Int
                /\ lastSeen[c] \in Int /\ level[c] \in Int /\ promised[c] \in Nat
           /\ clients \subseteq Clients
BY CapacityFacts, LimitAssumption DEF LimiterTypeOK, LevelCapacity

\* A refill's time is past.
LEMMA RefillPast ==
    ASSUME LimiterTypeOK, TimesOrdered, NEW c \in Clients, NEW at \in 0 .. MaxTime, at <= now
    PROVE  Refilled(c, at).updated <= now
<1>1. Remembered(at) \subseteq clients /\ at \in Int
  BY LimitAssumption DEF Remembered
<1>2. \/ Refilled(c, at).updated = at
      \/ c \in clients /\ Refilled(c, at).updated = updated[c]
  BY <1>1, RefillFacts, TypeFacts
<1> QED
  BY <1>2 DEF TimesOrdered

\* A call that ends leaves the times in order.
LEMMA TimesAfterCall ==
    ASSUME LimiterTypeOK, TimesOrdered,
           NEW c \in Clients, NEW at \in 0 .. MaxTime, at <= now, now <= at + MaxWait,
           NEW left \in 0 .. Capacity, UpdateBuckets(c, at, left), now' = now
    PROVE  TimesOrdered'
<1>1. lastCleanupAt' <= now
  BY UpdateFacts DEF TimesOrdered
<1>2. ASSUME NEW d \in clients', d # c
      PROVE  /\ lastSeen'[d] <= updated'[d]
             /\ updated'[d] <= lastSeen'[d] + MaxWait
             /\ updated'[d] <= now
  <2>1. /\ d \in clients
        /\ updated'[d] = updated[d] /\ lastSeen'[d] = lastSeen[d]
    BY <1>2, UpdateFacts
  <2> QED
    BY <2>1 DEF TimesOrdered
<1>3. /\ lastSeen'[c] <= updated'[c]
      /\ updated'[c] <= lastSeen'[c] + MaxWait
      /\ updated'[c] <= now
  <2>1. lastSeen'[c] = at /\ updated'[c] = Refilled(c, at).updated
    BY UpdateFacts
  <2>2. /\ Refilled(c, at).updated >= at /\ Refilled(c, at).updated <= now
        /\ Refilled(c, at).updated \in Int /\ at \in Int /\ now \in Int
    BY RefillFacts, RefillPast, TypeFacts, LimitAssumption
  <2> QED
    BY <2>1, <2>2, LimitAssumption
<1> QED
  BY <1>1, <1>2, <1>3 DEF TimesOrdered

\* If waits are short, a call that ends leaves no bucket behind that was idle for
\* ClientTTL at the last cleanup.
LEMMA SeenAfterCall ==
    ASSUME LimiterTypeOK, TimesOrdered, WaitsAreShort, SeenSinceCleanup,
           NEW c \in Clients, NEW at \in 0 .. MaxTime, at <= now, now <= at + MaxWait,
           NEW left \in 0 .. Capacity, UpdateBuckets(c, at, left)
    PROVE  SeenSinceCleanup'
<1>1. /\ at \in Int /\ MaxWait \in Int /\ ClientTTL \in Int /\ MaxWait < ClientTTL
      /\ now <= at + MaxWait /\ now \in Int /\ lastCleanupAt \in Int
  BY TypeFacts, LimitAssumption DEF WaitsAreShort
<1>2. /\ lastCleanupAt' = IF CleanupDue(at) THEN at ELSE lastCleanupAt
      /\ lastCleanupAt <= now
  BY UpdateFacts DEF TimesOrdered
<1>3. ASSUME NEW d \in clients', d # c
      PROVE  lastSeen'[d] > lastCleanupAt' - ClientTTL
  <2>1. d \in Remembered(at) /\ d \in clients /\ d \in Clients /\ lastSeen'[d] = lastSeen[d]
    BY <1>3, UpdateFacts
  <2>2. CASE CleanupDue(at)
    <3>1. lastCleanupAt' = at /\ at - lastSeen[d] < ClientTTL
      BY <1>2, <2>1, <2>2 DEF Remembered
    <3> QED
      BY <1>1, <2>1, <3>1, TypeFacts
  <2>3. CASE ~CleanupDue(at)
    BY <1>2, <2>1, <2>3 DEF SeenSinceCleanup
  <2> QED
    BY <2>2, <2>3
<1>4. lastSeen'[c] > lastCleanupAt' - ClientTTL
  <2>1. lastSeen'[c] = at
    BY UpdateFacts
  <2>2. lastCleanupAt' \in Int /\ lastCleanupAt' <= now
    BY <1>1, <1>2
  <2> DEFINE last == lastCleanupAt'
  <2>3. last \in Int /\ last <= now
    BY <2>2
  <2> HIDE DEF last
  <2>4. at > last - ClientTTL
    BY <1>1, <2>3
  <2> QED
    BY <2>1, <2>4 DEF last
<1> QED
  BY <1>3, <1>4 DEF SeenSinceCleanup

\* A client is forgotten only when its bucket would have been full again at Pace,
\* and so is the history's.
LEMMA ForgottenFull ==
    ASSUME LimiterTypeOK, TimesOrdered, LevelCovers, FullWhenForgotten,
           NEW c \in Clients, NEW at \in 0 .. MaxTime, at <= now, c \notin Remembered(at)
    PROVE  level[c] = LevelCapacity
<1>1. /\ at \in Int /\ MaxWait \in Nat /\ ClientTTL \in Nat
      /\ tokens[c] \in Nat /\ updated[c] \in Int
      /\ lastSeen[c] \in Int /\ level[c] \in Int
      /\ now \in Int /\ Capacity \in Nat /\ LevelCapacity = Capacity + Accrued(MaxWait)
  BY LimitAssumption, TypeFacts
<1>2. CASE c \notin clients
  BY <1>2 DEF LevelCovers
<1>3. CASE c \in clients
  <2>1. at - lastSeen[c] >= ClientTTL /\ updated[c] <= lastSeen[c] + MaxWait
    BY <1>1, <1>3 DEF Remembered, TimesOrdered
  <2> DEFINE free == ClientTTL - 2 * MaxWait
             idle == now - updated[c]
  <2>2. free \in Int /\ idle \in Int /\ free + MaxWait \in Int /\ free + MaxWait <= idle
    BY <1>1, <2>1
  <2>3. Capacity <= Accrued(free)
    BY DEF FullWhenForgotten, Accrued
  <2> HIDE DEF free, idle
  <2>4. /\ Accrued(free) \in Int /\ Accrued(MaxWait) \in Int /\ Accrued(idle) \in Int
        /\ Accrued(free + MaxWait) \in Int
    BY <1>1, <2>2, AccruedInt
  <2>5. Accrued(free + MaxWait) = Accrued(free) + Accrued(MaxWait)
    BY <1>1, <2>2, AccruedSum
  <2>6. Accrued(free + MaxWait) <= Accrued(idle)
    BY <2>2, AccruedOrder
  <2>7. tokens[c] + Accrued(idle) >= LevelCapacity
    BY <1>1, <2>3, <2>4, <2>5, <2>6
  <2>8. /\ level[c] <= LevelCapacity
        /\ level[c] >= Lesser(LevelCapacity, tokens[c] + Accrued(idle))
    BY <1>3 DEF LevelCovers, idle
  <2>9. LevelCapacity \in Int
    BY CapacityFacts
  <2> QED
    BY <1>1, <2>4, <2>7, <2>8, <2>9 DEF Lesser
<1> QED
  BY <1>2, <1>3

\* What the limiter would grant by now is covered by the history's bucket before
\* a call, whether the call finds a bucket or not: the refill that uses the
\* call's reading accrues no more than the history did.
LEMMA RefillCovered ==
    ASSUME LimiterTypeOK, TimesOrdered, LevelCovers, FullWhenForgotten,
           NEW c \in Clients, NEW at \in 0 .. MaxTime,
           at <= now, now <= at + MaxWait
    PROVE  Refilled(c, at).tokens + Accrued(now - Refilled(c, at).updated) <= level[c]
<1> DEFINE b == Refilled(c, at)
           wait == now - at
<1> SUFFICES b.tokens + Accrued(now - b.updated) <= level[c]
  OBVIOUS
<1>1. /\ at \in Int /\ MaxWait \in Nat /\ wait \in Int /\ wait <= MaxWait
      /\ tokens[c] \in Nat /\ tokens[c] <= Capacity /\ updated[c] \in Int
      /\ level[c] \in Int /\ now \in Int
      /\ Capacity \in Nat /\ LevelCapacity = Capacity + Accrued(MaxWait)
  BY LimitAssumption, TypeFacts
<1>2. /\ Accrued(wait) <= Accrued(MaxWait)
      /\ Accrued(wait) \in Int /\ Accrued(MaxWait) \in Int
  <2> HIDE DEF wait
  <2>1. wait \in Int /\ MaxWait \in Int /\ wait <= MaxWait
    BY <1>1
  <2> QED
    BY <2>1, AccruedInt, AccruedOrder
<1>3. CASE c \notin Remembered(at)
  <2>1. b.tokens = Capacity /\ b.updated = at /\ level[c] = LevelCapacity
    BY <1>3, RefillFacts, ForgottenFull
  <2> HIDE DEF b
  <2> QED
    BY <1>1, <1>2, <2>1
<1>4. CASE c \in Remembered(at) /\ at > updated[c]
  <2> DEFINE since == at - updated[c]
             idle == now - updated[c]
  <2>1. b.tokens = Lesser(Capacity, tokens[c] + since) /\ b.updated = at
    BY <1>4, RefillFacts
  <2>2. level[c] >= Lesser(LevelCapacity, tokens[c] + Accrued(idle))
    BY <1>4 DEF LevelCovers, Remembered
  <2>3. since \in Nat /\ idle = since + wait
    BY <1>1, <1>4
  <2> HIDE DEF b, since, idle
  <2>4. /\ Accrued(idle) = Accrued(since) + Accrued(wait)
        /\ Accrued(since) >= since /\ Accrued(since) \in Int
    <3> HIDE DEF wait
    <3>1. since \in Nat /\ since \in Int /\ wait \in Int
      BY <1>1, <2>3
    <3> QED
      BY <2>3, <3>1, AccruedInt, AccruedGrows, AccruedSum
  <2>5. b.tokens <= Capacity /\ b.tokens <= tokens[c] + Accrued(since) /\ b.tokens \in Int
    BY <1>1, <2>1, <2>3, <2>4 DEF Lesser
  <2>6. b.tokens + Accrued(wait) <= level[c]
    BY <1>1, <1>2, <2>2, <2>4, <2>5 DEF Lesser
  <2> QED
    BY <2>1, <2>6
<1>5. CASE c \in Remembered(at) /\ at <= updated[c]
  <2> DEFINE idle == now - updated[c]
  <2>1. b.tokens = tokens[c] /\ b.updated = updated[c]
    BY <1>5, RefillFacts
  <2>2. level[c] >= Lesser(LevelCapacity, tokens[c] + Accrued(idle))
    BY <1>5 DEF LevelCovers, Remembered
  <2>3. idle \in Int /\ idle <= MaxWait
    BY <1>1, <1>5
  <2> HIDE DEF b, idle
  <2>4. Accrued(idle) <= Accrued(MaxWait) /\ Accrued(idle) \in Int
    <3>1. MaxWait \in Int
      BY <1>1
    <3> QED
      BY <2>3, <3>1, AccruedInt, AccruedOrder
  <2>5. tokens[c] + Accrued(idle) <= level[c]
    BY <1>1, <1>2, <2>2, <2>4 DEF Lesser
  <2> QED
    BY <2>1, <2>5 DEF idle
<1> QED
  BY <1>1, <1>3, <1>4, <1>5

\* A call that ends takes as much from the bucket, if anything, as from the
\* history's.
LEMMA LevelAfterCall ==
    ASSUME LimiterTypeOK, TimesOrdered, LevelCovers, FullWhenForgotten,
           NEW c \in Clients, NEW at \in 0 .. MaxTime, at <= now, now <= at + MaxWait,
           NEW paid \in Nat, paid <= Refilled(c, at).tokens,
           UpdateBuckets(c, at, Refilled(c, at).tokens - paid),
           now' = now, level' = [level EXCEPT ![c] = @ - paid]
    PROVE  LevelCovers'
<1> DEFINE b == Refilled(c, at)
           idle == now - b.updated
<1>1. /\ level[c] \in Int /\ Capacity \in Nat /\ LevelCapacity \in Int
      /\ b.tokens \in 0 .. Capacity /\ level[c] <= LevelCapacity
  BY LimitAssumption, TypeFacts, RefillFacts, CapacityFacts DEF LevelCovers
<1>2. b.tokens - paid \in 0 .. Capacity
  BY <1>1
<1>3. b.tokens + Accrued(idle) <= level[c] /\ Accrued(idle) \in Int
  <2>1. b.updated \in Int /\ now \in Int
    BY RefillFacts, TypeFacts, LimitAssumption
  <2>2. idle \in Int
    BY <2>1
  <2> QED
    BY <2>2, RefillCovered, AccruedInt
<1>4. /\ level'[c] = level[c] - paid
      /\ tokens'[c] = b.tokens - paid /\ now' - updated'[c] = idle /\ c \in clients'
  BY <1>2, UpdateFacts DEF LimiterTypeOK
<1> HIDE DEF b, idle
<1>5. /\ level'[c] <= LevelCapacity
      /\ level'[c] >= Lesser(LevelCapacity, tokens'[c] + Accrued(now' - updated'[c]))
  BY <1>1, <1>3, <1>4 DEF Lesser
<1>6. ASSUME NEW d \in Clients, d # c
      PROVE  /\ level'[d] <= LevelCapacity
             /\ d \in clients' =>
                  level'[d] >= Lesser(LevelCapacity, tokens'[d] + Accrued(now' - updated'[d]))
             /\ d \notin clients' => level'[d] = LevelCapacity
  <2>1. level'[d] = level[d] /\ level[d] <= LevelCapacity
    BY <1>6 DEF LimiterTypeOK, LevelCovers
  <2>2. CASE d \in Remembered(at)
    <3>1. /\ d \in clients' /\ d \in clients
          /\ tokens'[d] = tokens[d] /\ updated'[d] = updated[d]
      BY <1>2, <1>6, <2>2, UpdateFacts DEF b
    <3> QED
      BY <2>1, <3>1 DEF LevelCovers
  <2>3. CASE d \notin Remembered(at)
    <3>1. d \notin clients'
      BY <1>2, <1>6, <2>3, UpdateFacts DEF b
    <3> QED
      BY <2>1, <2>3, <3>1, ForgottenFull
  <2> QED
    BY <2>2, <2>3
<1> QED
  BY <1>4, <1>5, <1>6 DEF LevelCovers, LevelCapacity, Accrued

\* A refused client's bucket keeps accruing towards the moment it was promised.
LEMMA PromiseKept ==
    ASSUME LimiterTypeOK, PromisesCovered,
           NEW c \in Clients, NEW at \in 0 .. MaxTime,
           Refilled(c, at).tokens < Cost, promised[c] # 0
    PROVE  /\ at < promised[c]
           /\ Refilled(c, at).tokens + (promised[c] - Refilled(c, at).updated) >= Cost
<1> DEFINE b == Refilled(c, at)
<1> SUFFICES at < promised[c] /\ b.tokens + (promised[c] - b.updated) >= Cost
  OBVIOUS
<1>1. /\ at \in Int /\ Cost \in Nat /\ Capacity \in Nat /\ Capacity >= Cost
      /\ tokens[c] \in 0 .. Capacity /\ updated[c] \in Int /\ promised[c] \in Nat
      /\ b.tokens < Cost
  BY LimitAssumption, TypeFacts, CapacityFacts
<1>2. c \in Remembered(at)
  BY <1>1, RefillFacts
<1>3. tokens[c] + (promised[c] - updated[c]) >= Cost
  BY <1>2 DEF PromisesCovered, Remembered
<1>4. \/ /\ at > updated[c]
         /\ b.tokens = Lesser(Capacity, tokens[c] + (at - updated[c])) /\ b.updated = at
      \/ /\ at <= updated[c]
         /\ b.tokens = tokens[c] /\ b.updated = updated[c]
  BY <1>1, <1>2, RefillFacts
<1> HIDE DEF b
<1> QED
  BY <1>1, <1>3, <1>4 DEF Lesser

\* A call that ends leaves the promises to the other clients covered.
LEMMA OthersPromises ==
    ASSUME LimiterTypeOK, PromisesCovered,
           NEW c \in Clients, NEW at \in 0 .. MaxTime, NEW left \in 0 .. Capacity,
           UpdateBuckets(c, at, left),
           \A d \in Clients \ {c} : promised'[d] = promised[d],
           promised'[c] # 0 => left + (promised'[c] - Refilled(c, at).updated) >= Cost
    PROVE  PromisesCovered'
<1>1. ASSUME NEW d \in clients', d # c, promised'[d] # 0
      PROVE  tokens'[d] + (promised'[d] - updated'[d]) >= Cost
  <2>1. /\ d \in clients /\ d \in Clients
        /\ tokens'[d] = tokens[d] /\ updated'[d] = updated[d]
    BY <1>1, UpdateFacts
  <2> QED
    BY <1>1, <2>1 DEF PromisesCovered
<1> QED
  BY <1>1, UpdateFacts DEF PromisesCovered

\* Calls that end leave the other calls as they are.
LEMMA CallsAfterCall ==
    ASSUME LimiterTypeOK, CallsRecent, NEW r \in Requests,
           calls' = [calls EXCEPT ![r] = NoCall], now' = now
    PROVE  CallsRecent'
<1>1. calls'[r].pc = "none"
  BY DEF LimiterTypeOK, NoCall
<1>2. \A q \in Requests \ {r} : calls'[q] = calls[q]
  BY DEF LimiterTypeOK
<1> QED
  BY <1>1, <1>2 DEF CallsRecent

\* What a call that ends does, let through or not: it pays for itself or nothing.
LEMMA EndedCall ==
    ASSUME CallInv, NEW r \in Requests, Grant(r) \/ Reject(r)
    PROVE  LET c == calls[r].client
               at == calls[r].at IN
           /\ c \in Clients /\ at \in 0 .. MaxTime
           /\ at <= now /\ now <= at + MaxWait
           /\ now' = now /\ calls' = [calls EXCEPT ![r] = NoCall]
           /\ \E paid \in Nat :
                /\ paid <= Refilled(c, at).tokens
                /\ Refilled(c, at).tokens - paid \in 0 .. Capacity
                /\ UpdateBuckets(c, at, Refilled(c, at).tokens - paid)
                /\ level' = [level EXCEPT ![c] = @ - paid]
<1> USE DEF CallInv
<1> DEFINE c == calls[r].client
           at == calls[r].at
           b == Refilled(c, at)
<1>1. calls[r].pc = "waiting" /\ now' = now /\ calls' = [calls EXCEPT ![r] = NoCall]
  BY DEF Grant, Reject
<1>2. c \in Clients /\ at \in 0 .. MaxTime /\ at <= now /\ now <= at + MaxWait
  BY <1>1, CallFacts DEF CallsRecent
<1>3. b.tokens \in 0 .. Capacity /\ Cost \in Nat /\ Capacity \in Nat
  BY <1>2, RefillFacts, LimitAssumption, CapacityFacts
<1>4. CASE Grant(r)
  <2>1. /\ b.tokens >= Cost /\ UpdateBuckets(c, at, b.tokens - Cost)
        /\ level' = [level EXCEPT ![c] = @ - Cost]
    BY <1>4 DEF Grant
  <2>2. Cost <= b.tokens /\ b.tokens - Cost \in 0 .. Capacity
    BY <1>3, <2>1
  <2> QED
    BY <1>1, <1>2, <1>3, <2>1, <2>2
<1>5. CASE Reject(r)
  <2>1. UpdateBuckets(c, at, b.tokens) /\ level' = level
    BY <1>5 DEF Reject
  <2>2. b.tokens - 0 = b.tokens /\ 0 <= b.tokens /\ b.tokens - 0 \in 0 .. Capacity
    BY <1>3
  <2>3. level' = [level EXCEPT ![c] = @ - 0]
    BY <1>2, <2>1 DEF LimiterTypeOK
  <2>4. UpdateBuckets(c, at, b.tokens - 0)
    BY <2>1, <2>2
  <2> QED
    BY <1>1, <1>2, <2>2, <2>3, <2>4
<1> QED
  BY <1>4, <1>5

-----------------------------------------------------------------------------
(* The inductive invariants.                                               *)

LEMMA CallInvInit == LimiterInit => CallInv
BY TypeInit, LimitAssumption
   DEF LimiterInit, CallInv, CallsRecent, TimesOrdered, PromisesCovered, NoCall

LEMMA CallInvStep == CallInv /\ [LimiterNext]_limiterVars => CallInv'
<1> SUFFICES ASSUME CallInv, [LimiterNext]_limiterVars PROVE CallInv'
  OBVIOUS
<1> USE DEF CallInv
<1>0. LimiterTypeOK' /\ MaxWait \in Nat /\ Cost \in Nat
  BY TypeStep, LimitAssumption
<1>1. CASE Advance
  <2>1. /\ now' = now + 1 /\ UNCHANGED <<buckets, calls, promised>>
        /\ \A r \in Requests : calls[r].pc = "waiting" => now < calls[r].at + MaxWait
    BY <1>1 DEF Advance
  <2>2. CallsRecent'
    <3> SUFFICES ASSUME NEW r \in Requests, calls[r].pc = "waiting"
                 PROVE  calls[r].at <= now + 1 /\ now + 1 <= calls[r].at + MaxWait
      BY <2>1 DEF CallsRecent
    <3>1. calls[r].at \in 0 .. MaxTime
      BY CallFacts
    <3>2. calls[r].at \in Int /\ now \in Int
      BY <3>1, TypeFacts, LimitAssumption
    <3> QED
      BY <1>0, <2>1, <3>2 DEF CallsRecent
  <2>3. TimesOrdered' /\ PromisesCovered'
    BY <2>1, TypeFacts DEF TimesOrdered, PromisesCovered, buckets
  <2> QED
    BY <1>0, <2>2, <2>3
<1>2. ASSUME NEW r \in Requests, NEW c \in Clients, Arrive(r, c)
      PROVE  CallInv'
  <2>1. CallsRecent'
    <3>1. /\ calls'[r].at = now
          /\ \A q \in Requests \ {r} : calls'[q] = calls[q]
          /\ now' = now
      BY <1>2 DEF Arrive, Call, LimiterTypeOK
    <3> QED
      BY <1>0, <3>1, TypeFacts DEF CallsRecent
  <2>2. TimesOrdered' /\ PromisesCovered'
    BY <1>2 DEF Arrive, buckets, TimesOrdered, PromisesCovered
  <2> QED
    BY <1>0, <2>1, <2>2
<1>3. ASSUME NEW r \in Requests, Grant(r) \/ Reject(r)
      PROVE  CallInv'
  <2> DEFINE c == calls[r].client
             at == calls[r].at
             b == Refilled(c, at)
  <2>1. /\ c \in Clients /\ at \in 0 .. MaxTime /\ at <= now /\ now <= at + MaxWait
        /\ now' = now /\ calls' = [calls EXCEPT ![r] = NoCall]
    BY <1>3, EndedCall
  <2>2. CallsRecent'
    BY <2>1, CallsAfterCall
  <2>3. TimesOrdered'
    <3>1. PICK left \in 0 .. Capacity : UpdateBuckets(c, at, left)
      BY <1>3, EndedCall
    <3> HIDE DEF c, at
    <3> QED
      BY <2>1, <3>1, TimesAfterCall
  <2>4. PromisesCovered'
    <3>1. b.tokens \in 0 .. Capacity
      BY <2>1, RefillFacts
    <3>2. CASE Grant(r)
      <4>1. /\ b.tokens - Cost \in 0 .. Capacity
            /\ UpdateBuckets(c, at, b.tokens - Cost)
        BY <1>0, <3>1, <3>2, CapacityFacts DEF Grant
      <4>2. promised'[c] = 0 /\ \A d \in Clients \ {c} : promised'[d] = promised[d]
        BY <2>1, <3>2 DEF Grant, LimiterTypeOK
      <4> HIDE DEF c, at
      <4> QED
        BY <2>1, <4>1, <4>2, OthersPromises
    <3>3. CASE Reject(r)
      <4> DEFINE again == now + RetryAfter(b.tokens)
      <4>1. /\ b.tokens < Cost /\ UpdateBuckets(c, at, b.tokens)
            /\ promised'[c] = IF promised[c] = 0 THEN again ELSE Lesser(promised[c], again)
            /\ \A d \in Clients \ {c} : promised'[d] = promised[d]
        BY <2>1, <3>3 DEF Reject, LimiterTypeOK
      <4>2. /\ b.updated \in Int /\ b.updated <= now /\ now \in Int
            /\ promised[c] \in Nat /\ b.tokens \in Nat
        BY <2>1, <3>1, RefillFacts, RefillPast, TypeFacts, LimitAssumption, CapacityFacts
      <4>3. RetryAfter(b.tokens) \in Nat /\ RetryAfter(b.tokens) >= Cost - b.tokens
        BY <4>1, <4>2, RetryAfterFacts
      <4>4. promised[c] # 0 => b.tokens + (promised[c] - b.updated) >= Cost
        BY <2>1, <4>1, PromiseKept
      <4> HIDE DEF c, at, b
      <4>5. b.tokens + (again - b.updated) >= Cost
        BY <1>0, <4>2, <4>3
      <4>6. b.tokens + (promised'[c] - b.updated) >= Cost
        BY <4>1, <4>4, <4>5 DEF Lesser
      <4> QED
        BY <2>1, <3>1, <4>1, <4>6, OthersPromises DEF b
    <3> QED
      BY <1>3, <3>2, <3>3
  <2> QED
    BY <1>0, <2>2, <2>3, <2>4
<1>4. CASE UNCHANGED limiterVars
  BY <1>0, <1>4 DEF limiterVars, buckets, CallsRecent, TimesOrdered, PromisesCovered
<1> QED
  BY <1>1, <1>2, <1>3, <1>4 DEF LimiterNext

LEMMA CallInvariance == LimiterSpec => []CallInv
BY CallInvInit, CallInvStep, PTL DEF LimiterSpec

LEMMA SeenStep ==
    WaitsAreShort /\ CallInv /\ SeenSinceCleanup /\ [LimiterNext]_limiterVars => SeenSinceCleanup'
<1> SUFFICES ASSUME WaitsAreShort, CallInv, SeenSinceCleanup, [LimiterNext]_limiterVars
             PROVE  SeenSinceCleanup'
  OBVIOUS
<1>1. CASE UNCHANGED buckets
  BY <1>1 DEF buckets, SeenSinceCleanup
<1>2. ASSUME NEW r \in Requests, Grant(r) \/ Reject(r)
      PROVE  SeenSinceCleanup'
  <2> DEFINE c == calls[r].client
             at == calls[r].at
  <2>1. /\ c \in Clients /\ at \in 0 .. MaxTime /\ at <= now /\ now <= at + MaxWait
        /\ \E left \in 0 .. Capacity : UpdateBuckets(c, at, left)
    BY <1>2, EndedCall
  <2> HIDE DEF c, at
  <2> QED
    BY <2>1, SeenAfterCall DEF CallInv
<1> QED
  BY <1>1, <1>2 DEF LimiterNext, Advance, Arrive, limiterVars

LEMMA SeenInvariance == ASSUME WaitsAreShort PROVE LimiterSpec => []SeenSinceCleanup
<1>1. LimiterInit => SeenSinceCleanup
  BY DEF LimiterInit, SeenSinceCleanup
<1>2. CallInv /\ SeenSinceCleanup /\ [LimiterNext]_limiterVars => SeenSinceCleanup'
  BY SeenStep
<1> QED
  BY CallInvariance, <1>1, <1>2, PTL DEF LimiterSpec

LEMMA LevelStep ==
    FullWhenForgotten /\ CallInv /\ LevelCovers /\ [LimiterNext]_limiterVars => LevelCovers'
<1> SUFFICES ASSUME FullWhenForgotten, CallInv, LevelCovers, [LimiterNext]_limiterVars
             PROVE  LevelCovers'
  OBVIOUS
<1>1. CASE Advance
  <2>1. /\ now' = now + 1 /\ UNCHANGED buckets
        /\ \A c \in Clients : level'[c] = Lesser(level[c] + Accrued(1), LevelCapacity)
    BY <1>1 DEF Advance
  <2>2. ASSUME NEW c \in Clients
        PROVE  /\ level'[c] <= LevelCapacity
               /\ c \in clients' =>
                    level'[c] >= Lesser(LevelCapacity, tokens'[c] + Accrued(now' - updated'[c]))
               /\ c \notin clients' => level'[c] = LevelCapacity
    <3> DEFINE idle == now - updated[c]
    <3>1. /\ tokens[c] \in Int /\ updated[c] \in Int /\ level[c] \in Int
          /\ now \in Int /\ LevelCapacity \in Nat
      BY TypeFacts, CapacityFacts DEF CallInv
    <3>2. UNCHANGED <<clients, tokens, updated>>
      BY <2>1 DEF buckets
    <3>3. idle \in Int /\ now' - updated'[c] = idle + 1
      BY <2>1, <3>1, <3>2
    <3>4. /\ level[c] <= LevelCapacity
          /\ c \in clients => level[c] >= Lesser(LevelCapacity, tokens[c] + Accrued(idle))
          /\ c \notin clients => level[c] = LevelCapacity
      BY DEF LevelCovers
    <3> HIDE DEF idle
    <3>5. /\ Accrued(idle + 1) = Accrued(idle) + Accrued(1)
          /\ Accrued(idle) \in Int /\ Accrued(1) \in Int /\ Accrued(1) >= 1
      <4>1. idle \in Int /\ 1 \in Int /\ 1 \in Nat
        BY <3>3
      <4> QED
        BY <4>1, AccruedInt, AccruedGrows, AccruedSum
    <3> QED
      BY <2>1, <3>1, <3>2, <3>3, <3>4, <3>5 DEF Lesser
  <2> QED
    BY <2>2 DEF LevelCovers, LevelCapacity, Accrued
<1>2. ASSUME NEW r \in Requests, Grant(r) \/ Reject(r)
      PROVE  LevelCovers'
  <2> DEFINE c == calls[r].client
             at == calls[r].at
  <2>1. /\ c \in Clients /\ at \in 0 .. MaxTime /\ at <= now /\ now <= at + MaxWait
        /\ now' = now
    BY <1>2, EndedCall
  <2>2. PICK paid \in Nat :
            /\ paid <= Refilled(c, at).tokens
            /\ UpdateBuckets(c, at, Refilled(c, at).tokens - paid)
            /\ level' = [level EXCEPT ![c] = @ - paid]
    BY <1>2, EndedCall
  <2> HIDE DEF c, at
  <2> QED
    BY <2>1, <2>2, LevelAfterCall DEF CallInv
<1>3. CASE UNCHANGED <<now, buckets, level>>
  BY <1>3 DEF buckets, LevelCovers, LevelCapacity, Accrued
<1> QED
  BY <1>1, <1>2, <1>3 DEF LimiterNext, Arrive, limiterVars

LEMMA LevelInvariance == ASSUME FullWhenForgotten PROVE LimiterSpec => []LevelCovers
<1>1. LimiterInit => LevelCovers
  <2>1. LevelCapacity <= LevelCapacity
    BY CapacityFacts
  <2>2. LimiterInit => \A c \in Clients : level[c] = LevelCapacity /\ c \notin clients
    BY DEF LimiterInit
  <2> QED
    BY <2>1, <2>2 DEF LevelCovers
<1>2. CallInv /\ LevelCovers /\ [LimiterNext]_limiterVars => LevelCovers'
  BY LevelStep
<1> QED
  BY CallInvariance, <1>1, <1>2, PTL DEF LimiterSpec

-----------------------------------------------------------------------------
(* The properties.                                                         *)

\* No more is granted than a bucket would grant that is never forgotten and is
\* refilled as time passes: forgetting clients and stale readings of the clock do
\* not widen the limit, except for the wait itself and, for a burst that takes
\* longer to accrue than a client is remembered, by the Pace it takes.
THEOREM LimitEnforced == ASSUME FullWhenForgotten PROVE LimiterSpec => ImplementsBucket
<1>1. LimiterInit => Bucket!Init
  BY DEF LimiterInit, Bucket!Init
<1>2. CallInv /\ LevelCovers /\ [LimiterNext]_limiterVars => [Bucket!Next]_(Bucket!vars)
  <2> SUFFICES ASSUME CallInv, LevelCovers, [LimiterNext]_limiterVars
               PROVE  Bucket!Next \/ UNCHANGED <<now, level>>
    BY DEF Bucket!vars
  <2>1. CASE Advance
    <3>1. /\ LevelCapacity \in Nat
          /\ \A c \in Clients : level[c] \in Int /\ level[c] <= LevelCapacity
      BY CapacityFacts DEF CallInv, LevelCovers, LimiterTypeOK
    <3>2. Pace \in Nat /\ Accrued(1) = Pace
      BY LimitAssumption DEF Accrued
    <3>3. \A c \in Clients :
            Lesser(level[c] + Pace, LevelCapacity)
                = IF level[c] + Pace < LevelCapacity THEN level[c] + Pace ELSE LevelCapacity
      BY <3>1, <3>2 DEF Lesser
    <3>4. Bucket!Advance
      BY <2>1, <3>2, <3>3 DEF Advance, Bucket!Advance
    <3> QED
      BY <3>4 DEF Bucket!Next
  <2>2. ASSUME NEW r \in Requests, NEW c \in Clients, Arrive(r, c)
        PROVE  UNCHANGED <<now, level>>
    BY <2>2 DEF Arrive
  <2>3. ASSUME NEW r \in Requests, Grant(r)
        PROVE  Bucket!Next
    <3> DEFINE c == calls[r].client
               at == calls[r].at
               b == Refilled(c, at)
               idle == now - b.updated
    <3>1. /\ c \in Clients /\ at \in 0 .. MaxTime /\ at <= now /\ now <= at + MaxWait
      BY <2>3, EndedCall
    <3>2. b.tokens >= Cost /\ level' = [level EXCEPT ![c] = @ - Cost] /\ now' = now
      BY <2>3 DEF Grant
    <3>3. b.tokens + Accrued(idle) <= level[c]
      BY <3>1, RefillCovered DEF CallInv
    <3>4. /\ b.updated <= now /\ b.updated \in Int /\ b.tokens \in Int
          /\ now \in Int /\ level[c] \in Int /\ Cost \in Int
      BY <3>1, RefillFacts, RefillPast, TypeFacts, CapacityFacts, LimitAssumption DEF CallInv
    <3> HIDE DEF b
    <3>5. idle \in Nat
      BY <3>4
    <3> HIDE DEF idle
    <3>6. Accrued(idle) \in Int /\ Accrued(idle) >= idle
      <4>1. idle \in Int
        BY <3>5
      <4> QED
        BY <3>5, <4>1, AccruedInt, AccruedGrows
    <3>7. level[c] >= Cost
      BY <3>2, <3>3, <3>4, <3>5, <3>6
    <3>8. Bucket!Grant(c)
      BY <3>2, <3>7 DEF Bucket!Grant
    <3> QED
      BY <3>1, <3>8 DEF Bucket!Next
  <2>4. ASSUME NEW r \in Requests, Reject(r)
        PROVE  UNCHANGED <<now, level>>
    BY <2>4 DEF Reject
  <2>5. CASE UNCHANGED limiterVars
    BY <2>5 DEF limiterVars
  <2> QED
    BY <2>1, <2>2, <2>3, <2>4, <2>5 DEF LimiterNext
<1> QED
  BY CallInvariance, LevelInvariance, <1>1, <1>2, PTL
  DEF LimiterSpec, ImplementsBucket, Bucket!Spec

\* A client that waits as told is let through, whatever the limit, the waits and
\* the time a client is remembered.
THEOREM RetryAfterHonoured == LimiterSpec => RetryHonoured
<1>1. CallInv /\ [LimiterNext]_limiterVars =>
        \A r \in Requests :
          LET c == calls[r].client IN
          Reject(r) /\ promised[c] # 0 => calls[r].at < promised[c]
  <2> SUFFICES ASSUME CallInv, NEW r \in Requests, Reject(r),
                      promised[calls[r].client] # 0
               PROVE  calls[r].at < promised[calls[r].client]
    OBVIOUS
  <2>1. calls[r].client \in Clients /\ calls[r].at \in 0 .. MaxTime
    BY EndedCall
  <2>2. Refilled(calls[r].client, calls[r].at).tokens < Cost
    BY DEF Reject
  <2> QED
    BY <2>1, <2>2, PromiseKept DEF CallInv
<1> QED
  BY CallInvariance, <1>1, PTL DEF LimiterSpec, RetryHonoured

\* The map of buckets only holds clients seen recently, if calls do not wait for
\* the mutex for longer than a client is remembered.
THEOREM IdleClientsForgotten == ASSUME WaitsAreShort PROVE LimiterSpec => ForgetsIdleClients
<1>1. CallInv /\ SeenSinceCleanup /\ [LimiterNext]_limiterVars =>
        \A r \in Requests : Grant(r) \/ Reject(r) =>
          \A c \in clients' : lastSeen'[c] > calls[r].at - ClientTTL - CleanupInterval
  <2> SUFFICES ASSUME CallInv, SeenSinceCleanup, [LimiterNext]_limiterVars,
                      NEW r \in Requests, Grant(r) \/ Reject(r), NEW d \in clients'
               PROVE  lastSeen'[d] > calls[r].at - ClientTTL - CleanupInterval
    OBVIOUS
  <2> DEFINE at == calls[r].at
  <2>1. at \in 0 .. MaxTime
    BY EndedCall
  <2>2. lastCleanupAt' = IF CleanupDue(at) THEN at ELSE lastCleanupAt
    BY DEF Grant, Reject, UpdateBuckets
  <2>3. LimiterTypeOK' /\ SeenSinceCleanup'
    BY CallInvStep, SeenStep DEF CallInv
  <2>4. /\ at \in Int /\ lastCleanupAt \in Int /\ lastSeen'[d] \in Int
        /\ ClientTTL \in Nat /\ CleanupInterval \in Nat \ {0}
    BY <2>1, <2>3, TypeFacts, LimitAssumption DEF CallInv, LimiterTypeOK
  <2>5. lastSeen'[d] > lastCleanupAt' - ClientTTL
    BY <2>3 DEF SeenSinceCleanup
  <2> HIDE DEF at
  <2>6. lastCleanupAt' > at - CleanupInterval /\ lastCleanupAt' \in Int
    BY <2>2, <2>4 DEF CleanupDue
  <2> QED
    BY <2>4, <2>5, <2>6 DEF at
<1> QED
  BY CallInvariance, SeenInvariance, <1>1, PTL DEF LimiterSpec, ForgetsIdleClients
=============================================================================
