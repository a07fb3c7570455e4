------------------------ MODULE MetricsHistory_proofs -------------------------
(***************************************************************************)
(* Theorems about MetricsHistory, for any number of rows and page sizes.   *)
(***************************************************************************)
EXTENDS MetricsHistory, FiniteSetTheorems, TLAPS

LEMMA InitInv == Init => IInv
BY FS_EmptySet
DEF Init, IInv, TypeOK, ReceivedNotOlder, MissingOlder, OnlyTiesMissed

\* The last page holds all the rows that are left.
LEMMA LastPageHasAll ==
    ASSUME TypeOK, NEW page, NEW limit \in Limits, IsPage(page, limit), ~HasMore(limit)
    PROVE  page = Candidates
<1>1. IsFiniteSet(Candidates) /\ Cardinality(Candidates) \in Nat
  BY FS_Subset, FS_CardinalityType DEF TypeOK, Candidates
<1>2. Cardinality(page) = Cardinality(Candidates)
  BY <1>1, LimitsAssumption DEF IsPage, HasMore, Lesser
<1> QED
  BY <1>1, <1>2, FS_Subset DEF IsPage

\* A row that the client asked for and did not get is older than the cursor, or
\* collected at the instant of one it got.
LEMMA FetchLeavesOlder ==
    ASSUME IInv, NEW limit \in Limits, step # "finished",
           NEW page \in SUBSET rows, IsPage(page, limit),
           NEW m \in (IF step = "idle" THEN rows ELSE expected),
           m \notin received \union page
    PROVE  m \in Candidates \/ \E r \in received \union page : r.at = m.at
<1> USE DEF IInv, TypeOK, MissingOlder, Candidates, client
<1>1. CASE step = "idle"
  BY <1>1
<1>2. CASE step = "paging"
  BY <1>2
<1> QED
  BY <1>1, <1>2

LEMMA FetchPageInv ==
    ASSUME IInv, NEW limit \in Limits, FetchPage(limit)
    PROVE  IInv'
<1> DEFINE wanted == IF step = "idle" THEN rows ELSE expected
<1>1. PICK page \in SUBSET rows :
        /\ IsPage(page, limit)
        /\ received' = received \union page
        /\ \/ /\ HasMore(limit)
              /\ \E r \in page : IsLast(r, page) /\ before' = r.at
              /\ step' = "paging"
           \/ /\ ~HasMore(limit)
              /\ UNCHANGED before
              /\ step' = "finished"
  BY DEF FetchPage
<1>2. step # "finished" /\ expected' = wanted /\ rows' = rows
  BY DEF FetchPage
<1>3. \A r \in rows : r.at \in Nat /\ r.at # 0 /\ r.at \in Times /\ r.id \in Nat
  BY TimesAssumption DEF IInv, TypeOK, Row
<1>4. wanted \subseteq rows
  BY DEF IInv, TypeOK
<1>5. \A m \in wanted :
        m \notin received' =>
            m \in Candidates \/ \E r \in received' : r.at = m.at
  BY <1>1, <1>2, FetchLeavesOlder
<1> HIDE DEF wanted
<1>6. CASE HasMore(limit)
  <2>1. PICK last \in page : IsLast(last, page) /\ before' = last.at
    BY <1>1, <1>6
  <2>2. step' = "paging"
    BY <1>1, <1>6
  <2>3. last \in rows /\ before' \in Times /\ before' # 0 /\ before' \in Nat
    BY <1>3, <2>1
  <2>4. TypeOK'
    BY <1>1, <1>2, <1>4, <2>2, <2>3 DEF IInv, TypeOK, Row
  <2>5. \A r \in page : r.at >= last.at
    BY <1>3, <2>1, <2>3 DEF IsLast, Newer
  <2>6. ReceivedNotOlder'
    <3>1. CASE step = "idle"
      BY <1>1, <2>1, <2>5, <3>1 DEF IInv, TypeOK, ReceivedNotOlder
    <3>2. CASE step = "paging"
      <4>1. last.at < before /\ before \in Nat /\ last.at \in Nat
        BY <1>1, <1>3, <2>1, <3>2, TimesAssumption DEF IInv, TypeOK, IsPage, Candidates
      <4>2. \A r \in received : r.at \in Nat /\ r.at >= before
        BY <3>2, TimesAssumption DEF IInv, TypeOK, ReceivedNotOlder, Row
      <4>3. \A r \in received : r.at >= last.at
        BY <4>1, <4>2
      <4> QED
        BY <1>1, <2>1, <2>5, <4>3 DEF ReceivedNotOlder
    <3> QED
      BY <1>2, <3>1, <3>2 DEF IInv, TypeOK
  <2>7. MissingOlder'
    <3> SUFFICES ASSUME NEW m \in wanted, m \notin received', m \in Candidates
                 PROVE  m.at < before' \/ \E r \in received' : r.at = m.at
      BY <1>2, <1>5 DEF MissingOlder
    <3>1. m \in Candidates \ page
      BY <1>1
    <3>2. Newer(last, m)
      BY <1>1, <2>1, <3>1 DEF IsPage
    <3>3. m.at \in Nat /\ last.at \in Nat
      BY <1>3, <1>4, <2>3
    <3>4. m.at < last.at \/ m.at = last.at
      BY <3>2, <3>3 DEF Newer
    <3> QED
      BY <1>1, <2>1, <3>4
  <2>8. OnlyTiesMissed'
    BY <2>2 DEF OnlyTiesMissed
  <2> QED
    BY <2>4, <2>6, <2>7, <2>8 DEF IInv
<1>7. CASE ~HasMore(limit)
  <2>1. step' = "finished" /\ before' = before
    BY <1>1, <1>7
  <2>2. page = Candidates
    BY <1>1, <1>7, LastPageHasAll DEF IInv
  <2>3. TypeOK'
    BY <1>1, <1>2, <1>4, <2>1 DEF IInv, TypeOK, Row
  <2>4. OnlyTiesMissed'
    BY <1>1, <1>2, <1>5, <2>2 DEF OnlyTiesMissed
  <2> QED
    BY <2>1, <2>3, <2>4 DEF IInv, ReceivedNotOlder, MissingOlder
<1> QED
  BY <1>6, <1>7

LEMMA NextInv == IInv /\ [Next]_vars => IInv'
<1> SUFFICES ASSUME IInv, [Next]_vars
             PROVE  IInv'
  OBVIOUS
<1> USE DEF IInv, TypeOK, ReceivedNotOlder, MissingOlder, OnlyTiesMissed, client
<1>1. ASSUME NEW at \in Times, SaveMetrics(at)
      PROVE  IInv'
  <2>1. PICK id \in Ids :
          /\ \A r \in rows : r.id < id
          /\ rows' = rows \union {[at |-> at, id |-> id]}
    BY <1>1 DEF SaveMetrics
  <2>2. IsFiniteSet(rows')
    BY <2>1, FS_AddElement
  <2>3. rows' \subseteq Row
    BY <2>1 DEF Row
  <2>4. \A r \in rows : r.id # id
    BY <2>1, TimesAssumption DEF Row
  <2> QED
    BY <1>1, <2>1, <2>2, <2>3, <2>4 DEF SaveMetrics
<1>2. ASSUME NEW cutoff \in Times, downsampleRaw(cutoff)
      PROVE  IInv'
  <2>1. rows' \subseteq rows /\ expected' \subseteq expected
    BY <1>2 DEF downsampleRaw
  <2>2. IsFiniteSet(rows')
    BY <2>1, FS_Subset
  <2>3. expected' \subseteq rows'
    BY <1>2 DEF downsampleRaw
  <2> QED
    BY <1>2, <2>1, <2>2, <2>3 DEF downsampleRaw
<1>3. ASSUME NEW limit \in Limits, FetchPage(limit)
      PROVE  IInv'
  BY <1>3, FetchPageInv
<1>4. CASE StartOver
  BY <1>4 DEF StartOver
<1>5. CASE UNCHANGED vars
  BY <1>5 DEF vars
<1> QED
  BY <1>1, <1>2, <1>3, <1>4, <1>5 DEF Next

THEOREM Invariance == Spec => []IInv
BY InitInv, NextInv, PTL DEF Spec

-----------------------------------------------------------------------------

\* The rows and the client keep their types.
THEOREM TypeCorrect == Spec => []TypeOK
<1>1. IInv => TypeOK
  BY DEF IInv
<1> QED
  BY Invariance, <1>1, PTL

\* Who follows the cursor to the end misses nothing but ties.
THEOREM HistoryComplete == Spec => []OnlyTiesMissed
<1>1. IInv => OnlyTiesMissed
  BY DEF IInv
<1> QED
  BY Invariance, <1>1, PTL

\* Pages come newest first and do not overlap.
THEOREM HistoryDescends == Spec => PagesDescend
<1> DEFINE Descend ==
        step = "paging" /\ step' # "idle" =>
            \A new \in received' \ received, old \in received : new.at < old.at
<1>1. ASSUME IInv, [Next]_vars
      PROVE  [Descend]_vars
  <2>1. ASSUME NEW limit \in Limits, FetchPage(limit), step = "paging"
        PROVE  Descend
    <3>1. PICK page \in SUBSET rows :
            IsPage(page, limit) /\ received' = received \union page
      BY <2>1 DEF FetchPage
    <3>2. \A new \in page : new.at < before /\ new.at \in Nat
      BY <1>1, <2>1, <3>1, TimesAssumption DEF IInv, TypeOK, IsPage, Candidates, Row
    <3>3. before \in Nat /\ \A old \in received : old.at >= before /\ old.at \in Nat
      BY <1>1, <2>1, TimesAssumption DEF IInv, TypeOK, ReceivedNotOlder, Row
    <3> QED
      BY <3>1, <3>2, <3>3
  <2>2. (\A limit \in Limits : ~FetchPage(limit)) /\ Next /\ step' # "idle" =>
            received' = received
    BY DEF Next, SaveMetrics, downsampleRaw, StartOver, client
  <2> QED
    BY <1>1, <2>1, <2>2
<1> QED
  BY Invariance, <1>1, PTL DEF Spec, PagesDescend
=============================================================================
