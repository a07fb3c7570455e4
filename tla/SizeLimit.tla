------------------------------- MODULE SizeLimit -------------------------------
(***************************************************************************)
(* The limit on the size of the database: SaveMetrics compares the size of *)
(* the files with TARISYA_MAX_DATABASE_SIZE and opens its transaction      *)
(* afterwards, on a connection that other requests and maintenance get in  *)
(* between.  Sizes are in units of what a commit adds at the least.        *)
(***************************************************************************)
EXTENDS Naturals, FiniteSets

CONSTANTS
    Senders,        \* requests with metrics that may be in flight at a time
    MaxSize,        \* maxSize of the Store; a limit is set
    MaxGrowth,      \* bound on what one commit adds
    MaxDatabase     \* bound on the size, for the writes that have no limit

ASSUME SizeAssumption ==
    /\ IsFiniteSet(Senders)
    /\ MaxSize \in Nat \ {0} /\ MaxGrowth \in Nat /\ MaxDatabase \in Nat

VARIABLES
    size,           \* of the file, its log and its index, as DatabaseSize adds them up
    passed,         \* requests that have found room and have not stored yet
    overshoot       \* history: samples stored since the limit was reached

sizeVars == <<size, passed, overshoot>>

Full == size >= MaxSize

\* The files that OpenStore finds; nothing is in flight.
SizeInit ==
    /\ size \in 0 .. MaxDatabase
    /\ passed = {}
    /\ overshoot = 0

\* A commit takes free pages of the file, or makes file or log longer.  What is deleted
\* leaves free pages behind: Vacuum has no caller.
Grows == size' \in size .. size + MaxGrowth

\* Variant: a full database has room for one more.
FindsRoom_AtLimit(r) ==
    /\ r \notin passed
    /\ size <= MaxSize
    /\ passed' = passed \union {r}
    /\ UNCHANGED <<size, overshoot>>

\* SaveMetrics up to the transaction.  ErrDatabaseFull changes nothing.
FindsRoom(r) ==
    /\ r \notin passed
    /\ ~Full
    /\ passed' = passed \union {r}
    /\ UNCHANGED <<size, overshoot>>

\* The transaction.
StoreSample(r) ==
    /\ r \in passed
    /\ Grows
    /\ passed' = passed \ {r}
    /\ overshoot' = IF Full THEN overshoot + 1 ELSE overshoot

\* An error, also that the disk is full, or the request is cancelled; all is rolled back.
StoreSampleFails(r) ==
    /\ r \in passed
    /\ passed' = passed \ {r}
    /\ UNCHANGED <<size, overshoot>>

\* Accounts, servers, keys and maintenance are written whatever the size is.
WriteOther ==
    /\ size < MaxDatabase
    /\ Grows
    /\ UNCHANGED <<passed, overshoot>>

\* The process ends, and with it what is in flight.  The last close of the database
\* removes log and index; before the next start another database may be restored.
Reopen ==
    /\ size' \in (0 .. size) \union (0 .. MaxDatabase)
    /\ passed' = {}
    /\ overshoot' = IF size' >= MaxSize THEN overshoot ELSE 0

SizeNext ==
    \/ \E r \in Senders : FindsRoom(r) \/ StoreSample(r) \/ StoreSampleFails(r)
    \/ WriteOther
    \/ Reopen

SizeSpec == SizeInit /\ [][SizeNext]_sizeVars

-----------------------------------------------------------------------------
(* Properties.                                                             *)

SizeTypeOK == size \in Nat /\ passed \subseteq Senders /\ overshoot \in Nat

\* Once the limit is reached no more samples are stored than requests were in flight at
\* that moment, whatever else is written meanwhile: the check that comes before the
\* transaction is too old for each of them once.
OvershootBounded == overshoot <= Cardinality(Senders)

\* What OvershootBounded needs to be inductive: a request in flight counts already.
OvershootCovered ==
    IF Full THEN overshoot + Cardinality(passed) <= Cardinality(Senders) ELSE overshoot = 0

SizeInv == SizeTypeOK /\ OvershootCovered
=============================================================================
