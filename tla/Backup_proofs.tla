----------------------------- MODULE Backup_proofs -----------------------------
(***************************************************************************)
(* Theorems about Backup, for any number of runs and of commits.           *)
(***************************************************************************)
EXTENDS Backup, TLAPS

\* From its reservation until it ends or is about to remove the output, a run is the
\* only one to write there.
Holds(b) == step[b] \in Busy \union {"done", "cleanup"}

OneHolder == \A b, c \in Backups : Holds(b) /\ Holds(c) => b = c

OutputReserved == \A b \in Backups : Holds(b) => output \notin {Absent, Foreign}

\* From the reservation of the sidecar until its digest is written there is none in
\* it, and it is a file of this run or gone.
NoDigestYet ==
    \A b \in Backups :
        step[b] \in {"reserved", "copying", "copied", "digested"} =>
            checksum \notin Versions \union {Foreign}

\* The snapshot is of a version not older than the start, and no one disturbs it.
SnapshotRecent ==
    \A b \in Backups :
        /\ since[b] <= db
        /\ step[b] \in {"output", "reserved"} => output \notin Versions
        /\ step[b] = "copying" => since[b] <= copy[b]
        /\ step[b] \in {"copied", "digested", "done"} =>
             output \in Versions /\ since[b] <= output
        /\ step[b] \in {"digested", "done"} => digest[b] = output

IInv ==
    /\ BackupTypeOK
    /\ OneHolder
    /\ OutputReserved
    /\ NoDigestYet
    /\ SnapshotRecent
    /\ SidecarMatches

-----------------------------------------------------------------------------

LEMMA VersionsFacts ==
    /\ Versions \subseteq Nat
    /\ 0 \in Versions
    /\ Versions \intersect {Absent, Empty, Torn, Foreign} = {}
BY BoundAssumption, FilesAssumption DEF Versions

LEMMA InitInv == BackupInit => IInv
BY VersionsFacts
DEF BackupInit, IInv, BackupTypeOK, OneHolder, Holds, OutputReserved, NoDigestYet, SnapshotRecent,
    SidecarMatches, Steps, Busy

LEMMA TypeStep == BackupTypeOK /\ [BackupNext]_backupVars => BackupTypeOK'
<1> SUFFICES ASSUME BackupTypeOK, [BackupNext]_backupVars
             PROVE  BackupTypeOK'
  OBVIOUS
<1> USE VersionsFacts, BoundAssumption DEF BackupTypeOK, Steps, Busy, run, Goto
<1>1. CASE Commit
  BY <1>1 DEF Commit, Versions
<1>2. ASSUME NEW b \in Backups, BackupStep(b)
      PROVE  BackupTypeOK'
  <2>1. CASE ReserveOutput(b)
    BY <2>1 DEF ReserveOutput
  <2>2. CASE ReserveChecksum(b)
    BY <2>2 DEF ReserveChecksum
  <2>3. CASE BeginSnapshot(b)
    BY <2>3 DEF BeginSnapshot
  <2>4. CASE FinishSnapshot(b)
    BY <2>4 DEF FinishSnapshot
  <2>5. CASE Digest(b)
    BY <2>5 DEF Digest
  <2>6. CASE WriteChecksum(b)
    BY <2>6 DEF WriteChecksum
  <2>7. CASE Fail(b)
    BY <2>7 DEF Fail
  <2>8. CASE RemoveOutput(b)
    BY <2>8 DEF RemoveOutput
  <2>9. CASE RemoveChecksum(b)
    BY <2>9 DEF RemoveChecksum
  <2>10. CASE ReturnOrDie(b)
    BY <2>10 DEF ReturnOrDie
  <2> QED
    BY <1>2, <2>1, <2>2, <2>3, <2>4, <2>5, <2>6, <2>7, <2>8, <2>9, <2>10 DEF BackupStep
<1>3. CASE MoveFiles
  BY <1>3 DEF MoveFiles
<1>4. CASE UNCHANGED backupVars
  BY <1>4 DEF backupVars
<1> QED
  BY <1>1, <1>2, <1>3, <1>4 DEF BackupNext

LEMMA NextInv == IInv /\ [BackupNext]_backupVars => IInv'
<1> SUFFICES ASSUME IInv, [BackupNext]_backupVars
             PROVE  IInv'
  OBVIOUS
<1>0. BackupTypeOK'
  BY TypeStep DEF IInv
<1> USE VersionsFacts, <1>0
    DEF IInv, OneHolder, Holds, OutputReserved, NoDigestYet, SnapshotRecent,
        SidecarMatches, BackupTypeOK, Busy, run, Goto
<1>1. CASE Commit
  BY <1>1 DEF Commit, Versions
<1>2. ASSUME NEW b \in Backups, BackupStep(b)
      PROVE  IInv'
  <2>1. CASE ReserveOutput(b)
    <3>1. db \in Nat /\ Empty \notin {Absent, Foreign} /\ Empty \notin Versions
      BY FilesAssumption
    <3>2. \A c \in Backups : ~Holds(c)
      BY <2>1 DEF ReserveOutput
    <3>3. \A c \in Backups : c # b => step'[c] = step[c] /\ since'[c] = since[c]
      BY <2>1 DEF ReserveOutput
    <3>4. step'[b] = "output" /\ since'[b] = db
      BY <2>1 DEF ReserveOutput
    <3> QED
      BY <2>1, <3>1, <3>2, <3>3, <3>4 DEF ReserveOutput
  <2>2. CASE ReserveChecksum(b)
    BY <2>2, FilesAssumption DEF ReserveChecksum
  <2>3. CASE BeginSnapshot(b)
    BY <2>3, FilesAssumption DEF BeginSnapshot
  <2>4. CASE FinishSnapshot(b)
    BY <2>4 DEF FinishSnapshot
  <2>5. CASE Digest(b)
    BY <2>5 DEF Digest
  <2>6. CASE WriteChecksum(b)
    BY <2>6 DEF WriteChecksum
  <2>7. CASE Fail(b)
    BY <2>7 DEF Fail
  <2>8. CASE RemoveOutput(b)
    BY <2>8 DEF RemoveOutput
  <2>9. CASE RemoveChecksum(b)
    BY <2>9, FilesAssumption DEF RemoveChecksum
  <2>10. CASE ReturnOrDie(b)
    BY <2>10 DEF ReturnOrDie
  <2> QED
    BY <1>2, <2>1, <2>2, <2>3, <2>4, <2>5, <2>6, <2>7, <2>8, <2>9, <2>10 DEF BackupStep
<1>3. CASE MoveFiles
  BY <1>3 DEF MoveFiles
<1>4. CASE UNCHANGED backupVars
  BY <1>4 DEF backupVars
<1> QED
  BY <1>1, <1>2, <1>3, <1>4 DEF BackupNext

THEOREM Invariance == BackupSpec => []IInv
BY InitInv, NextInv, PTL DEF BackupSpec

-----------------------------------------------------------------------------

\* The state keeps its types.
THEOREM TypeCorrect == BackupSpec => []BackupTypeOK
<1>1. IInv => BackupTypeOK
  BY DEF IInv
<1> QED
  BY Invariance, <1>1, PTL

\* A backup that is reported has every commit made before it was asked for, whatever
\* other runs do to the same path.
THEOREM BackupsAreComplete == BackupSpec => []BackupComplete
<1>1. IInv => BackupComplete
  BY DEF IInv, SnapshotRecent, BackupComplete
<1> QED
  BY Invariance, <1>1, PTL

\* No digest ever lies beside a database it is not the digest of.
THEOREM SidecarsMatch == BackupSpec => []SidecarMatches
<1>1. IInv => SidecarMatches
  BY DEF IInv
<1> QED
  BY Invariance, <1>1, PTL

LEMMA ForeignStep ==
    ASSUME IInv, NEW b \in Backups, BackupStep(b)
    PROVE  /\ output = Foreign => output' = Foreign
           /\ checksum = Foreign => checksum' = Foreign \/ RemoveChecksum(b)
<1> USE DEF IInv, OutputReserved, Holds, NoDigestYet, Busy
<1>1. CASE ReserveOutput(b)
  BY <1>1, FilesAssumption DEF ReserveOutput
<1>2. CASE ReserveChecksum(b)
  BY <1>2, FilesAssumption DEF ReserveChecksum
<1>3. CASE BeginSnapshot(b) \/ FinishSnapshot(b)
  BY <1>3 DEF BeginSnapshot, FinishSnapshot
<1>4. CASE Digest(b) \/ Fail(b) \/ ReturnOrDie(b)
  BY <1>4 DEF Digest, Fail, ReturnOrDie
<1>5. CASE WriteChecksum(b)
  BY <1>5 DEF WriteChecksum
<1>6. CASE RemoveOutput(b)
  BY <1>6 DEF RemoveOutput
<1>7. CASE RemoveChecksum(b)
  BY <1>7 DEF RemoveChecksum
<1> QED
  BY <1>1, <1>2, <1>3, <1>4, <1>5, <1>6, <1>7 DEF BackupStep

\* No run writes to or removes an output that another made, nor writes to such a
\* sidecar, though cleanups remove files by name.
THEOREM ForeignOutputsAreKept == BackupSpec => ForeignOutputKept
<1>1. IInv /\ [BackupNext]_backupVars =>
        [\A b \in Backups : BackupStep(b) =>
            /\ output = Foreign => output' = Foreign
            /\ checksum = Foreign => checksum' = Foreign \/ RemoveChecksum(b)]_backupVars
  BY ForeignStep
<1> QED
  BY <1>1, Invariance, PTL DEF BackupSpec, ForeignOutputKept
=============================================================================
