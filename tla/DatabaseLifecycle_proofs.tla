----------------------- MODULE DatabaseLifecycle_proofs -----------------------
(***************************************************************************)
(* Theorems about DatabaseLifecycle, for any numbers of Cores, restores,   *)
(* files and writes and whoever starts when: nothing goes unsaved, and it  *)
(* implements RestorableDatabase.                                          *)
(***************************************************************************)
EXTENDS DatabaseLifecycle, TLAPS

Staging == {"staged", "checked", "cleaned"}
Locked == {"locked", "saved", "checkpointed", "replaced"} \union Staging

\* A restore past the lock is the one that holds it, and no Core is up then.
LockHeld ==
    /\ \A q \in Restores : restore[q] \in Locked <=> exclusive = q
    /\ exclusive # None => shared = {}

\* Until its restore puts it in place, a staged file is not the database.
StagedApart ==
    \A q \in Restores :
        IF restore[q] \in Staging
        THEN stagedFile[q] \in Files /\ stagedFile[q] # named
        ELSE stagedFile[q] = None

\* What a restore has checked is one of the sound backups.
StagedSound ==
    \A q \in Restores :
        /\ restore[q] = "staged" => main[stagedFile[q]] \in BackupContents
        /\ restore[q] \in {"checked", "cleaned"} =>
             main[stagedFile[q]] \in {{Vouched}, {Other}}

\* No Core is connected to a file that is still to take the database's place.
NoneOnStaged ==
    \A q \in Restores, c \in Cores :
        stagedFile[q] # None /\ core[c] # "down" => coreFile[c] # stagedFile[q]

\* The database is sound and as the pre-restore backup has it, and all of it is in
\* the file before the log is removed.
SavedBefore ==
    \A q \in Restores :
        /\ restore[q] \in {"saved", "checkpointed"} \union Staging =>
             preRestore[q] = Contents /\ Sound(preRestore[q])
        /\ restore[q] = "saved" => targetFile[q] = named \/ wal = {}
        /\ restore[q] \in {"checkpointed"} \union Staging => wal = {}

\* What the lock and the order of a restore's steps see to.
LockInv ==
    /\ TypeOK
    /\ LockHeld
    /\ StagedApart
    /\ StagedSound
    /\ SavedBefore

IInv == LockInv /\ NoneOnStaged

-----------------------------------------------------------------------------
(* The type invariant.                                                     *)

LEMMA TypeInit == Init => TypeOK
BY DEF Init, TypeOK, CoreSteps, RestoreSteps

\* The staged file exists when it is put in place.
StagedExists == \A q \in Restores : restore[q] \in Staging => stagedFile[q] \in Files

LEMMA TypeStep == TypeOK /\ StagedExists /\ [Next]_vars => TypeOK' /\ StagedExists'
<1> SUFFICES ASSUME TypeOK, StagedExists, [Next]_vars
             PROVE  TypeOK' /\ StagedExists'
  OBVIOUS
<1> USE NoneAssumption
    DEF TypeOK, StagedExists, Staging, CoreSteps, RestoreSteps, Rows, BackupContents,
        Goto, CopyLog, database, locks, cores, restores, backups
<1>1. ASSUME NEW c \in Cores, OpenConnection(c)
      PROVE  TypeOK' /\ StagedExists'
  BY <1>1 DEF OpenConnection
<1>2. ASSUME NEW c \in Cores, LockShared(c)
      PROVE  TypeOK' /\ StagedExists'
  BY <1>2 DEF LockShared
<1>3. ASSUME NEW c \in Cores, LockSharedFails(c)
      PROVE  TypeOK' /\ StagedExists'
  BY <1>3 DEF LockSharedFails
<1>4. ASSUME NEW c \in Cores, NEW w \in Writes, Commit(c, w)
      PROVE  TypeOK' /\ StagedExists'
  BY <1>4 DEF Commit
<1>5. ASSUME NEW c \in Cores, Close(c)
      PROVE  TypeOK' /\ StagedExists'
  <2>1. main' \in [Files -> SUBSET Rows] /\ wal' \subseteq Rows
    BY <1>5 DEF Close, CloseConnection
  <2> QED
    BY <1>5, <2>1 DEF Close, CloseConnection
<1>6. ASSUME NEW c \in Cores, CoreKilled(c)
      PROVE  TypeOK' /\ StagedExists'
  BY <1>6 DEF CoreKilled
<1>7. ASSUME NEW q \in Restores, Verify(q)
      PROVE  TypeOK' /\ StagedExists'
  BY <1>7 DEF Verify
<1>8. ASSUME NEW q \in Restores, OpenTarget(q)
      PROVE  TypeOK' /\ StagedExists'
  BY <1>8 DEF OpenTarget
<1>9. ASSUME NEW q \in Restores, LockExclusive(q)
      PROVE  TypeOK' /\ StagedExists'
  BY <1>9 DEF LockExclusive
<1>10. ASSUME NEW q \in Restores, SavePreRestore(q)
       PROVE  TypeOK' /\ StagedExists'
  <2>1. main' \in [Files -> SUBSET Rows] /\ wal' \subseteq Rows /\ Contents \subseteq Rows
    BY <1>10 DEF SavePreRestore, Contents
  <2> QED
    BY <1>10, <2>1 DEF SavePreRestore
<1>11. ASSUME NEW q \in Restores, CheckpointTarget(q)
       PROVE  TypeOK' /\ StagedExists'
  <2>1. main' \in [Files -> SUBSET Rows] /\ wal' \subseteq Rows
    BY <1>11 DEF CheckpointTarget
  <2> QED
    BY <1>11, <2>1 DEF CheckpointTarget
<1>12. ASSUME NEW q \in Restores, Stage(q)
       PROVE  TypeOK' /\ StagedExists'
  BY <1>12 DEF Stage
<1>13. ASSUME NEW q \in Restores, CheckStaged(q)
       PROVE  TypeOK' /\ StagedExists'
  BY <1>13 DEF CheckStaged
<1>14. ASSUME NEW q \in Restores, RemoveSidecars(q)
       PROVE  TypeOK' /\ StagedExists'
  BY <1>14 DEF RemoveSidecars
<1>15. ASSUME NEW q \in Restores, Replace(q)
       PROVE  TypeOK' /\ StagedExists'
  <2>1. stagedFile[q] \in Files /\ preRestore[q] \in SUBSET Rows
    BY <1>15 DEF Replace
  <2>2. main' \in [Files -> SUBSET Rows]
    BY <1>15 DEF Replace, Unlink
  <2> QED
    BY <1>15, <2>1, <2>2 DEF Replace
<1>16. ASSUME NEW q \in Restores, ReturnOrDie(q)
       PROVE  TypeOK' /\ StagedExists'
  <2>1. main' \in [Files -> SUBSET Rows]
    BY <1>16 DEF ReturnOrDie, Unlink
  <2> QED
    BY <1>16, <2>1 DEF ReturnOrDie
<1>17. CASE OverwriteBackup
  BY <1>17 DEF OverwriteBackup
<1>18. CASE UNCHANGED vars
  BY <1>18 DEF vars
<1> QED
  BY <1>1, <1>2, <1>3, <1>4, <1>5, <1>6, <1>7, <1>8, <1>9, <1>10, <1>11, <1>12,
     <1>13, <1>14, <1>15, <1>16, <1>17, <1>18 DEF Next

\* Files, connections and locks fit together.
THEOREM TypeCorrect == Spec => []TypeOK
<1>1. Init => TypeOK /\ StagedExists
  BY TypeInit DEF Init, StagedExists, Staging
<1> QED
  BY <1>1, TypeStep, PTL DEF Spec

-----------------------------------------------------------------------------
(* The invariant of the lock.                                              *)

LEMMA InitInv == Init => IInv
BY TypeInit, NoneAssumption
DEF Init, IInv, LockInv, LockHeld, Locked, Staging, StagedApart, StagedSound, SavedBefore,
    NoneOnStaged

\* A checkpoint moves rows, and leaves what a reader sees.
LEMMA CopyLogFacts ==
    ASSUME TypeOK, CopyLog, named' = named
    PROVE  /\ Contents' = Contents
           /\ wal' = {}
           /\ \A f \in Files : f # named => main'[f] = main[f]
BY DEF TypeOK, CopyLog, Contents

\* One restore at a time is past the lock.
LEMMA OneRestore ==
    ASSUME LockInv, NEW q \in Restores, restore[q] \in Locked
    PROVE  /\ \A p \in Restores : p # q => restore[p] \notin Locked /\ stagedFile[p] = None
           /\ exclusive = q /\ exclusive # None /\ shared = {}
BY NoneAssumption DEF LockInv, LockHeld, StagedApart, Locked, Staging

LEMMA LockStep ==
    ASSUME LockInv, [Next]_vars
    PROVE  LockInv'
<1>0. TypeOK'
  BY TypeStep DEF LockInv, StagedApart, StagedExists
<1> USE NoneAssumption, <1>0
    DEF LockInv, LockHeld, Locked, Staging, StagedApart, StagedSound, SavedBefore,
        Contents, Goto, database, locks, cores, restores, backups
<1>1. ASSUME NEW c \in Cores, OpenConnection(c)
      PROVE  LockInv'
  BY <1>1 DEF TypeOK, OpenConnection
<1>2. ASSUME NEW c \in Cores, LockShared(c)
      PROVE  LockInv'
  BY <1>2 DEF TypeOK, LockShared
<1>3. ASSUME NEW c \in Cores, LockSharedFails(c)
      PROVE  LockInv'
  BY <1>3 DEF TypeOK, LockSharedFails
<1>4. ASSUME NEW c \in Cores, NEW w \in Writes, Commit(c, w)
      PROVE  LockInv'
  BY <1>4 DEF TypeOK, Commit
<1>5. ASSUME NEW c \in Cores, Close(c)
      PROVE  LockInv'
  <2>1. core[c] = "up" /\ c \in shared /\ exclusive = None /\ named' = named
    BY <1>5 DEF Close, CloseConnection, TypeOK
  <2>2. \A q \in Restores : restore[q] \notin Locked
    BY <2>1
  <2>3. \A d \in Cores : core'[d] # "down" => core[d] # "down" /\ coreFile'[d] = coreFile[d]
    BY <1>5 DEF Close, CloseConnection, TypeOK
  <2>4. UNCHANGED <<exclusive, restore, targetFile, stagedFile, preRestore>>
    BY <1>5 DEF Close, CloseConnection
  <2> QED
    BY <2>1, <2>2, <2>3, <2>4
<1>6. ASSUME NEW c \in Cores, CoreKilled(c)
      PROVE  LockInv'
  BY <1>6 DEF TypeOK, CoreKilled
<1>7. ASSUME NEW q \in Restores, Verify(q)
      PROVE  LockInv'
  BY <1>7 DEF TypeOK, Verify
<1>8. ASSUME NEW q \in Restores, OpenTarget(q)
      PROVE  LockInv'
  BY <1>8 DEF TypeOK, OpenTarget
<1>9. ASSUME NEW q \in Restores, LockExclusive(q)
      PROVE  LockInv'
  BY <1>9 DEF TypeOK, LockExclusive
<1>10. ASSUME NEW q \in Restores, SavePreRestore(q)
      PROVE  LockInv'
  <2>1. restore[q] = "locked" /\ restore' = [restore EXCEPT ![q] = "saved"]
        /\ preRestore' = [preRestore EXCEPT ![q] = Contents] /\ Sound(Contents)
        /\ UNCHANGED <<named, locks, cores, targetFile, stagedFile>>
    BY <1>10 DEF SavePreRestore
  <2>2. \A p \in Restores : p # q => restore[p] \notin Locked /\ restore'[p] = restore[p]
                                     /\ preRestore'[p] = preRestore[p]
    BY <2>1, OneRestore DEF TypeOK
  <2>3. restore'[q] = "saved" /\ preRestore'[q] = Contents /\ Sound(preRestore[q])'
    BY <2>1 DEF TypeOK, Sound
  <2>4. /\ Contents' = Contents
        /\ targetFile[q] = named \/ wal' = {}
    BY <1>10, <2>1, CopyLogFacts DEF SavePreRestore
  <2>5. LockHeld' /\ StagedApart' /\ StagedSound'
    BY <2>1, <2>2, <2>3
  <2>6. SavedBefore'
    <3> HIDE DEF Contents
    <3> QED
      BY <2>1, <2>2, <2>3, <2>4
  <2> QED
    BY <2>5, <2>6
<1>11. ASSUME NEW q \in Restores, CheckpointTarget(q)
      PROVE  LockInv'
  <2>1. restore[q] = "saved" /\ restore' = [restore EXCEPT ![q] = "checkpointed"]
        /\ UNCHANGED <<named, locks, cores, stagedFile, preRestore>>
    BY <1>11 DEF CheckpointTarget
  <2>2. \A p \in Restores : p # q => restore[p] \notin Locked /\ restore'[p] = restore[p]
    BY <2>1, OneRestore DEF TypeOK
  <2>3. restore'[q] = "checkpointed" /\ preRestore[q] = Contents
    BY <2>1 DEF TypeOK
  <2>4. Contents' = Contents /\ wal' = {}
    BY <1>11, <2>1, CopyLogFacts DEF CheckpointTarget
  <2>5. LockHeld' /\ StagedApart' /\ StagedSound'
    BY <2>1, <2>2, <2>3
  <2>6. SavedBefore'
    <3> HIDE DEF Contents
    <3> QED
      BY <2>1, <2>2, <2>3, <2>4
  <2> QED
    BY <2>5, <2>6
<1>12. ASSUME NEW q \in Restores, Stage(q)
      PROVE  LockInv'
  <2>1. PICK f \in Files, copy \in {backup, {Torn}} :
            /\ ~InUse(f)
            /\ main' = [main EXCEPT ![f] = copy]
            /\ stagedFile' = [stagedFile EXCEPT ![q] = f]
    BY <1>12 DEF Stage
  <2>2. restore[q] = "checkpointed" /\ restore' = [restore EXCEPT ![q] = "staged"]
        /\ UNCHANGED <<named, wal, locks, cores, targetFile, preRestore>>
    BY <1>12 DEF Stage
  <2>3. \A p \in Restores : p # q => restore[p] \notin Locked /\ restore'[p] = restore[p]
                                     /\ stagedFile'[p] = None
    BY <2>1, <2>2, OneRestore DEF TypeOK
  <2>4. restore'[q] = "staged" /\ stagedFile'[q] = f /\ f # named
        /\ main'[f] \in BackupContents
    BY <2>1, <2>2 DEF TypeOK, InUse, BackupContents
  <2>5. Contents' = Contents /\ preRestore'[q] = Contents /\ wal' = {}
    BY <2>1, <2>2, <2>4 DEF TypeOK
  <2>6. LockHeld' /\ StagedApart' /\ StagedSound'
    BY <2>2, <2>3, <2>4
  <2>7. SavedBefore'
    <3> HIDE DEF Contents
    <3> QED
      BY <2>2, <2>3, <2>4, <2>5
  <2> QED
    BY <2>6, <2>7
<1>13. ASSUME NEW q \in Restores, CheckStaged(q)
      PROVE  LockInv'
  <2>1. restore[q] = "staged" /\ restore' = [restore EXCEPT ![q] = "checked"]
        /\ Sound(main[stagedFile[q]])
        /\ UNCHANGED <<named, main, wal, locks, cores, targetFile, stagedFile, preRestore>>
    BY <1>13 DEF CheckStaged
  <2>2. \A p \in Restores : p # q => restore[p] \notin Locked /\ restore'[p] = restore[p]
    BY <2>1, OneRestore DEF TypeOK
  <2>3. restore'[q] = "checked"
    BY <2>1 DEF TypeOK
  <2>4. main[stagedFile[q]] \in {{Vouched}, {Other}}
    BY <2>1 DEF BackupContents, Sound
  <2>5. LockHeld' /\ StagedApart' /\ StagedSound'
    BY <2>1, <2>2, <2>3, <2>4
  <2>6. SavedBefore'
    BY <2>1, <2>2, <2>3
  <2> QED
    BY <2>5, <2>6
<1>14. ASSUME NEW q \in Restores, RemoveSidecars(q)
      PROVE  LockInv'
  BY <1>14 DEF TypeOK, RemoveSidecars
<1>15. ASSUME NEW q \in Restores, Replace(q)
      PROVE  LockInv'
  <2>1. restore[q] = "cleaned" /\ restore' = [restore EXCEPT ![q] = "replaced"]
        /\ stagedFile' = [stagedFile EXCEPT ![q] = None]
        /\ UNCHANGED <<wal, locks, cores, targetFile, preRestore>>
    BY <1>15 DEF Replace
  <2>2. \A p \in Restores : p # q => restore'[p] \notin Locked /\ stagedFile'[p] = None
    BY <2>1, OneRestore DEF TypeOK
  <2>3. restore'[q] = "replaced" /\ stagedFile'[q] = None
    BY <2>1 DEF TypeOK
  <2>4. LockHeld'
    <3>1. \A p \in Restores : p # q => restore[p] \notin Locked /\ restore'[p] = restore[p]
      BY <2>1, OneRestore DEF TypeOK
    <3> QED
      BY <2>1, <2>3, <3>1
  <2>5. StagedApart' /\ StagedSound' /\ SavedBefore'
    BY <2>1, <2>2, <2>3
  <2> QED
    BY <2>4, <2>5
<1>16. ASSUME NEW q \in Restores, ReturnOrDie(q)
      PROVE  LockInv'
  <2>1. /\ restore' = [restore EXCEPT ![q] = "idle"]
        /\ stagedFile' = [stagedFile EXCEPT ![q] = None]
        /\ targetFile' = [targetFile EXCEPT ![q] = None]
        /\ preRestore' = [preRestore EXCEPT ![q] = {}]
        /\ exclusive' = IF exclusive = q THEN None ELSE exclusive
        /\ UNCHANGED <<named, wal, shared, cores>>
        /\ main' = IF stagedFile[q] \in Files
                    THEN [main EXCEPT ![stagedFile[q]] = {}] ELSE main
    BY <1>16 DEF ReturnOrDie, Unlink
  <2>2. restore'[q] = "idle" /\ stagedFile'[q] = None
    BY <2>1 DEF TypeOK
  <2>3. \A p \in Restores : p # q =>
            /\ restore'[p] = restore[p] /\ stagedFile'[p] = stagedFile[p]
            /\ targetFile'[p] = targetFile[p] /\ preRestore'[p] = preRestore[p]
    BY <2>1 DEF TypeOK
  <2>4. Contents' = Contents
    BY <2>1 DEF TypeOK
  <2>5. \A p \in Restores : p # q /\ restore[p] \in Staging =>
            main'[stagedFile[p]] = main[stagedFile[p]]
    BY <2>1, OneRestore DEF TypeOK
  <2>6. LockHeld'
    <3>1. \A p \in Restores : restore[p] \in Locked <=> exclusive = p
      OBVIOUS
    <3>2. restore'[q] \notin Locked /\ exclusive' # q
      BY <2>1, <2>2
    <3>3. \A p \in Restores : p # q => (exclusive' = p <=> exclusive = p)
      BY <2>1
    <3>4. exclusive' # None => shared' = {}
      BY <2>1
    <3> QED
      BY <2>3, <3>1, <3>2, <3>3, <3>4
  <2>7. StagedApart'
    BY <2>1, <2>2, <2>3
  <2>8. StagedSound'
    <3>1. ASSUME NEW p \in Restores, restore'[p] \in Staging
          PROVE  restore'[p] = restore[p] /\ main'[stagedFile'[p]] = main[stagedFile[p]]
      BY <2>2, <2>3, <2>5, <3>1
    <3> QED
      BY <3>1
  <2>9. SavedBefore'
    <3> HIDE DEF Contents
    <3> QED
      BY <2>1, <2>2, <2>3, <2>4 DEF Sound
  <2> QED
    BY <2>6, <2>7, <2>8, <2>9
<1>17. CASE OverwriteBackup
  BY <1>17 DEF OverwriteBackup
<1>18. CASE UNCHANGED vars
  BY <1>18 DEF vars
<1> QED
  BY <1>1, <1>2, <1>3, <1>4, <1>5, <1>6, <1>7, <1>8, <1>9, <1>10, <1>11, <1>12, <1>13, <1>14, <1>15, <1>16, <1>17, <1>18 DEF Next

\* A file is only staged if no one is connected to it, and a new connection is to the
\* file that the path names.
LEMMA NoneOnStagedStep ==
    ASSUME IInv, [Next]_vars
    PROVE  NoneOnStaged'
<1> USE NoneAssumption
    DEF IInv, NoneOnStaged, database, locks, cores, restores, backups
<1>1. ASSUME NEW c \in Cores, OpenConnection(c)
      PROVE  NoneOnStaged'
  <2>1. \A q \in Restores : stagedFile[q] # None => stagedFile[q] # named
    BY DEF LockInv, StagedApart
  <2> QED
    BY <1>1, <2>1 DEF OpenConnection, LockInv, TypeOK
<1>2. ASSUME NEW c \in Cores,
             LockShared(c) \/ LockSharedFails(c) \/ Close(c) \/ CoreKilled(c)
      PROVE  NoneOnStaged'
  BY <1>2 DEF LockShared, LockSharedFails, Close, CloseConnection, CoreKilled, LockInv, TypeOK
<1>3. ASSUME NEW q \in Restores, Stage(q)
      PROVE  NoneOnStaged'
  BY <1>3 DEF Stage, InUse, LockInv, TypeOK
<1>4. ASSUME NEW q \in Restores, Replace(q) \/ ReturnOrDie(q)
      PROVE  NoneOnStaged'
  BY <1>4 DEF Replace, ReturnOrDie, LockInv, TypeOK
<1>5. CASE UNCHANGED <<core, coreFile, stagedFile>>
  BY <1>5
<1> QED
  BY <1>1, <1>2, <1>3, <1>4, <1>5
  DEF Next, Commit, Verify, OpenTarget, LockExclusive, SavePreRestore, CheckpointTarget,
      CheckStaged, RemoveSidecars, OverwriteBackup, vars

LEMMA Invariance == Spec => []IInv
<1>1. IInv /\ [Next]_vars => IInv'
  BY LockStep, NoneOnStagedStep DEF IInv
<1> QED
  BY <1>1, InitInv, PTL DEF Spec

-----------------------------------------------------------------------------
(* What holds of each step.                                                *)

\* Every step but Replace and those of a Core's own connection leaves connections and
\* the path alone, and Replace finds no Core up.
LEMMA ServingStep ==
    ASSUME LockInv, [Next]_vars, NEW c \in Cores,
           core[c] = "up", core'[c] = "up", coreFile[c] = named
    PROVE  coreFile'[c] = named'
<1> USE DEF database, locks, cores, restores, backups
<1>1. ASSUME NEW d \in Cores,
             OpenConnection(d) \/ LockShared(d) \/ LockSharedFails(d) \/ Close(d) \/ CoreKilled(d)
      PROVE  coreFile'[c] = named'
  BY <1>1 DEF OpenConnection, LockShared, LockSharedFails, Close, CloseConnection, CoreKilled,
     LockInv, TypeOK
<1>2. ASSUME NEW q \in Restores, Replace(q)
      PROVE  FALSE
  <2>1. shared = {}
    BY <1>2, OneRestore DEF Replace, Locked, Staging
  <2> QED
    BY <2>1 DEF LockInv, TypeOK
<1>3. CASE UNCHANGED <<coreFile, named>>
  BY <1>3
<1> QED
  BY <1>1, <1>2, <1>3
  DEF Next, Commit, Verify, OpenTarget, LockExclusive, SavePreRestore, CheckpointTarget, Stage,
      CheckStaged, RemoveSidecars, ReturnOrDie, OverwriteBackup, vars

\* A Core that is up on the database stays on it: only its start can go wrong.
THEOREM ServingCoresKeepTheFile == Spec => ServingKeepsFile
<1>1. LockInv /\ [Next]_vars =>
        [\A c \in Cores :
            core[c] = "up" /\ core'[c] = "up" /\ coreFile[c] = named => coreFile'[c] = named']_vars
  BY ServingStep
<1>2. IInv => LockInv
  BY DEF IInv
<1> QED
  BY <1>1, <1>2, Invariance, PTL DEF Spec, ServingKeepsFile

\* A restore puts a sound backup in the database's place and has saved what was there.
LEMMA ReplaceFacts ==
    ASSUME LockInv, NEW q \in Restores, Replace(q)
    PROVE  /\ Contents' = main[stagedFile[q]]
           /\ main[stagedFile[q]] \in {{Vouched}, {Other}}
           /\ saved' = saved \union {Contents}
           /\ Torn \notin Contents
<1>1. /\ stagedFile[q] \in Files /\ stagedFile[q] # named
      /\ main[stagedFile[q]] \in {{Vouched}, {Other}}
      /\ preRestore[q] = Contents /\ Torn \notin Contents
      /\ wal = {}
  BY DEF Sound, Replace, LockInv, StagedApart, StagedSound, SavedBefore, Staging
<1>2. Contents' = main[stagedFile[q]]
  BY <1>1 DEF Replace, Unlink, Contents, LockInv, TypeOK
<1>3. saved' = saved \union {Contents}
  BY <1>1 DEF Replace
<1> QED
  BY <1>1, <1>2, <1>3

\* Checkpoints, copies and clean-ups do not show in the database.
LEMMA OtherStepsKeepContents ==
    ASSUME LockInv, [Next]_vars
    PROVE  \/ UNCHANGED <<Contents, saved>>
           \/ \E c \in Cores, w \in Writes : Commit(c, w)
           \/ \E q \in Restores : Replace(q)
<1> USE DEF database, locks, cores, restores, backups, Goto
<1>1. ASSUME NEW c \in Cores,
             OpenConnection(c) \/ LockShared(c) \/ LockSharedFails(c) \/ CoreKilled(c)
      PROVE  UNCHANGED <<Contents, saved>>
  BY <1>1 DEF OpenConnection, LockShared, LockSharedFails, CoreKilled, Contents
<1>2. ASSUME NEW c \in Cores, Close(c)
      PROVE  UNCHANGED <<Contents, saved>>
  BY <1>2, CopyLogFacts DEF Close, CloseConnection, Contents, LockInv
<1>3. ASSUME NEW q \in Restores,
             Verify(q) \/ OpenTarget(q) \/ LockExclusive(q) \/ CheckStaged(q)
      PROVE  UNCHANGED <<Contents, saved>>
  BY <1>3 DEF Verify, OpenTarget, LockExclusive, CheckStaged, Contents
<1>4. ASSUME NEW q \in Restores, SavePreRestore(q) \/ CheckpointTarget(q)
      PROVE  UNCHANGED <<Contents, saved>>
  BY <1>4, CopyLogFacts DEF SavePreRestore, CheckpointTarget, Contents, LockInv
<1>5. ASSUME NEW q \in Restores, Stage(q)
      PROVE  UNCHANGED <<Contents, saved>>
  BY <1>5 DEF Stage, InUse, Contents, LockInv, TypeOK
<1>6. ASSUME NEW q \in Restores, RemoveSidecars(q)
      PROVE  UNCHANGED <<Contents, saved>>
  BY <1>6 DEF RemoveSidecars, Contents, LockInv, SavedBefore, Staging
<1>7. ASSUME NEW q \in Restores, ReturnOrDie(q)
      PROVE  UNCHANGED <<Contents, saved>>
  <2>1. stagedFile[q] # named
    BY NoneAssumption DEF LockInv, StagedApart, TypeOK
  <2> QED
    BY <1>7, <2>1 DEF ReturnOrDie, Unlink, Contents, LockInv, TypeOK
<1>8. CASE OverwriteBackup
  BY <1>8 DEF OverwriteBackup, Contents
<1>9. CASE UNCHANGED vars
  BY <1>9 DEF vars, Contents
<1> QED
  BY <1>1, <1>2, <1>3, <1>4, <1>5, <1>6, <1>7, <1>8, <1>9 DEF Next

\* Nothing that could be read from the database goes but into a pre-restore backup,
\* when a sound backup takes its place.
THEOREM WhatGoesWasSaved == Spec => NothingUnsavedGoes
<1>1. ASSUME LockInv, [Next]_vars
      PROVE  \/ Contents \subseteq Contents'
             \/ Contents' \in {{Vouched}, {Other}} /\ Contents \in saved'
  <2>1. ASSUME NEW c \in Cores, NEW w \in Writes, Commit(c, w)
        PROVE  Contents \subseteq Contents'
    BY <2>1 DEF Commit, Contents
  <2>2. ASSUME NEW q \in Restores, Replace(q)
        PROVE  Contents' \in {{Vouched}, {Other}} /\ Contents \in saved'
    BY <1>1, <2>2, ReplaceFacts
  <2> QED
    BY <1>1, <2>1, <2>2, OtherStepsKeepContents
<1>2. LockInv /\ [Next]_vars =>
        [\/ Contents \subseteq Contents'
         \/ Contents' \in {{Vouched}, {Other}} /\ Contents \in saved']_vars
  BY <1>1
<1>3. IInv => LockInv
  BY DEF IInv
<1> QED
  BY <1>2, <1>3, Invariance, PTL DEF Spec, NothingUnsavedGoes

-----------------------------------------------------------------------------
(* The refinement: the steps of a Core map to those of a Core, Replace to  *)
(* Restore, and every other step leaves what the database holds and how    *)
(* the Cores stand to it.                                                  *)

Standings == [c \in Cores |-> Standing(c)]

\* A step of one Core leaves how the others stand.
LEMMA OthersStand ==
    ASSUME TypeOK, TypeOK', NEW c \in Cores, named' = named,
           \A d \in Cores \ {c} : core'[d] = core[d] /\ coreFile'[d] = coreFile[d]
    PROVE  Standings' = [Standings EXCEPT ![c] = Standing(c)']
<1>1. \A d \in Cores \ {c} : Standing(d)' = Standing(d)
  BY DEF Standing
<1> QED
  BY <1>1 DEF Standings

LEMMA CoreStepRefines ==
    ASSUME IInv, IInv', NEW c \in Cores,
           \/ OpenConnection(c) \/ LockShared(c) \/ LockSharedFails(c)
           \/ Close(c) \/ CoreKilled(c),
           UNCHANGED <<Contents, saved>>
    PROVE  Database!Begin(c) \/ Database!Serve(c) \/ Database!Leave(c)
<1> USE DEF database, locks, cores, restores, backups
<1>1. TypeOK /\ TypeOK'
  BY DEF IInv, LockInv
<1>2. /\ named' = named
      /\ \A d \in Cores \ {c} : core'[d] = core[d] /\ coreFile'[d] = coreFile[d]
  BY <1>1 DEF OpenConnection, LockShared, LockSharedFails, Close, CloseConnection, CoreKilled,
     TypeOK
<1>3. Standings' = [Standings EXCEPT ![c] = Standing(c)']
  BY <1>1, <1>2, OthersStand
<1>4. Standings[c] = Standing(c)
  BY DEF Standings
<1>5. CASE OpenConnection(c)
  <2>1. Standing(c) = "away" /\ Standing(c)' = "starting"
    BY <1>1, <1>5 DEF OpenConnection, Standing, TypeOK
  <2> QED
    BY <1>3, <1>4, <2>1 DEF Database!Begin, Standings
<1>6. CASE LockShared(c)
  <2>1. \/ Standing(c) = "starting" /\ Standing(c)' = "serving"
        \/ Standing(c) = "outdated" /\ Standing(c)' = "stray"
    BY <1>1, <1>6 DEF LockShared, Standing, TypeOK
  <2> QED
    BY <1>3, <1>4, <2>1 DEF Database!Serve, Standings
<1>7. CASE LockSharedFails(c) \/ Close(c) \/ CoreKilled(c)
  <2>1. Standing(c)' = "away"
    BY <1>1, <1>7 DEF LockSharedFails, Close, CloseConnection, CoreKilled, Standing, TypeOK
  <2> QED
    BY <1>3, <2>1 DEF Database!Leave, Standings
<1> QED
  BY <1>5, <1>6, <1>7

LEMMA CommitRefines ==
    ASSUME IInv, NEW c \in Cores, NEW w \in Writes, Commit(c, w)
    PROVE  Database!Commit(c, w)
<1> USE DEF cores
<1>1. UNCHANGED Standings /\ UNCHANGED saved
  BY DEF Commit, Standings, Standing
<1>2. CASE coreFile[c] = named
  <2>1. Standings[c] = "serving"
    BY <1>2 DEF Commit, Standings, Standing
  <2>2. Contents' = Contents \union {w}
    BY <1>2 DEF Commit, Contents
  <2> QED
    BY <1>1, <2>1, <2>2 DEF Database!Commit, Standings
<1>3. CASE coreFile[c] # named
  <2>1. Standings[c] = "stray"
    BY <1>3 DEF Commit, Standings, Standing
  <2>2. Contents' = Contents \union {w, Torn}
    BY <1>3 DEF Commit, Contents
  <2> QED
    BY <1>1, <2>1, <2>2 DEF Database!Commit, Standings
<1> QED
  BY <1>2, <1>3

\* The lock keeps Cores from serving, and whoever is connected is so to the file that
\* goes or to an older one.
LEMMA ReplaceRefines ==
    ASSUME IInv, NEW q \in Restores, Replace(q)
    PROVE  \E b \in {{Vouched}, {Other}} : Database!Restore(b)
<1> USE DEF cores, locks
<1>1. LockInv /\ TypeOK
  BY DEF IInv, LockInv
<1>2. \A c \in Cores : core[c] \in {"down", "opened"}
  <2>1. shared = {}
    BY <1>1, OneRestore DEF Replace, Locked, Staging
  <2> QED
    BY <1>1, <2>1 DEF TypeOK, CoreSteps
<1>3. stagedFile[q] # None /\ named' = stagedFile[q] /\ UNCHANGED <<core, coreFile>>
  BY <1>1, NoneAssumption DEF Replace, LockInv, StagedApart, Staging
<1>4. \A c \in Cores : core[c] # "down" => coreFile[c] # named'
  BY <1>3 DEF IInv, NoneOnStaged
<1>5. \A c \in Cores :
        /\ Standing(c) \notin {"serving", "stray"}
        /\ Standing(c)' = IF Standing(c) = "starting" THEN "outdated" ELSE Standing(c)
  BY <1>2, <1>3, <1>4 DEF Standing
<1>6. Standings' = [c \in Cores |-> IF Standings[c] = "starting" THEN "outdated" ELSE Standings[c]]
  BY <1>5 DEF Standings
<1>7. \A c \in Cores : Standings[c] \notin {"serving", "stray"}
  BY <1>5 DEF Standings
<1> QED
  BY <1>1, <1>6, <1>7, ReplaceFacts DEF Database!Restore, Standings

LEMMA StepRefines ==
    ASSUME IInv, IInv', [Next]_vars
    PROVE  [Database!Next]_(Database!vars)
<1> SUFFICES [Database!Next]_<<Contents, saved, Standings>>
  BY DEF Database!vars, Standings
<1>1. ASSUME NEW c \in Cores,
             \/ OpenConnection(c) \/ LockShared(c) \/ LockSharedFails(c)
             \/ Close(c) \/ CoreKilled(c),
             UNCHANGED <<Contents, saved>>
      PROVE  Database!Next
  BY <1>1, CoreStepRefines DEF Database!Next
<1>2. ASSUME NEW c \in Cores, NEW w \in Writes, Commit(c, w)
      PROVE  Database!Next
  BY <1>2, CommitRefines DEF Database!Next
<1>3. ASSUME NEW q \in Restores, Replace(q)
      PROVE  Database!Next
  BY <1>3, ReplaceRefines DEF Database!Next
<1>4. CASE UNCHANGED <<named, core, coreFile>> /\ UNCHANGED <<Contents, saved>>
  BY <1>4 DEF Standings, Standing
<1>5. \/ \E c \in Cores : \/ OpenConnection(c) \/ LockShared(c) \/ LockSharedFails(c)
                          \/ Close(c) \/ CoreKilled(c)
      \/ \E c \in Cores, w \in Writes : Commit(c, w)
      \/ \E q \in Restores : Replace(q)
      \/ UNCHANGED <<named, core, coreFile>>
  BY DEF Next, Verify, OpenTarget, LockExclusive, SavePreRestore, CheckpointTarget, Stage,
     CheckStaged, RemoveSidecars, ReturnOrDie, OverwriteBackup, vars, database, cores
<1>6. \/ UNCHANGED <<Contents, saved>>
      \/ \E c \in Cores, w \in Writes : Commit(c, w)
      \/ \E q \in Restores : Replace(q)
  BY OtherStepsKeepContents DEF IInv
<1> QED
  BY <1>1, <1>2, <1>3, <1>4, <1>5, <1>6

\* The database only changes by commits and by whole restores of sound backups, no
\* Core serves then, and what a restore replaces is sound and has been saved.
THEOREM RestoreIsAtomic == Spec => RestoresAtomically
<1>1. Init => Database!Init
  BY DEF Init, Database!Init, Contents, Standing
<1>2. IInv /\ IInv' /\ [Next]_vars => [Database!Next]_(Database!vars)
  BY StepRefines
<1> QED
  BY Invariance, <1>1, <1>2, PTL DEF Spec, RestoresAtomically, Database!Spec
=============================================================================
