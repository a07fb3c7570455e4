--------------------------- MODULE DatabaseLifecycle ---------------------------
(***************************************************************************)
(* The life of the database file: Core processes that open it and commit,  *)
(* and RestoreDatabase, which replaces it, kept apart by the lifecycle     *)
(* lock (a file lock beside the database: shared for a Core, exclusive for *)
(* a restore).                                                             *)
(*                                                                         *)
(* A path names a file and a connection stays with the file that the path  *)
(* named when it was opened, so the files themselves appear here.  SQLite  *)
(* keeps recent commits in the file path-wal until a checkpoint, or the    *)
(* close of the last connection, copies them to the database.  Every step  *)
(* of a restore may fail, and every process may be killed between any two  *)
(* steps; the operating system then drops its locks and connections.       *)
(***************************************************************************)
CONSTANTS
    Cores,          \* Core processes on this database
    Restores,       \* runs of "tarisya restore" on this database
    Files,          \* files on disk, whatever they are named
    Writes,         \* what Cores commit
    Vouched,        \* the rows of the backup its .sha256 sidecar was made for,
    Other,          \* those of another sound backup,
    Torn,           \* and the mark of a file that is not a sound database
    None            \* "no file", "no process"

ASSUME RowsAssumption ==
    /\ {Vouched, Other, Torn} \intersect Writes = {}
    /\ Vouched # Other /\ Torn \notin {Vouched, Other}
ASSUME NoneAssumption == None \notin Files \union Restores

VARIABLES
    named,          \* the file that the database's path names
    main,           \* the rows in each file, as long as some name leads to it
    wal,            \* the rows in path-wal that are not in the database file
    shared,         \* the Cores that hold the lifecycle lock,
    exclusive,      \* and the restore that does
    core,           \* per Core: down, opened or up
    coreFile,       \* the file its connection is to
    restore,        \* per restore: the step it has reached
    targetFile,     \* the file targetDB is connected to
    stagedFile,     \* stagedPath
    preRestore,     \* the rows in its pre-restore backup
    verified,       \* checksumVerified
    backup,         \* the rows in the file at backupPath
    sidecar,        \* there is a checksum sidecar beside it
    saved           \* history: the pre-restore backups of what was replaced

database == <<named, main, wal, saved>>
locks == <<shared, exclusive>>
cores == <<core, coreFile>>
restores == <<restore, targetFile, stagedFile, preRestore, verified>>
backups == <<backup, sidecar>>
vars == <<database, locks, cores, restores, backups>>

Sound(rows) == Torn \notin rows
BackupContents == {{Vouched}, {Other}, {Torn}}

\* A reader of the database sees the file and its log.
Contents == main[named] \union wal

Init ==
    /\ named \in Files
    /\ main = [f \in Files |-> {}]
    /\ wal = {}
    /\ saved = {}
    /\ shared = {}
    /\ exclusive = None
    /\ core = [c \in Cores |-> "down"]
    /\ coreFile = [c \in Cores |-> None]
    /\ restore = [q \in Restores |-> "idle"]
    /\ targetFile = [q \in Restores |-> None]
    /\ stagedFile = [q \in Restores |-> None]
    /\ preRestore = [q \in Restores |-> {}]
    /\ verified = [q \in Restores |-> FALSE]
    /\ backup \in BackupContents
    /\ sidecar \in BOOLEAN

-----------------------------------------------------------------------------
(* The Core: OpenStore, transactions, Close.                               *)

\* acquireSharedDatabaseLock asks SQLite for the path of the database first: that
\* opens the file, before the lock is tried.  The log is opened with the pragmas,
\* after it.
OpenConnection(c) ==
    /\ core[c] = "down"
    /\ core' = [core EXCEPT ![c] = "opened"]
    /\ coreFile' = [coreFile EXCEPT ![c] = named]
    /\ UNCHANGED <<database, locks, restores, backups>>

\* TryRLock succeeds.
LockShared(c) ==
    /\ core[c] = "opened"
    /\ exclusive = None
    /\ core' = [core EXCEPT ![c] = "up"]
    /\ shared' = shared \union {c}
    /\ UNCHANGED <<database, exclusive, coreFile, restores, backups>>

\* ErrDatabaseInUse: the Core exits.
LockSharedFails(c) ==
    /\ core[c] = "opened"
    /\ exclusive # None
    /\ core' = [core EXCEPT ![c] = "down"]
    /\ coreFile' = [coreFile EXCEPT ![c] = None]
    /\ UNCHANGED <<database, locks, restores, backups>>

\* A transaction commits to path-wal.  If the connection is to a file that the path
\* no longer names, what it logs are pages of another database.
Commit(c, w) ==
    /\ core[c] = "up"
    /\ wal' = wal \union {w} \union (IF coreFile[c] = named THEN {} ELSE {Torn})
    /\ UNCHANGED <<named, main, saved, locks, cores, restores, backups>>

\* The log's rows reach the database file.
CopyLog ==
    /\ main' = [main EXCEPT ![named] = @ \union wal]
    /\ wal' = {}

\* db.Close: the last connection to the database checkpoints.
CloseConnection(c) ==
    /\ core[c] = "up"
    /\ IF coreFile[c] = named /\ \A d \in shared \ {c} : coreFile[d] # named
       THEN CopyLog
       ELSE UNCHANGED <<main, wal>>
    /\ core' = [core EXCEPT ![c] = "down"]
    /\ coreFile' = [coreFile EXCEPT ![c] = None]
    /\ UNCHANGED <<named, saved, exclusive, restores, backups>>

\* Store.Close: the connection, then the lock.
Close(c) ==
    /\ CloseConnection(c)
    /\ shared' = shared \ {c}

\* The process is killed: the log stays for the next one to recover.
CoreKilled(c) ==
    /\ core[c] # "down"
    /\ core' = [core EXCEPT ![c] = "down"]
    /\ coreFile' = [coreFile EXCEPT ![c] = None]
    /\ shared' = shared \ {c}
    /\ UNCHANGED <<database, exclusive, restores, backups>>

-----------------------------------------------------------------------------
(* RestoreDatabase, in the order of its calls.                             *)

Goto(q, step) == restore' = [restore EXCEPT ![q] = step]

\* verifyBackupChecksum and checkDatabaseFile(backupPath).  What they refuse ends
\* the restore before it has done anything.
Verify(q) ==
    /\ restore[q] = "idle"
    /\ sidecar => backup = {Vouched}
    /\ Sound(backup)
    /\ verified' = [verified EXCEPT ![q] = sidecar]
    /\ Goto(q, "verified")
    /\ UNCHANGED <<database, locks, cores, targetFile, stagedFile, preRestore, backups>>

\* sql.Open and Ping of the target.
OpenTarget(q) ==
    /\ restore[q] = "verified"
    /\ targetFile' = [targetFile EXCEPT ![q] = named]
    /\ Goto(q, "opened")
    /\ UNCHANGED <<database, locks, cores, stagedFile, preRestore, verified, backups>>

\* Variant: the lock is shared.
LockExclusive_Shared(q) ==
    /\ restore[q] = "opened"
    /\ exclusive = None
    /\ exclusive' = q
    /\ Goto(q, "locked")
    /\ UNCHANGED <<database, shared, cores, targetFile, stagedFile, preRestore,
                   verified, backups>>

\* TryLock succeeds; otherwise the restore fails with ErrDatabaseInUse.
LockExclusive(q) ==
    /\ restore[q] = "opened"
    /\ shared = {} /\ exclusive = None
    /\ exclusive' = q
    /\ Goto(q, "locked")
    /\ UNCHANGED <<database, shared, cores, targetFile, stagedFile, preRestore,
                   verified, backups>>

\* checkOpenDatabase of the target, then backupDatabase(preRestorePath), over a
\* connection of its own to whatever the path names now.  Closing it checkpoints
\* unless targetDB is connected as well.
SavePreRestore(q) ==
    /\ restore[q] = "locked"
    /\ Sound(Contents)
    /\ preRestore' = [preRestore EXCEPT ![q] = Contents]
    /\ IF targetFile[q] = named THEN UNCHANGED <<main, wal>> ELSE CopyLog
    /\ Goto(q, "saved")
    /\ UNCHANGED <<named, saved, locks, cores, targetFile, stagedFile,
                   verified, backups>>

\* Variant: targetDB is closed without a checkpoint.
CheckpointTarget_Skipped(q) ==
    /\ restore[q] = "saved"
    /\ targetFile' = [targetFile EXCEPT ![q] = None]
    /\ Goto(q, "checkpointed")
    /\ UNCHANGED <<database, locks, cores, stagedFile, preRestore, verified, backups>>

\* PRAGMA wal_checkpoint(TRUNCATE), then targetDB.Close.
CheckpointTarget(q) ==
    /\ restore[q] = "saved"
    /\ IF targetFile[q] = named THEN CopyLog ELSE UNCHANGED <<main, wal>>
    /\ targetFile' = [targetFile EXCEPT ![q] = None]
    /\ Goto(q, "checkpointed")
    /\ UNCHANGED <<named, saved, locks, cores, stagedFile, preRestore,
                   verified, backups>>

InUse(f) ==
    \/ f = named
    \/ \E c \in Cores : coreFile[c] = f
    \/ \E q \in Restores : f \in {targetFile[q], stagedFile[q]}

\* stageRestoreFile copies the backup to a new file; what it copies while the
\* backup is being overwritten is not a database.
Stage(q) ==
    /\ restore[q] = "checkpointed"
    /\ \E f \in Files, copy \in {backup, {Torn}} :
        /\ ~InUse(f)
        /\ main' = [main EXCEPT ![f] = copy]
        /\ stagedFile' = [stagedFile EXCEPT ![q] = f]
    /\ Goto(q, "staged")
    /\ UNCHANGED <<named, wal, saved, locks, cores, targetFile, preRestore,
                   verified, backups>>

\* The copy is compared with the backup as it is now if there was a sidecar, and
\* validated.
CheckStaged(q) ==
    /\ restore[q] = "staged"
    /\ verified[q] => main[stagedFile[q]] = backup
    /\ Sound(main[stagedFile[q]])
    /\ Goto(q, "checked")
    /\ UNCHANGED <<database, locks, cores, targetFile, stagedFile, preRestore,
                   verified, backups>>

\* os.Remove of path-wal and path-shm.
RemoveSidecars(q) ==
    /\ restore[q] = "checked"
    /\ wal' = {}
    /\ Goto(q, "cleaned")
    /\ UNCHANGED <<named, main, saved, locks, cores, targetFile, stagedFile,
                   preRestore, verified, backups>>

\* Removed by its only name: a connection may still be to it.
Unlink(f) == main' = IF f \in Files THEN [main EXCEPT ![f] = {}] ELSE main

\* replaceFileAtomically: from here on the path names the staged file, which is not
\* to be removed any more.
Replace(q) ==
    /\ restore[q] = "cleaned"
    /\ named' = stagedFile[q]
    /\ saved' = saved \union {preRestore[q]}
    /\ Unlink(named)
    /\ stagedFile' = [stagedFile EXCEPT ![q] = None]
    /\ Goto(q, "replaced")
    /\ UNCHANGED <<wal, locks, cores, targetFile, preRestore, verified, backups>>

\* RestoreDatabase returns: with its result or an error, or because the process
\* is killed, at any step.  The lock goes with it, and so does the staged file
\* unless it was killed (in which case no one uses it).
ReturnOrDie(q) ==
    /\ restore[q] # "idle"
    /\ exclusive' = IF exclusive = q THEN None ELSE exclusive
    /\ targetFile' = [targetFile EXCEPT ![q] = None]
    /\ Unlink(stagedFile[q])
    /\ stagedFile' = [stagedFile EXCEPT ![q] = None]
    /\ preRestore' = [preRestore EXCEPT ![q] = {}]
    /\ verified' = [verified EXCEPT ![q] = FALSE]
    /\ Goto(q, "idle")
    /\ UNCHANGED <<named, wal, saved, shared, cores, backups>>

\* Someone writes another file, whole or not, where the backup is.
OverwriteBackup ==
    /\ backup' \in BackupContents \ {backup}
    /\ UNCHANGED <<database, locks, cores, restores, sidecar>>

Next ==
    \/ \E c \in Cores :
        \/ OpenConnection(c)
        \/ LockShared(c)
        \/ LockSharedFails(c)
        \/ \E w \in Writes : Commit(c, w)
        \/ Close(c)
        \/ CoreKilled(c)
    \/ \E q \in Restores :
        \/ Verify(q)
        \/ OpenTarget(q)
        \/ LockExclusive(q)
        \/ SavePreRestore(q)
        \/ CheckpointTarget(q)
        \/ Stage(q)
        \/ CheckStaged(q)
        \/ RemoveSidecars(q)
        \/ Replace(q)
        \/ ReturnOrDie(q)
    \/ OverwriteBackup

Spec == Init /\ [][Next]_vars

-----------------------------------------------------------------------------
(* Properties.                                                             *)

CoreSteps == {"down", "opened", "up"}
RestoreSteps == {"idle", "verified", "opened", "locked", "saved", "checkpointed",
                 "staged", "checked", "cleaned", "replaced"}
Rows == Writes \union {Vouched, Other, Torn}

\* Files, connections and locks fit together: a Core holds the lock exactly while
\* it is up, and a connection is to some file.  (OpenStore, Close and
\* RestoreDatabase release what they acquired on every way out.)
TypeOK ==
    /\ named \in Files
    /\ main \in [Files -> SUBSET Rows]
    /\ wal \subseteq Rows
    /\ saved \subseteq SUBSET Rows
    /\ core \in [Cores -> CoreSteps]
    /\ coreFile \in [Cores -> Files \union {None}]
    /\ \A c \in Cores : core[c] # "down" => coreFile[c] \in Files
    /\ shared = {c \in Cores : core[c] = "up"}
    /\ exclusive \in Restores \union {None}
    /\ restore \in [Restores -> RestoreSteps]
    /\ targetFile \in [Restores -> Files \union {None}]
    /\ stagedFile \in [Restores -> Files \union {None}]
    /\ preRestore \in [Restores -> SUBSET Rows]
    /\ verified \in [Restores -> BOOLEAN]
    /\ backup \in BackupContents
    /\ sidecar \in BOOLEAN

\* A Core that serves requests is connected to the file its path names: a restore
\* never replaces the database of a Core that is up.  ("RestoreDatabase validates
\* and atomically replaces a stopped Core database.")
CoresOnDatabase == \A c \in Cores : core[c] = "up" => coreFile[c] = named

\* A Core that is up on the file that the path names stays on
\* it for as long as it is up.  Only its start can put it on another.
ServingKeepsFile ==
    [][\A c \in Cores :
        core[c] = "up" /\ core'[c] = "up" /\ coreFile[c] = named => coreFile'[c] = named']_vars

\* What a reader of the database sees only grows, but for the
\* moment at which a sound backup takes its place, whole, and then all of it is in a
\* pre-restore backup.  ("It always creates a verified pre-restore backup before
\* changing the target.")
NothingUnsavedGoes ==
    [][\/ Contents \subseteq Contents'
       \/ Contents' \in {{Vouched}, {Other}} /\ Contents \in saved']_vars

\* How a Core stands to the database: an opened connection to a file that the path no
\* longer names makes it outdated, and stray if it gets up with it.
Standing(c) ==
    CASE core[c] = "down" -> "away"
      [] core[c] = "opened" -> IF coreFile[c] = named THEN "starting" ELSE "outdated"
      [] core[c] = "up" -> IF coreFile[c] = named THEN "serving" ELSE "stray"

Database ==
    INSTANCE RestorableDatabase WITH
        db <- Contents, Rows <- Writes, SoundBackups <- {{Vouched}, {Other}},
        status <- [c \in Cores |-> Standing(c)]

\* Whoever starts when and whichever step of a restore fails or is its last, what the
\* database holds changes by commits of Cores and by whole restores of sound backups
\* only; no restore replaces the database of a Core that serves requests, and what it
\* replaces, sound and with every commit up to that moment, is in its pre-restore
\* backup.  The one way to tear the database is a Core that opened it before a restore
\* put another in its place and got its lock after.
RestoresAtomically == Database!Spec
=============================================================================
