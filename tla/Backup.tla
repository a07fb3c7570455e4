-------------------------------- MODULE Backup --------------------------------
(***************************************************************************)
(* BackupDatabase: runs of "tarisya backup" that write to the same output  *)
(* while the database is in use.  A run reserves the output and its .sha256 *)
(* sidecar, has SQLite write a snapshot to the output, and then writes the *)
(* digest of the output to the sidecar.  Every step may fail, which starts *)
(* a cleanup of both files, and a run may be killed between any two steps. *)
(***************************************************************************)
EXTENDS Naturals

CONSTANTS
    Backups,        \* runs of the command
    MaxCommits,     \* bound on the commits to the database
    Absent, Empty,  \* there is no file; a reserved one
    Torn,           \* a snapshot that is being written
    Foreign         \* a file that no run has created

ASSUME BoundAssumption == MaxCommits \in Nat
ASSUME FilesAssumption ==
    /\ Nat \intersect {Absent, Empty, Torn, Foreign} = {}
    /\ Absent \notin {Empty, Torn, Foreign}
    /\ Foreign \notin {Empty, Torn}

VARIABLES
    db,             \* the commits made so far: the version of the database
    output,         \* the file at outputPath: a number is a database of that version
    checksum,       \* the file at checksumPath: a number is the digest of that version
    step,           \* per run: the step it has reached
    since,          \* the version of the database when the run started
    copy,           \* the version that VACUUM INTO copies
    digest          \* the version that checksumFile has seen

run == <<since, copy, digest>>
backupVars == <<db, output, checksum, step, run>>

Versions == 0 .. MaxCommits
Busy == {"output", "reserved", "copying", "copied", "digested"}

BackupInit ==
    /\ db = 0
    /\ output \in {Absent, Foreign}
    /\ checksum \in {Absent, Foreign}
    /\ step = [b \in Backups |-> "idle"]
    /\ since = [b \in Backups |-> 0]
    /\ copy = [b \in Backups |-> 0]
    /\ digest = [b \in Backups |-> Absent]

Goto(b, s) == step' = [step EXCEPT ![b] = s]

-----------------------------------------------------------------------------

\* A transaction of the Core.
Commit ==
    /\ db < MaxCommits
    /\ db' = db + 1
    /\ UNCHANGED <<output, checksum, step, run>>

\* Variant: the output is created without O_EXCL.
ReserveOutput_Existing(b) ==
    /\ step[b] = "idle"
    /\ output' = Empty
    /\ since' = [since EXCEPT ![b] = db]
    /\ Goto(b, "output")
    /\ UNCHANGED <<db, checksum, copy, digest>>

\* reserveBackupFile(outputPath); without it the run ends, and no cleanup is due yet.
ReserveOutput(b) ==
    /\ step[b] = "idle"
    /\ output = Absent
    /\ output' = Empty
    /\ since' = [since EXCEPT ![b] = db]
    /\ Goto(b, "output")
    /\ UNCHANGED <<db, checksum, copy, digest>>

\* Variant: a sidecar that is there already is taken over.
ReserveChecksum_Existing(b) ==
    /\ step[b] = "output"
    /\ checksum' = IF checksum = Absent THEN Empty ELSE checksum
    /\ Goto(b, "reserved")
    /\ UNCHANGED <<db, output, run>>

\* reserveBackupFile(checksumPath).
ReserveChecksum(b) ==
    /\ step[b] = "output"
    /\ checksum = Absent
    /\ checksum' = Empty
    /\ Goto(b, "reserved")
    /\ UNCHANGED <<db, output, run>>

\* VACUUM INTO begins: the database as of now, whatever commits follow.
BeginSnapshot(b) ==
    /\ step[b] = "reserved"
    /\ output' = Torn
    /\ copy' = [copy EXCEPT ![b] = db]
    /\ Goto(b, "copying")
    /\ UNCHANGED <<db, checksum, since, digest>>

FinishSnapshot(b) ==
    /\ step[b] = "copying"
    /\ output' = copy[b]
    /\ Goto(b, "copied")
    /\ UNCHANGED <<db, checksum, run>>

\* checkDatabaseFile and checksumFile of the output.
Digest(b) ==
    /\ step[b] = "copied"
    /\ output \in Versions
    /\ digest' = [digest EXCEPT ![b] = output]
    /\ Goto(b, "digested")
    /\ UNCHANGED <<db, output, checksum, since, copy>>

\* The sidecar is opened, without O_CREATE, truncated and written.
WriteChecksum(b) ==
    /\ step[b] = "digested"
    /\ checksum # Absent
    /\ checksum' = digest[b]
    /\ Goto(b, "done")
    /\ UNCHANGED <<db, output, run>>

\* Variant: the cleanup is armed before the output is reserved.
Fail_ArmedEarly(b) ==
    /\ step[b] \in Busy \union {"idle"}
    /\ Goto(b, "cleanup")
    /\ UNCHANGED <<db, output, checksum, run>>

\* Any step may fail; reserving a sidecar that exists and opening one that does
\* not always do.
Fail(b) ==
    /\ step[b] \in Busy
    /\ Goto(b, "cleanup")
    /\ UNCHANGED <<db, output, checksum, run>>

\* The deferred cleanup, file by file.
RemoveOutput(b) ==
    /\ step[b] = "cleanup"
    /\ output' = Absent
    /\ Goto(b, "removed")
    /\ UNCHANGED <<db, checksum, run>>

RemoveChecksum(b) ==
    /\ step[b] = "removed"
    /\ checksum' = Absent
    /\ Goto(b, "idle")
    /\ digest' = [digest EXCEPT ![b] = Absent]
    /\ UNCHANGED <<db, output, since, copy>>

\* backupDatabase returns its result, or the process is killed.
ReturnOrDie(b) ==
    /\ step[b] # "idle"
    /\ Goto(b, "idle")
    /\ digest' = [digest EXCEPT ![b] = Absent]
    /\ UNCHANGED <<db, output, checksum, since, copy>>

\* While no run is under way, someone moves files away or puts others there.
MoveFiles ==
    /\ \A b \in Backups : step[b] = "idle"
    /\ output' \in {output, Absent, Foreign}
    /\ checksum' \in {checksum, Absent, Foreign}
    /\ UNCHANGED <<db, step, run>>

BackupStep(b) ==
    \/ ReserveOutput(b)
    \/ ReserveChecksum(b)
    \/ BeginSnapshot(b)
    \/ FinishSnapshot(b)
    \/ Digest(b)
    \/ WriteChecksum(b)
    \/ Fail(b)
    \/ RemoveOutput(b)
    \/ RemoveChecksum(b)
    \/ ReturnOrDie(b)

BackupNext ==
    \/ Commit
    \/ \E b \in Backups : BackupStep(b)
    \/ MoveFiles

BackupSpec == BackupInit /\ [][BackupNext]_backupVars

-----------------------------------------------------------------------------
(* Properties.                                                             *)

Steps == Busy \union {"idle", "done", "cleanup", "removed"}

\* The files hold what a run can have written, and a sidecar is written from a digest.
BackupTypeOK ==
    /\ db \in Versions
    /\ output \in Versions \union {Absent, Empty, Torn, Foreign}
    /\ checksum \in Versions \union {Absent, Empty, Foreign}
    /\ step \in [Backups -> Steps]
    /\ since \in [Backups -> Versions]
    /\ copy \in [Backups -> Versions]
    /\ digest \in [Backups -> Versions \union {Absent}]
    /\ \A b \in Backups : step[b] \in {"digested", "done"} => digest[b] \in Versions

\* A backup that BackupDatabase reports is a whole database, and has every commit that
\* was made before the run started ("creates a consistent online SQLite snapshot"),
\* though other runs write to, and clean up, the same path.
BackupComplete ==
    \A b \in Backups :
        step[b] = "done" => output \in Versions /\ since[b] <= output

\* A sidecar with a digest never lies beside a database it is not the digest of,
\* whichever runs failed or were killed: else RestoreDatabase refuses a good backup.
SidecarMatches ==
    checksum \in Versions /\ output \in Versions => checksum = output

\* "Existing output files are never overwritten": no step of a run changes or removes
\* a file that no run has created.  (backupDatabase removes both files when it cannot
\* reserve the sidecar because there is one.)
ForeignKept ==
    [][\A b \in Backups : BackupStep(b) =>
        /\ output = Foreign => output' = Foreign
        /\ checksum = Foreign => checksum' = Foreign]_backupVars

\* What holds of that sentence: a foreign output stays as it is, also when a cleanup
\* removes "the output" by its name, and a foreign sidecar is never written to.  All
\* that a run can do to a file of someone else is RemoveChecksum.
ForeignOutputKept ==
    [][\A b \in Backups : BackupStep(b) =>
        /\ output = Foreign => output' = Foreign
        /\ checksum = Foreign => checksum' = Foreign \/ RemoveChecksum(b)]_backupVars
=============================================================================
