-------------------------- MODULE RestorableDatabase --------------------------
(***************************************************************************)
(* What a restore promises: the database behind the path only changes by   *)
(* commits and by restores, a restore puts all of a sound backup in its    *)
(* place in one step, while no Core serves requests, and what it replaces  *)
(* was sound and was saved first.                                          *)
(*                                                                         *)
(* One thing the code does not promise stands here as well: a Core that    *)
(* was starting when the database was replaced is "outdated", and if it    *)
(* gets to serve requests it is a "stray" one, whose commits tear the      *)
(* database.  DatabaseLifecycle is shown to implement this specification,  *)
(* so that is the only way to a torn database.                             *)
(***************************************************************************)
CONSTANTS
    Cores,          \* who commits
    Rows,           \* what commits add
    SoundBackups,   \* contents of backup files that pass validation
    Torn            \* the mark of a database that is not sound

VARIABLES
    db,             \* the rows of the database
    saved,          \* the contents of the pre-restore backups
    status          \* per Core: away, starting, outdated, serving or stray

vars == <<db, saved, status>>

Init ==
    /\ db = {}
    /\ saved = {}
    /\ status = [c \in Cores |-> "away"]

Begin(c) ==
    /\ status[c] = "away"
    /\ status' = [status EXCEPT ![c] = "starting"]
    /\ UNCHANGED <<db, saved>>

Serve(c) ==
    /\ \/ status[c] = "starting" /\ status' = [status EXCEPT ![c] = "serving"]
       \/ status[c] = "outdated" /\ status' = [status EXCEPT ![c] = "stray"]
    /\ UNCHANGED <<db, saved>>

Leave(c) ==
    /\ status' = [status EXCEPT ![c] = "away"]
    /\ UNCHANGED <<db, saved>>

Commit(c, w) ==
    /\ \/ status[c] = "serving" /\ db' = db \union {w}
       \/ status[c] = "stray" /\ db' = db \union {w, Torn}
    /\ UNCHANGED <<saved, status>>

Restore(backup) ==
    /\ \A c \in Cores : status[c] \notin {"serving", "stray"}
    /\ Torn \notin db
    /\ db' = backup
    /\ saved' = saved \union {db}
    /\ status' = [c \in Cores |-> IF status[c] = "starting" THEN "outdated" ELSE status[c]]

Next ==
    \/ \E c \in Cores :
        \/ Begin(c)
        \/ Serve(c)
        \/ Leave(c)
        \/ \E w \in Rows : Commit(c, w)
    \/ \E backup \in SoundBackups : Restore(backup)

Spec == Init /\ [][Next]_vars
=============================================================================
