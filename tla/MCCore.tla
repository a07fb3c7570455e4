-------------------------------- MODULE MCCore --------------------------------
(***************************************************************************)
(* Instances for TLC of the parts of a Core that share nothing: its keys   *)
(* and the ingestion of metrics, a rate limiter, and the backups of its    *)
(* database.  A behaviour is one of one part, and the others stay in an    *)
(* initial state: their states add up instead of multiplying.              *)
(***************************************************************************)
EXTENDS ServerKeys, RateLimiter, Backup, TLC

ASSUME WaitsAreShort /\ FullWhenForgotten

VARIABLE part

\* The parts have names in common, so that few permutations serve all of them.
Symmetry ==
    Permutations(Users) \union Permutations(Senders)
        \union Permutations(Keys \ BootstrapKeys)

CoreInit ==
    /\ part \in {"keys", "limiter", "backup"}
    /\ Init
    /\ LimiterInit
    /\ BackupInit /\ (part # "backup" => output = Absent /\ checksum = Absent)

CoreNext ==
    \/ part = "keys" /\ Next /\ UNCHANGED <<part, limiterVars, backupVars>>
    \/ part = "limiter" /\ LimiterNext /\ UNCHANGED <<part, vars, backupVars>>
    \/ part = "backup" /\ BackupNext /\ UNCHANGED <<part, vars, limiterVars>>

CoreSpec == CoreInit /\ [][CoreNext]_<<part, vars, limiterVars, backupVars>>
=============================================================================
