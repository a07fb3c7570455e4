-------------------------- MODULE MCDatabaseLifecycle --------------------------
(***************************************************************************)
(* Instances of DatabaseLifecycle for TLC: two restores, so that one can   *)
(* overtake the other between its open and its lock, and three files, so   *)
(* that a database can be replaced twice while Cores are left on the two   *)
(* older files.                                                            *)
(***************************************************************************)
EXTENDS DatabaseLifecycle, TLC

Symmetry ==
    Permutations(Cores) \union Permutations(Restores)
        \union Permutations(Files) \union Permutations(Writes)
=============================================================================
