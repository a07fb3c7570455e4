----------------------------- MODULE MCMigration ------------------------------
(***************************************************************************)
(* Instances of Migration for TLC: two Cores that race, and a command.     *)
(* The legacy schemas are one that is complete and two that are not.       *)
(***************************************************************************)
EXTENDS Migration

MCLegacySchemas == {Application, {"servers", "metrics"}, {"users"}}
=============================================================================
