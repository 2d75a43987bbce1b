---------------------------- MODULE MCStoreMigration ----------------------------
(***************************************************************************)
(* Six trees at a time, three incidents, and one package to restore.       *)
(***************************************************************************)
EXTENDS StoreMigration
=============================================================================
