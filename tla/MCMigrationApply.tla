-------------------------- MODULE MCMigrationApply --------------------------
(* A small instance of MigrationApply: a command that is deleted once it is  *)
(* imported, and a rules file that is replaced by a rendered entrypoint.     *)
EXTENDS MigrationApply
=============================================================================
