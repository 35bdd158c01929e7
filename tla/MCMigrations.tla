---------------------------- MODULE MCMigrations ----------------------------
(***************************************************************************)
(* A small instance of the migrations for TLC.                             *)
(***************************************************************************)
EXTENDS Migrations, TLC

RunnerSymmetry == Permutations(Runners)
=============================================================================
