---------------------------- MODULE MCMigrations ----------------------------
(* An instance of Migrations for TLC: 001 with two statements that may be  *)
(* repeated (it has nine, all IF NOT EXISTS or PRAGMA), 002 with two that  *)
(* may not.                                                                *)
EXTENDS Migrations

Lengths   == <<2, 2>>
AlterSets == <<{}, {1, 2}>>
=============================================================================
