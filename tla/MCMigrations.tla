----------------------------- MODULE MCMigrations -----------------------------
(***************************************************************************)
(* A small instance of Migrations: three scripts, the first long enough to *)
(* die in its middle.                                                      *)
(***************************************************************************)
EXTENDS Migrations

MCStatements == [v \in Versions |-> IF v = 1 THEN 3 ELSE 2]
=============================================================================
