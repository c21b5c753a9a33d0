----------------------------- MODULE MCPostgres -----------------------------
(* Small instances of Postgres for TLC. *)
EXTENDS Postgres

CONSTANTS c1, c2
=============================================================================
