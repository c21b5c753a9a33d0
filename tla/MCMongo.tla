------------------------------- MODULE MCMongo -------------------------------
(* Small instances of Mongo for TLC. *)
EXTENDS Mongo

CONSTANTS c1, c2, o1, o2

\* A text that reads like the ObjectID o1.
LooksLikeOne == {Hex(o1)}
=============================================================================
