------------------------------ MODULE MCRouter ------------------------------
(* Small instances of Router for TLC. *)
EXTENDS Router, TLC

CONSTANTS c1, c2, c3

\* Two calls that share a backend, and one that does not.
SharedCalls == {c1, c2, c3}
SharedBackend == c1 :> "postgres" @@ c2 :> "postgres" @@ c3 :> "redis"

\* One call on each backend.
OneEach == c1 :> "postgres" @@ c2 :> "mongo" @@ c3 :> "redis"
=============================================================================
