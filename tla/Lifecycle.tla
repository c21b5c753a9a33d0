------------------------------ MODULE Lifecycle ------------------------------
(***************************************************************************)
(* What the router promises the operator and its clients, without          *)
(* goroutines, signals or the gRPC library: database clients are acquired  *)
(* before the service opens, calls are accepted only while it is open, an  *)
(* orderly stop waits for every accepted call and gives every client back, *)
(* and whatever is not orderly is an abort that does neither.              *)
(* Router.tla implements this module.                                      *)
(***************************************************************************)
CONSTANTS Calls,      \* the RPCs that may arrive
          Backends    \* the databases the router talks to

VARIABLES phase,      \* where the process is in its life
          pending,    \* calls accepted and not answered
          answered,   \* calls answered
          held        \* backends whose client the process holds open

vars == <<phase, pending, answered, held>>

Phases == {"starting", "serving", "draining", "stopped", "aborted"}

TypeOK ==
  /\ phase \in Phases
  /\ pending \subseteq Calls
  /\ answered \subseteq Calls
  /\ held \subseteq Backends

Init ==
  /\ phase = "starting"
  /\ pending = {}
  /\ answered = {}
  /\ held = {}

Acquire(b) ==
  /\ phase = "starting"
  /\ held' = held \union {b}
  /\ UNCHANGED <<phase, pending, answered>>

Open ==
  /\ phase = "starting"
  /\ phase' = "serving"
  /\ UNCHANGED <<pending, answered, held>>

Accept(c) ==
  /\ phase = "serving"
  /\ c \notin pending \union answered
  /\ pending' = pending \union {c}
  /\ UNCHANGED <<phase, answered, held>>

Answer(c) ==
  /\ phase \in {"serving", "draining"}
  /\ c \in pending
  /\ pending' = pending \ {c}
  /\ answered' = answered \union {c}
  /\ UNCHANGED <<phase, held>>

Drain ==
  /\ phase = "serving"
  /\ phase' = "draining"
  /\ UNCHANGED <<pending, answered, held>>

Stop ==
  /\ phase = "draining"
  /\ pending = {}
  /\ phase' = "stopped"
  /\ held' = {}
  /\ UNCHANGED <<pending, answered>>

Abort ==
  /\ phase \notin {"stopped", "aborted"}
  /\ phase' = "aborted"
  /\ UNCHANGED <<pending, answered, held>>

Next ==
  \/ \E b \in Backends : Acquire(b)
  \/ \E c \in Calls : Accept(c) \/ Answer(c)
  \/ Open \/ Drain \/ Stop \/ Abort

Spec == Init /\ [][Next]_vars
=============================================================================
