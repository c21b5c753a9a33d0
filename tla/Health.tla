------------------------------- MODULE Health -------------------------------
(***************************************************************************)
(* HealthService.Check (internal/server/health_server.go): a first round   *)
(* of pings, one backend after the other, decides overall_healthy          *)
(* (healthService.CheckAll); a second round, again one after the other,    *)
(* fills in the three statuses.  Backends go up and down in between, and a *)
(* ping may fail on a healthy one (it has five seconds).  CheckPostgres,   *)
(* CheckMongo and CheckRedis are single pings of the second round.         *)
(***************************************************************************)
EXTENDS Naturals, Sequences

Order == <<"postgres", "mongo", "redis">>
Backends == {"postgres", "mongo", "redis"}
Statuses == {"none", "connected", "disconnected", "disabled"}

CONSTANTS Flaps   \* bound: how often backends change during one check

ASSUME FlapsAssumption == Flaps \in Nat

VARIABLES
  present,  \* backends whose client in db.Manager is not nil: fixed at start-up
  up,       \* backends that answer
  step,     \* pings made so far: 1-3 of CheckAll, 4-6 of the statuses
  ok,       \* what CheckAll found
  status,   \* the three statuses of the response
  flaps,    \* History: changes since the check began
  wasUp,    \* History: backends that were up at some moment of the check
  slow      \* History: backends of which a ping failed while they were up

vars == <<present, up, step, ok, status, flaps, wasUp, slow>>

TypeOK ==
  /\ present \subseteq Backends
  /\ up \subseteq Backends
  /\ step \in 0..6
  /\ ok \subseteq Backends
  /\ status \in [Backends -> Statuses]
  /\ flaps \in 0..Flaps
  /\ wasUp \subseteq Backends
  /\ slow \subseteq Backends

Init ==
  /\ present \in SUBSET Backends
  /\ up \in SUBSET Backends
  /\ step = 0
  /\ ok = {}
  /\ status = [b \in Backends |-> "none"]
  /\ flaps = 0
  /\ wasUp = up
  /\ slow = {}

Flap(b) ==
  /\ flaps < Flaps
  /\ flaps' = flaps + 1
  /\ up' = IF b \in up THEN up \ {b} ELSE up \union {b}
  /\ wasUp' = wasUp \union up'
  /\ UNCHANGED <<present, step, ok, status, slow>>

\* TestConnection of one backend succeeds, fails, or fails against the odds.
Answers(b) == b \in present /\ b \in up /\ UNCHANGED slow
Refuses(b) ==
  /\ b \in present
  /\ slow' = IF b \in up THEN slow \union {b} ELSE slow
NotEnabled(b) == b \notin present /\ UNCHANGED slow

\* Mutant of CheckAll: a backend without a client counts as healthy.
CheckAllLenient ==
  /\ step < 3
  /\ LET b == Order[step + 1] IN
       \/ (Answers(b) \/ NotEnabled(b)) /\ ok' = ok \union {b}
       \/ Refuses(b) /\ UNCHANGED ok
  /\ step' = step + 1
  /\ UNCHANGED <<present, up, status, flaps, wasUp>>

\* One ping of healthService.CheckAll.
CheckAll ==
  /\ step < 3
  /\ LET b == Order[step + 1] IN
       \/ Answers(b) /\ ok' = ok \union {b}
       \/ (Refuses(b) \/ NotEnabled(b)) /\ UNCHANGED ok
  /\ step' = step + 1
  /\ UNCHANGED <<present, up, status, flaps, wasUp>>

Report(b, s) == status' = [status EXCEPT ![b] = s]

\* Mutant of BuildStatus: a failed ping is reported as disabled.
BuildStatusDisabled ==
  /\ step \in 3..5
  /\ LET b == Order[step - 2] IN
       \/ Answers(b) /\ Report(b, "connected")
       \/ (Refuses(b) \/ NotEnabled(b)) /\ Report(b, "disabled")
  /\ step' = step + 1
  /\ UNCHANGED <<present, up, ok, flaps, wasUp>>

\* buildStatus, buildMongoStatus, buildRedisStatus: one more ping each.
BuildStatus ==
  /\ step \in 3..5
  /\ LET b == Order[step - 2] IN
       \/ Answers(b) /\ Report(b, "connected")
       \/ Refuses(b) /\ Report(b, "disconnected")
       \/ NotEnabled(b) /\ Report(b, "disabled")
  /\ step' = step + 1
  /\ UNCHANGED <<present, up, ok, flaps, wasUp>>

\* The response has been sent; the next check begins afresh.
Again ==
  /\ step = 6
  /\ step' = 0
  /\ ok' = {}
  /\ status' = [b \in Backends |-> "none"]
  /\ flaps' = 0
  /\ wasUp' = up
  /\ slow' = {}
  /\ UNCHANGED <<present, up>>

Next == CheckAll \/ BuildStatus \/ Again \/ \E b \in Backends : Flap(b)

Spec == Init /\ [][Next]_vars

-----------------------------------------------------------------------------
(* Properties.                                                             *)

\* overall_healthy of the response.
OverallHealthy == ok = Backends
Responded == step = 6

\* The response agrees with itself whenever the backends hold still: overall_healthy
\* says exactly that all three statuses are "connected".
QuietCheckAgrees ==
  Responded /\ flaps = 0 /\ slow = {} =>
    (OverallHealthy <=> \A b \in Backends : status[b] = "connected")

\* Each status is the truth of some moment of the check: "connected" was up then,
\* "disconnected" was down or slow, "disabled" has no client and never had a ping.
StatusesExplained ==
  Responded =>
    \A b \in Backends :
      /\ status[b] = "connected" => b \in present /\ b \in wasUp
      /\ status[b] = "disconnected" => b \in present /\ (b \notin up \/ flaps > 0 \/ b \in slow)
      /\ status[b] = "disabled" <=> b \notin present
=============================================================================
