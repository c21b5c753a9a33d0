----------------------------- MODULE HealthProofs -----------------------------
(***************************************************************************)
(* Health.tla for any number of changes during a check: what the response  *)
(* says of the backends, and that it agrees with itself.                   *)
(***************************************************************************)
EXTENDS Health, TLAPS

\* While nothing changed and no ping failed against the odds, every answer so far is
\* the truth of now; a status that is filled in is the truth of some moment.
PingInv ==
  /\ \A b \in Backends :
       /\ status[b] = "connected" => b \in present /\ b \in wasUp
       /\ status[b] = "disconnected" =>
            b \in present /\ (b \notin up \/ flaps > 0 \/ b \in slow)
       /\ status[b] = "disabled" => b \notin present
  /\ up \subseteq wasUp
  /\ flaps = 0 => wasUp = up

\* The pings go through the backends in their order.
OrderInv ==
  \A i \in 1..3 :
    /\ step < i => Order[i] \notin ok
    /\ step < i + 3 <=> status[Order[i]] = "none"
    /\ flaps = 0 /\ slow = {} /\ step >= i =>
         (Order[i] \in ok <=> Order[i] \in present /\ Order[i] \in up)

Inv == TypeOK /\ PingInv /\ OrderInv

LEMMA OrderIsBackends ==
  /\ \A i \in 1..3 : Order[i] \in Backends
  /\ \A b \in Backends : \E i \in 1..3 : b = Order[i]
  /\ \A i, j \in 1..3 : Order[i] = Order[j] => i = j
  BY DEF Order, Backends

\* Every answer is the truth of some moment of the check.
LEMMA Invariance == Spec => []Inv
<1>1. Init => Inv
  BY FlapsAssumption DEF Init, Inv, TypeOK, PingInv, OrderInv, Order, Backends, Statuses
<1>2. Inv /\ [Next]_vars => Inv'
  <2> SUFFICES ASSUME Inv, [Next]_vars PROVE Inv'
    OBVIOUS
  <2> USE DEF Inv
  <2>1. CASE CheckAll
    <3>1. step \in 0..2 /\ step' = step + 1
      BY <2>1 DEF CheckAll, TypeOK
    <3> DEFINE b == Order[step + 1]
    <3>2. /\ UNCHANGED <<present, up, status, flaps, wasUp>>
          /\ \/ b \in present /\ b \in up /\ slow' = slow /\ ok' = ok \union {b}
             \/ /\ b \in present /\ slow' = (IF b \in up THEN slow \union {b} ELSE slow)
                /\ ok' = ok
             \/ b \notin present /\ slow' = slow /\ ok' = ok
      BY <2>1 DEF CheckAll, Answers, Refuses, NotEnabled
    <3>3. b \in Backends
      BY <3>1, OrderIsBackends
    <3>4. TypeOK' /\ PingInv'
      BY <3>1, <3>2, <3>3 DEF TypeOK, PingInv
    <3>5. OrderInv'
      <4> SUFFICES ASSUME NEW i \in 1..3
                   PROVE  /\ step' < i => Order[i] \notin ok'
                          /\ step' < i + 3 <=> status'[Order[i]] = "none"
                          /\ flaps' = 0 /\ slow' = {} /\ step' >= i =>
                               (Order[i] \in ok' <=> Order[i] \in present' /\ Order[i] \in up')
        BY DEF OrderInv
      <4>1. CASE i = step + 1
        BY <3>1, <3>2, <4>1 DEF OrderInv
      <4>2. CASE i # step + 1
        <5>1. Order[i] # b
          BY <3>1, <4>2, OrderIsBackends
        <5>2. QED
          BY <3>1, <3>2, <4>2, <5>1 DEF OrderInv
      <4>3. QED
        BY <4>1, <4>2
    <3>6. QED
      BY <3>4, <3>5
  <2>2. CASE BuildStatus
    <3>1. step \in 3..5 /\ step' = step + 1
      BY <2>2 DEF BuildStatus
    <3> DEFINE b == Order[step - 2]
    <3>2. PICK s \in {"connected", "disconnected", "disabled"} :
          /\ UNCHANGED <<present, up, ok, flaps, wasUp>>
          /\ status' = [status EXCEPT ![b] = s]
          /\ \/ b \in present /\ b \in up /\ slow' = slow /\ s = "connected"
             \/ /\ b \in present /\ slow' = (IF b \in up THEN slow \union {b} ELSE slow)
                /\ s = "disconnected"
             \/ b \notin present /\ slow' = slow /\ s = "disabled"
      BY <2>2 DEF BuildStatus, Answers, Refuses, NotEnabled, Report
    <3>3. b \in Backends
      BY <3>1, OrderIsBackends
    <3>4. TypeOK' /\ PingInv'
      BY <3>1, <3>2, <3>3 DEF TypeOK, PingInv, Statuses
    <3>5. OrderInv'
      <4> SUFFICES ASSUME NEW i \in 1..3
                   PROVE  /\ step' < i => Order[i] \notin ok'
                          /\ step' < i + 3 <=> status'[Order[i]] = "none"
                          /\ flaps' = 0 /\ slow' = {} /\ step' >= i =>
                               (Order[i] \in ok' <=> Order[i] \in present' /\ Order[i] \in up')
        BY DEF OrderInv
      <4>1. slow' = {} => slow = {}
        BY <3>2
      <4>2. CASE i = step - 2
        BY <3>1, <3>2, <3>3, <4>1, <4>2 DEF OrderInv, TypeOK
      <4>3. CASE i # step - 2
        <5>1. Order[i] # b
          BY <3>1, <4>3, OrderIsBackends
        <5>2. QED
          BY <3>1, <3>2, <3>3, <4>1, <4>3, <5>1 DEF OrderInv, TypeOK
      <4>4. QED
        BY <4>2, <4>3
    <3>6. QED
      BY <3>4, <3>5
  <2>3. CASE Again
    BY <2>3, FlapsAssumption, OrderIsBackends
       DEF Again, TypeOK, PingInv, OrderInv, Backends, Statuses
  <2>4. ASSUME NEW b \in Backends, Flap(b) PROVE Inv'
    BY <2>4, FlapsAssumption DEF Flap, TypeOK, PingInv, OrderInv
  <2>5. CASE UNCHANGED vars
    BY <2>5 DEF vars, TypeOK, PingInv, OrderInv
  <2>6. QED
    BY <2>1, <2>2, <2>3, <2>4, <2>5 DEF Next
<1>3. QED
  BY <1>1, <1>2, PTL DEF Spec

\* The variables of a check hold what they are declared to.
THEOREM TypeCorrect == Spec => []TypeOK
<1>1. Inv => TypeOK
  BY DEF Inv
<1>2. QED
  BY <1>1, Invariance, PTL

\* Each status is the truth of some moment of the check.
THEOREM StatusesExplainedHolds == Spec => []StatusesExplained
<1>1. Inv => StatusesExplained
  <2> SUFFICES ASSUME Inv, Responded, NEW b \in Backends
               PROVE  /\ status[b] = "connected" => b \in present /\ b \in wasUp
                      /\ status[b] = "disconnected" =>
                           b \in present /\ (b \notin up \/ flaps > 0 \/ b \in slow)
                      /\ status[b] = "disabled" <=> b \notin present
    BY DEF StatusesExplained
  <2>1. PICK i \in 1..3 : b = Order[i]
    BY OrderIsBackends
  <2>2. status[b] \in {"connected", "disconnected", "disabled"}
    BY <2>1 DEF Inv, OrderInv, Responded, TypeOK, Statuses
  <2>3. QED
    BY <2>2 DEF Inv, PingInv
<1>2. QED
  BY <1>1, Invariance, PTL

\* While the backends hold still the response agrees with itself.
THEOREM QuietCheckAgreesHolds == Spec => []QuietCheckAgrees
<1>1. Inv => QuietCheckAgrees
  <2> SUFFICES ASSUME Inv, Responded, flaps = 0, slow = {}
               PROVE  ok = Backends <=> \A b \in Backends : status[b] = "connected"
    BY DEF QuietCheckAgrees, OverallHealthy
  <2>1. ASSUME NEW b \in Backends PROVE b \in ok <=> status[b] = "connected"
    <3>1. PICK i \in 1..3 : b = Order[i]
      BY OrderIsBackends
    <3>2. b \in ok <=> b \in present /\ b \in up
      BY <3>1 DEF Inv, OrderInv, Responded
    <3>3. status[b] \in {"connected", "disconnected", "disabled"}
      BY <3>1 DEF Inv, OrderInv, Responded, TypeOK, Statuses
    <3>4. QED
      BY <3>2, <3>3 DEF Inv, PingInv, TypeOK
  <2>2. QED
    BY <2>1 DEF Inv, TypeOK
<1>2. QED
  BY <1>1, Invariance, PTL
=============================================================================
