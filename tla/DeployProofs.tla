---------------------------- MODULE DeployProofs ----------------------------
(***************************************************************************)
(* Deploy.tla for any set of configurations and any number of runs and     *)
(* faults: what a run that ended well says of the proxy, the certificates  *)
(* and the configuration the router runs.                                  *)
(***************************************************************************)
EXTENDS Deploy, TLAPS

\* What Deploy leaves to TLC; the proofs need no more of the types.
StateInv ==
  /\ step \in 1..15
  /\ files \in [CertFiles -> {"none", "empty", "ok"}]
  /\ want.mtls \in BOOLEAN /\ want.conf # 0

\* How far the proxy has followed this run's wishes.
Wished == IF want.mtls THEN "mtls" ELSE "open"
CanStart == want.mtls => files["ca.crt"] = "ok"
ProxyInv ==
  /\ outcome = "running" /\ step > 12 => caddyfile = Wished
  /\ outcome = "running" /\ step > 13 => caddy = Wished /\ CanStart
  /\ outcome = "success" => caddyfile = Wished /\ caddy = Wished /\ CanStart

\* A file that was made, or begun, had what it needs, which no later step takes
\* away; the request server.csr, which the last task deletes, stands for the key it
\* was made from.
CertInv ==
  /\ files["server.csr"] # "none" => files["server.key"] = "ok"
  /\ files["server.crt"] # "none" =>
       files["server.key"] = "ok" /\ files["ca.crt"] = "ok" /\ files["ca.key"] = "ok"
  /\ files["client.crt"] # "none" =>
       files["client.key"] = "ok" /\ files["ca.crt"] = "ok" /\ files["ca.key"] = "ok"
  /\ \A f \in CertFiles : files[f] = "empty" => f \in torn

\* Nothing is missing once "Set cert files readable" has gone over the files.
ModesInv ==
  want.mtls /\ (outcome = "success" \/ (outcome = "running" /\ step > 9)) =>
    \A f \in CertFiles \ {"server.csr"} : files[f] # "none"

\* A router that differs from the file has been promised a restart or left by a
\* failure; the promise does not outlive the handlers.
RestartInv ==
  /\ box \in {0, conf} \/ unrest \/ (outcome = "running" /\ notified)
  /\ outcome = "running" /\ step \in {1, 15} => ~notified
  /\ (outcome = "running" /\ step > 1) \/ box # 0 => conf # 0
  /\ outcome = "running" /\ step > 10 => box # 0
  /\ outcome = "success" => box # 0

Inv == StateInv /\ ProxyInv /\ CertInv /\ ModesInv /\ RestartInv

-----------------------------------------------------------------------------

LEMMA PlanStep ==
  ASSUME NEW task, step \in 1..15, Plan[step] = task
  PROVE  /\ task = "config.json" => step = 1
         /\ task \in CertFiles => step \in 2..8
         /\ task = "ca.key" => step = 2
         /\ task = "modes" => step = 9
         /\ task = "compose" => step = 10
         /\ task = "port" => step = 11
         /\ task = "Caddyfile" => step = 12
         /\ task = "caddy" => step = 13
         /\ task = "handlers" => step = 14
         /\ task = "fetch" => step = 15
  BY DEF Plan, CertFiles

LEMMA Wishes ==
  ASSUME NEW w \in [conf : Configs, mtls : BOOLEAN]
  PROVE  w.mtls \in BOOLEAN /\ w.conf # 0
  BY ConfigsAssumption

LEMMA Initially == Init => Inv
<1> SUFFICES ASSUME Init PROVE Inv
  OBVIOUS
<1>1. StateInv
  BY Wishes DEF Init, StateInv
<1>2. ProxyInv /\ CertInv /\ ModesInv /\ RestartInv
  BY DEF Init, ProxyInv, CertInv, ModesInv, RestartInv, CertFiles
<1>3. QED
  BY <1>1, <1>2 DEF Inv

\* The tasks that make the certificates.
LEMMA GenerateStep ==
  ASSUME Inv, NEW f \in CertFiles, Generate(f)
  PROVE  Inv'
<1>1. step \in 2..8 /\ outcome = "running"
  BY PlanStep DEF Inv, StateInv, Generate, At
<1>2. \/ UNCHANGED <<files, torn>>
      \/ \E left \in {"ok", "none", "empty"} :
           /\ files' = [g \in CertFiles |->
                CASE g = f -> left
                  [] f = "client.crt" /\ g = "server.csr" -> "none"
                  [] OTHER -> files[g]]
           /\ files[f] = "none"
           /\ left # "none" => \A n \in Needs[f] : files[n] = "ok"
           /\ torn' = IF left = "empty" THEN torn \union {f} ELSE torn
  BY DEF Generate, Leaves, Able
<1>3. CertInv'
  <2>1. CASE UNCHANGED <<files, torn>>
    BY <2>1 DEF Inv, CertInv
  <2>2. CASE ~UNCHANGED <<files, torn>>
    <3>1. PICK left \in {"ok", "none", "empty"} :
            /\ files'[f] = left
            /\ \A g \in CertFiles : g # f =>
                 files'[g] = files[g]
                   \/ (f = "client.crt" /\ g = "server.csr" /\ files'[g] = "none")
            /\ files[f] = "none"
            /\ left # "none" => \A n \in Needs[f] : files[n] = "ok"
            /\ torn' = IF left = "empty" THEN torn \union {f} ELSE torn
      BY <1>2, <2>2
    <3>2. QED
      BY <3>1 DEF Inv, StateInv, CertInv, CertFiles, Needs
  <2>3. QED
    BY <2>1, <2>2
<1>4. StateInv'
  BY <1>1, <1>2 DEF Generate, Inv, StateInv, Done, Fails, CertFiles
<1>5. ProxyInv' /\ ModesInv'
  BY <1>1 DEF Generate, ProxyInv, ModesInv, Done, Fails
<1>6. RestartInv'
  BY <1>1 DEF Generate, Inv, RestartInv, Done, Fails
<1>7. QED
  BY <1>3, <1>4, <1>5, <1>6 DEF Inv

\* The other tasks, from the first to the last.
LEMMA TaskStep ==
  ASSUME Inv,
         Template \/ Modes \/ Compose \/ Unlucky \/ Port \/ Caddyfile \/ StartCaddy
           \/ Handlers \/ Fetch
  PROVE  Inv'
<1> USE DEF Done, Fails
<1>1. CASE Template
  <2>1. step = 1 /\ outcome = "running"
    BY <1>1, PlanStep DEF Inv, StateInv, Template, At
  <2>2. notified' <=> conf # want.conf
    BY <1>1, Zenon DEF Template
  <2>3. RestartInv'
    BY <1>1, <2>1, <2>2 DEF Template, Inv, StateInv, RestartInv
  <2>4. StateInv' /\ ProxyInv' /\ CertInv' /\ ModesInv'
    BY <1>1, <2>1 DEF Template, Inv, StateInv, ProxyInv, CertInv, ModesInv, Wished, CanStart
  <2>5. QED
    BY <2>3, <2>4 DEF Inv
<1>2. CASE Modes
  <2>1. step = 9 /\ outcome = "running"
    BY <1>2, PlanStep DEF Inv, StateInv, Modes, At
  <2>2. QED
    BY <1>2, <2>1 DEF Modes, Inv, StateInv, ProxyInv, CertInv, ModesInv, RestartInv,
       Wished, CanStart
<1>3. CASE Compose
  <2>1. step = 10 /\ outcome = "running"
    BY <1>3, PlanStep DEF Inv, StateInv, Compose, At
  <2>2. unrest' <=> (unrest /\ box' # conf)
    BY <1>3, Zenon DEF Compose
  <2>3. RestartInv'
    BY <1>3, <2>1, <2>2 DEF Compose, Inv, StateInv, RestartInv
  <2>4. StateInv' /\ ProxyInv' /\ CertInv' /\ ModesInv'
    BY <1>3, <2>1 DEF Compose, Inv, StateInv, ProxyInv, CertInv, ModesInv, Wished, CanStart
  <2>5. QED
    BY <2>3, <2>4 DEF Inv
<1>4. CASE Unlucky
  <2>1. step \in 10..11 /\ outcome = "running"
    BY <1>4, PlanStep DEF Inv, StateInv, Unlucky, At
  <2>2. QED
    BY <1>4, <2>1 DEF Unlucky, Inv, StateInv, ProxyInv, CertInv, ModesInv, RestartInv,
       Wished, CanStart
<1>5. CASE Port
  <2>1. step = 11 /\ outcome = "running"
    BY <1>5, PlanStep DEF Inv, StateInv, Port, At
  <2>2. QED
    BY <1>5, <2>1 DEF Port, Inv, StateInv, ProxyInv, CertInv, ModesInv, RestartInv,
       Wished, CanStart
<1>6. CASE Caddyfile
  <2>1. step = 12 /\ outcome = "running"
    BY <1>6, PlanStep DEF Inv, StateInv, Caddyfile, At
  <2>2. QED
    BY <1>6, <2>1 DEF Caddyfile, Inv, StateInv, ProxyInv, CertInv, ModesInv, RestartInv,
       Wished, CanStart
<1>7. CASE StartCaddy
  <2>1. step = 13 /\ outcome = "running"
    BY <1>7, PlanStep DEF Inv, StateInv, StartCaddy, At
  <2>2. caddy' = "down" \/ (caddy' = Wished /\ CanStart)
    BY <1>7, <2>1 DEF StartCaddy, CaddyStarted, Inv, ProxyInv, Wished, CanStart
  <2>3. QED
    BY <1>7, <2>1, <2>2 DEF StartCaddy, Inv, StateInv, ProxyInv, CertInv, ModesInv,
       RestartInv, Wished, CanStart
<1>8. CASE Handlers
  <2>1. step = 14 /\ outcome = "running"
    BY <1>8, PlanStep DEF Inv, StateInv, Handlers, At
  <2>2. QED
    BY <1>8, <2>1 DEF Handlers, Inv, StateInv, ProxyInv, CertInv, ModesInv, RestartInv,
       Wished, CanStart
<1>9. CASE Fetch
  <2>1. step = 15 /\ outcome = "running"
    BY <1>9, PlanStep DEF Inv, StateInv, Fetch, At
  <2>2. QED
    BY <1>9, <2>1 DEF Fetch, Inv, StateInv, ProxyInv, CertInv, ModesInv, RestartInv,
       Wished, CanStart
<1>10. QED
  BY <1>1, <1>2, <1>3, <1>4, <1>5, <1>6, <1>7, <1>8, <1>9

\* openssl is cut short on a file.
LEMMA CutShortStep ==
  ASSUME Inv, CutShort
  PROVE  CertInv' /\ files' \in [CertFiles -> {"none", "empty", "ok"}]
BY DEF CutShort, Able, Inv, StateInv, CertInv, CertFiles, Needs

\* The host goes down, perhaps while a certificate is written.
LEMMA HostDownStep ==
  ASSUME Inv, HostDown
  PROVE  Inv'
<1>1. outcome' # "running" /\ (outcome' = "success" => outcome = "success")
  BY DEF HostDown
<1>2. \/ files' = files /\ torn' = torn
      \/ outcome' = "failed" /\ CutShort
  BY DEF HostDown, CutShort, At
<1>3. CertInv' /\ StateInv'
  <2>1. CertInv' /\ files' \in [CertFiles -> {"none", "empty", "ok"}]
    BY <1>2, CutShortStep DEF Inv, StateInv, CertInv
  <2>2. QED
    BY <2>1 DEF HostDown, Inv, StateInv
<1>4. outcome' = "success" => files' = files
  BY <1>2
<1>5. ProxyInv'
  BY <1>1, <1>4 DEF HostDown, CaddyStarted, Inv, ProxyInv, Wished, CanStart
<1>6. ModesInv' /\ RestartInv'
  BY <1>1, <1>4 DEF HostDown, Inv, ModesInv, RestartInv
<1>7. QED
  BY <1>3, <1>5, <1>6 DEF Inv

\* What a run that ended well, or that is on its way, has established stays so.
THEOREM Invariance == Spec => []Inv
<1>1. Inv /\ [Next]_vars => Inv'
  <2> SUFFICES ASSUME Inv, [Next]_vars PROVE Inv'
    OBVIOUS
  <2>1. CASE Begin
    <3>1. StateInv'
      BY <2>1, Wishes DEF Begin, Inv, StateInv
    <3>2. QED
      BY <2>1, <3>1 DEF Begin, Inv, ProxyInv, CertInv, ModesInv, RestartInv
  <2>2. CASE Interrupt
    <3>1. CertInv' /\ StateInv'
      BY <2>2, CutShortStep DEF Interrupt, Fails, Inv, StateInv, CertInv
    <3>2. QED
      BY <2>2, <3>1 DEF Interrupt, Fails, Inv, ProxyInv, ModesInv, RestartInv
  <2>3. CASE RouterRestarts
    BY <2>3 DEF RouterRestarts, Inv, StateInv, ProxyInv, CertInv, ModesInv, RestartInv,
       Wished, CanStart
  <2>4. CASE UNCHANGED vars
    BY <2>4 DEF vars, Inv, StateInv, ProxyInv, CertInv, ModesInv, RestartInv, Wished,
       CanStart
  <2>5. QED
    BY <2>1, <2>2, <2>3, <2>4, GenerateStep, TaskStep, HostDownStep DEF Next
<1>2. QED
  BY Initially, <1>1, PTL DEF Spec

\* After a run that ended well Caddy does what that run asked for.
THEOREM ProxyFollowsHolds == Spec => []ProxyFollows
<1>1. Inv => ProxyFollows
  BY DEF Inv, ProxyInv, ProxyFollows, Wished
<1>2. QED
  BY <1>1, Invariance, PTL

\* After a run with mTLS that ended well every certificate can be used, but for a
\* server.crt or client.crt that openssl was cut short on.
THEOREM CertificatesWorkHolds == Spec => []CertificatesWork
<1>1. Inv => CertificatesWork
  BY DEF Inv, StateInv, CertInv, ModesInv, CertificatesWork, CertFiles
<1>2. QED
  BY <1>1, Invariance, PTL

\* A router that runs an old configuration after a run that ended well was left so
\* by a run that failed.
THEOREM StaleAfterFailureHolds == Spec => []StaleAfterFailure
<1>1. Inv => StaleAfterFailure
  BY DEF Inv, RestartInv, StaleAfterFailure
<1>2. QED
  BY <1>1, Invariance, PTL
=============================================================================
