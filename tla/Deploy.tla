------------------------------- MODULE Deploy -------------------------------
(***************************************************************************)
(* deployer/entrypoint.sh and the playbook it runs on a host: the tasks of *)
(* ansible/roles/dbrouter and ansible/roles/caddy that change state, in    *)
(* their order, then the handlers, then the deployer's last steps.  A run  *)
(* stops at the first task that fails; the deployer may be interrupted, or *)
(* the host go down, between tasks and within one; openssl may be killed   *)
(* or find the disk full; the router's container restarts by itself.  The  *)
(* next run starts from the first task and finds what the earlier left.    *)
(***************************************************************************)
EXTENDS Integers, Sequences

CONSTANTS
  Configs,  \* the versions of config.json that a run may ask for
  MaxRuns,  \* bound: how often the deployer is run
  MaxFaults \* bound: how often the host goes down, the deployer is interrupted or
            \* openssl fails on good inputs

ASSUME ConfigsAssumption == Configs \subseteq Nat \ {0}

CertFiles == {"ca.key", "ca.crt", "server.key", "server.csr", "server.crt",
              "client.key", "client.crt"}

\* The tasks; one that makes a file goes by the name of the file.
Plan == <<"config.json", "ca.key", "ca.crt", "server.key", "server.csr", "server.crt",
          "client.key", "client.crt", "modes", "compose", "port", "Caddyfile", "caddy",
          "handlers", "fetch">>

\* What openssl reads to make each file.
Needs == [f \in CertFiles |->
  CASE f = "ca.crt" -> {"ca.key"}
    [] f = "server.csr" -> {"server.key"}
    [] f = "server.crt" -> {"server.csr", "ca.crt", "ca.key"}
    [] f = "client.crt" -> {"client.key", "ca.crt", "ca.key"}
    [] OTHER -> {}]

VARIABLES
  runs,     \* runs so far
  faults,   \* interruptions, crashes and failures of openssl so far
  step,     \* the task the present run is at
  outcome,  \* of the last run: "none", "running", "success" or "failed"
  want,     \* the configuration and the mTLS switch the run asks for
  notified, \* the handler "restart dbrouter" has been notified in this run
  files,    \* each certificate file: "none", "empty" or "ok"
  conf,     \* the version of config.json on the host, 0 for none
  box,      \* the version the router in its container runs, 0 for no container
  caddyfile,\* what the Caddyfile on the host says: "none", "open" or "mtls"
  caddy,    \* what the running Caddy does: "down", "open" or "mtls"
  \* History, for the properties only:
  torn,     \* files that openssl was cut short on
  unrest    \* a run has failed since the router last read its configuration

vars == <<runs, faults, step, outcome, want, notified, files, conf, box, caddyfile, caddy,
          torn, unrest>>

TypeOK ==
  /\ runs \in 0..MaxRuns /\ faults \in 0..MaxFaults
  /\ step \in 1..Len(Plan)
  /\ outcome \in {"none", "running", "success", "failed"}
  /\ want \in [conf : Configs, mtls : BOOLEAN]
  /\ files \in [CertFiles -> {"none", "empty", "ok"}]
  /\ {conf, box} \subseteq Configs \union {0}
  /\ caddyfile \in {"none", "open", "mtls"} /\ caddy \in {"down", "open", "mtls"}
  /\ torn \subseteq CertFiles
  /\ {notified, unrest} \subseteq BOOLEAN

Init ==
  /\ runs = 0 /\ faults = 0 /\ step = 1 /\ outcome = "none"
  /\ want \in [conf : Configs, mtls : BOOLEAN]
  /\ notified = FALSE
  /\ files = [f \in CertFiles |-> "none"]
  /\ conf = 0 /\ box = 0 /\ caddyfile = "none" /\ caddy = "down"
  /\ torn = {} /\ unrest = FALSE

-----------------------------------------------------------------------------
(* A run.                                                                  *)

At(task) == outcome = "running" /\ Plan[step] = task

Done == step' = step + 1 /\ UNCHANGED <<outcome, unrest>>
Fails == outcome' = "failed" /\ unrest' = TRUE /\ UNCHANGED step

\* The deployer is started, with the same wishes as before or others; what it does
\* before the playbook leaves the host as it is.
Begin ==
  /\ outcome # "running" /\ runs < MaxRuns
  /\ runs' = runs + 1 /\ step' = 1 /\ outcome' = "running" /\ notified' = FALSE
  /\ want' \in [conf : Configs, mtls : BOOLEAN]
  /\ UNCHANGED <<faults, files, conf, box, caddyfile, caddy, torn, unrest>>

\* "Create config.json for db-router" notifies its handler if the file changes.
Template ==
  /\ At("config.json")
  /\ conf' = want.conf
  /\ notified' = (conf # want.conf)
  /\ Done
  /\ UNCHANGED <<runs, faults, want, files, box, caddyfile, caddy, torn>>

Able(f) == \A n \in Needs[f] : files[n] = "ok"

\* What openssl leaves of f: nothing if an input is missing or damaged.  On good
\* inputs it makes the file, or is killed or finds the disk full, which is a fault,
\* before it has opened the file or after.
Leaves(f) ==
  IF ~Able(f) THEN {"none"}
  ELSE IF faults < MaxFaults THEN {"ok", "none", "empty"} ELSE {"ok"}

\* A certificate task: skipped without mTLS or if its file exists, whatever is in
\* it.  The one for the client is a shell script whose last command, which deletes
\* server.csr, succeeds in any case.
Generate(f) ==
  /\ At(f)
  /\ IF ~want.mtls \/ files[f] # "none" THEN Done /\ UNCHANGED <<faults, files, torn>>
     ELSE \E left \in Leaves(f) :
       /\ files' = [g \in CertFiles |->
            CASE g = f -> left
              [] f = "client.crt" /\ g = "server.csr" -> "none"
              [] OTHER -> files[g]]
       /\ faults' = IF Able(f) /\ left # "ok" THEN faults + 1 ELSE faults
       /\ torn' = IF left = "empty" THEN torn \union {f} ELSE torn
       /\ IF left = "ok" \/ f = "client.crt" THEN Done ELSE Fails
  /\ UNCHANGED <<runs, want, notified, conf, box, caddyfile, caddy>>

\* Mutant of Modes: the tasks pass over files that are not there.
ModesLenient ==
  /\ At("modes") /\ Done
  /\ UNCHANGED <<runs, faults, want, notified, files, conf, box, caddyfile, caddy, torn>>

\* "Lock down private keys" and "Set cert files readable" fail on a missing file.
Modes ==
  /\ At("modes")
  /\ IF want.mtls /\ \E f \in CertFiles \ {"server.csr"} : files[f] = "none"
     THEN Fails ELSE Done
  /\ UNCHANGED <<runs, faults, want, notified, files, conf, box, caddyfile, caddy, torn>>

\* docker compose up: the container is made, or made anew if its image has changed;
\* a changed config.json, which is only mounted, is no reason.
Compose ==
  /\ At("compose")
  /\ \E rebuilt \in BOOLEAN : box' = IF box = 0 \/ rebuilt THEN conf ELSE box
  /\ step' = step + 1 /\ UNCHANGED outcome
  /\ unrest' = (unrest /\ box' # conf)
  /\ UNCHANGED <<runs, faults, want, notified, files, conf, caddyfile, caddy, torn>>

\* The build, or waiting for the port, fails.
Unlucky ==
  /\ At("compose") \/ At("port")
  /\ Fails
  /\ UNCHANGED <<runs, faults, want, notified, files, conf, box, caddyfile, caddy, torn>>

Port ==
  /\ At("port") /\ Done
  /\ UNCHANGED <<runs, faults, want, notified, files, conf, box, caddyfile, caddy, torn>>

Caddyfile ==
  /\ At("Caddyfile") /\ Done
  /\ caddyfile' = IF want.mtls THEN "mtls" ELSE "open"
  /\ UNCHANGED <<runs, faults, want, notified, files, conf, box, caddy, torn>>

\* What Caddy does when it starts with what is on the host.
CaddyStarted ==
  IF caddyfile = "none" \/ (caddyfile = "mtls" /\ files["ca.crt"] # "ok") THEN "down"
  ELSE caddyfile

\* Mutant of StartCaddy: "started" in place of "restarted".
StartCaddyOnce ==
  /\ At("caddy")
  /\ caddy' = IF caddy = "down" THEN CaddyStarted ELSE caddy
  /\ IF caddy' = "down" THEN Fails ELSE Done
  /\ UNCHANGED <<runs, faults, want, notified, files, conf, box, caddyfile, torn>>

\* "Start and enable Caddy", with state: restarted.
StartCaddy ==
  /\ At("caddy")
  /\ caddy' = CaddyStarted
  /\ IF caddy' = "down" THEN Fails ELSE Done
  /\ UNCHANGED <<runs, faults, want, notified, files, conf, box, caddyfile, torn>>

\* Mutant of Handlers: the failure of "restart dbrouter" is ignored.
HandlersIgnored ==
  /\ At("handlers") /\ Done
  /\ UNCHANGED <<runs, faults, want, notified, files, conf, box, caddyfile, caddy, torn>>

\* "restart dbrouter", if notified, looks for a compose file in /opt/db-router; it
\* lies in deployer/dbr.  Then "reload caddy" changes nothing any more.
Handlers ==
  /\ At("handlers")
  /\ IF notified THEN Fails ELSE Done
  /\ UNCHANGED <<runs, faults, want, notified, files, conf, box, caddyfile, caddy, torn>>

\* The certificates are fetched, or a warning is printed; the run ends well.
Fetch ==
  /\ At("fetch")
  /\ outcome' = "success"
  /\ UNCHANGED <<runs, faults, step, want, notified, files, conf, box, caddyfile, caddy,
                 torn, unrest>>

-----------------------------------------------------------------------------
(* What goes wrong.                                                        *)

\* The file openssl was writing stays empty, or incomplete.
CutShort ==
  \E f \in CertFiles :
    /\ At(f) /\ want.mtls /\ files[f] = "none" /\ Able(f)
    /\ files' = [files EXCEPT ![f] = "empty"]
    /\ torn' = torn \union {f}

\* The deployer is stopped, or its connection to the host breaks, which ends the
\* command that was running there.
Interrupt ==
  /\ outcome = "running" /\ faults < MaxFaults /\ faults' = faults + 1
  /\ Fails
  /\ CutShort \/ UNCHANGED <<files, torn>>
  /\ UNCHANGED <<runs, want, notified, conf, box, caddyfile, caddy>>

\* The host goes down and comes back; the container and Caddy start with what is on
\* it.
HostDown ==
  /\ faults < MaxFaults /\ faults' = faults + 1
  /\ IF outcome = "running" THEN outcome' = "failed" ELSE UNCHANGED outcome
  /\ CutShort \/ UNCHANGED <<files, torn>>
  /\ box' = IF box = 0 THEN 0 ELSE conf
  /\ unrest' = (outcome = "running" /\ box = 0)
  /\ caddy' = CaddyStarted
  /\ UNCHANGED <<runs, step, want, notified, conf, caddyfile>>

\* The router ends, by log.Fatalf or for lack of memory, and is started again.
RouterRestarts ==
  /\ box # 0
  /\ box' = conf /\ unrest' = FALSE
  /\ UNCHANGED <<runs, faults, step, outcome, want, notified, files, conf, caddyfile, caddy,
                 torn>>

Next ==
  \/ Begin \/ Template \/ (\E f \in CertFiles : Generate(f)) \/ Modes \/ Compose \/ Unlucky
  \/ Port \/ Caddyfile \/ StartCaddy \/ Handlers \/ Fetch
  \/ Interrupt \/ HostDown \/ RouterRestarts

Spec == Init /\ [][Next]_vars

-----------------------------------------------------------------------------
(* Properties.                                                             *)

\* After a run that ended well Caddy does what that run asked for, and nobody gets
\* in without a certificate when it asked for mTLS, although a failed handler of an
\* earlier run may have swallowed "reload caddy" (roles/caddy/tasks/main.yml:46).
ProxyFollows ==
  outcome = "success" => caddy = IF want.mtls THEN "mtls" ELSE "open"

\* After a run with mTLS that ended well every certificate can be used, but for a
\* server.crt or client.crt that openssl itself was cut short on, in this run or an
\* earlier one: a certificate task that made no file is noticed by a later task, and
\* a damaged key, CA or request stops every later run
\* (roles/dbrouter/tasks/main.yml:36-139).  That a damaged server.crt or client.crt
\* is skipped by its "creates" and stays is what the code does, and is excepted.
CertificatesWork ==
  outcome = "success" /\ want.mtls =>
    \A f \in CertFiles \ {"server.csr"} :
      files[f] = "ok" \/ (f \in {"server.crt", "client.crt"} /\ f \in torn)

\* A router that runs an old configuration after a run that ended well was left so
\* by a run that failed: no run changes the configuration, leaves the router as it
\* is and ends well (roles/dbrouter/handlers/main.yml:2).
StaleAfterFailure == outcome = "success" /\ box # conf => unrest

\* ansible/README.md:175, "Restart on config change": after a run that ended well
\* the router runs the configuration that is on the host.
RestartOnChange == outcome = "success" => box = conf
=============================================================================
