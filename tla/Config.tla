------------------------------- MODULE Config -------------------------------
(***************************************************************************)
(* internal/config/config.go and the start of cmd/main.go: a router        *)
(* process is started in a directory, perhaps more than once, and finds    *)
(* config.json, writes it, or dies on it; the operator may put a file of   *)
(* his own there at any time, and the process may be killed at any point.  *)
(* A configuration is a record of the fields whose treatment differs; an   *)
(* environment has a text for each, "" for a variable that is unset or     *)
(* empty.                                                                  *)
(***************************************************************************)
EXTENDS Integers

CONSTANTS
  Contents,   \* what the operator may write into config.json
  Envs,       \* the environments a process may be started in
  MaxStarts,  \* bound: how often the process is started
  MaxPlaced   \* bound: how often the operator writes the file

Absent == [file |-> "absent"]
Torn == [file |-> "torn"]      \* truncated, not yet or not wholly written
Fields == {"enabled", "port", "tls", "cert", "ca", "auth"}

\* json.Unmarshal gives every field of the structure a value.
ASSUME ContentsAssumption == \A c \in Contents : DOMAIN c = Fields
ASSUME BoundsAssumption == MaxStarts \in Nat /\ MaxPlaced \in Nat

\* What strconv.Atoi makes of the texts in use; it refuses any other.
Atoi == [t \in {"5432", "5433"} |-> IF t = "5432" THEN 5432 ELSE 5433]

\* createDefault.
Default == [enabled |-> "true", port |-> 5432, tls |-> FALSE,
            cert |-> "certs/server.crt", ca |-> "certs/ca.crt", auth |-> "require"]

\* overrideFromEnv: a variable that is not empty replaces the file's value, unless
\* it is a port that is no number; TLS is on for "true" and "1" and off for others.
Override(f, e) ==
  [x \in Fields |->
    CASE e[x] = "" -> f[x]
      [] x = "tls" /\ e[x] # "" -> e[x] \in {"true", "1"}
      [] x = "port" /\ e[x] # "" -> IF e[x] \in DOMAIN Atoi THEN Atoi[e[x]] ELSE f[x]
      [] OTHER -> e[x]]

VARIABLES
  disk,    \* config.json
  proc,    \* where the router process is
  env,     \* its environment
  cfg,     \* the configuration it has loaded
  starts,  \* how often it was started
  placed,  \* how often the operator has written the file
  \* History, for the properties only:
  from,    \* the contents of the file that cfg was read from
  theirs,  \* what the operator wrote last, or Absent
  late     \* the operator wrote after a process had found no file and before it
           \* had written its own

configVars == <<disk, proc, env, cfg, starts, placed, from, theirs, late>>
configHistory == <<from, theirs, late>>

ConfigTypeOK ==
  /\ DOMAIN disk \in {Fields, {"file"}}
  /\ proc \in {"down", "stat", "create", "write", "read", "loaded", "serving"}
  /\ env \in Envs
  /\ proc \in {"loaded", "serving"} => DOMAIN cfg = Fields
  /\ starts \in 0..MaxStarts /\ placed \in 0..MaxPlaced
  /\ theirs \in Contents \union {Absent} /\ late \in BOOLEAN

ConfigInit ==
  /\ disk = Absent /\ proc = "down" /\ env \in Envs
  /\ cfg = Absent /\ starts = 0 /\ placed = 0
  /\ from = Absent /\ theirs = Absent /\ late = FALSE

-----------------------------------------------------------------------------

Start ==
  /\ proc = "down" /\ starts < MaxStarts
  /\ proc' = "stat" /\ starts' = starts + 1
  /\ env' \in Envs
  /\ UNCHANGED <<disk, cfg, placed, configHistory>>

\* Mutant of Stat: the default file is written whether there is one or not.
StatAlways ==
  /\ proc = "stat" /\ proc' = "create"
  /\ UNCHANGED <<disk, env, cfg, starts, placed, configHistory>>

\* os.Stat
Stat ==
  /\ proc = "stat"
  /\ proc' = IF disk = Absent THEN "create" ELSE "read"
  /\ UNCHANGED <<disk, env, cfg, starts, placed, configHistory>>

\* os.WriteFile opens the file and cuts it to nothing ...
Truncate ==
  /\ proc = "create" /\ proc' = "write"
  /\ disk' = Torn
  /\ UNCHANGED <<env, cfg, starts, placed, configHistory>>

\* ... and fills it.
Write ==
  /\ proc = "write" /\ proc' = "read"
  /\ disk' = Default
  /\ UNCHANGED <<env, cfg, starts, placed, configHistory>>

\* The write fails half-way: log.Fatalf.
WriteFails ==
  /\ proc = "write" /\ proc' = "down"
  /\ UNCHANGED <<disk, env, cfg, starts, placed, configHistory>>

\* Mutant of Read: an unreadable file counts as an empty one, with the defaults.
ReadLenient ==
  /\ proc = "read" /\ proc' = "loaded"
  /\ cfg' = Override(IF disk \in {Absent, Torn} THEN Default ELSE disk, env)
  /\ from' = disk
  /\ UNCHANGED <<disk, env, starts, placed, theirs, late>>

\* os.ReadFile, json.Unmarshal, overrideFromEnv; a torn file is no JSON.
Read ==
  /\ proc = "read"
  /\ IF disk \in {Absent, Torn} THEN proc' = "down" /\ UNCHANGED <<cfg, from>>
     ELSE proc' = "loaded" /\ cfg' = Override(disk, env) /\ from' = disk
  /\ UNCHANGED <<disk, env, starts, placed, theirs, late>>

\* The process is killed, wherever it is.
Kill ==
  /\ proc # "down" /\ proc' = "down"
  /\ UNCHANGED <<disk, env, cfg, starts, placed, configHistory>>

\* The operator puts a whole file in place.
Place ==
  /\ placed < MaxPlaced /\ placed' = placed + 1
  /\ disk' \in Contents /\ theirs' = disk'
  /\ late' = (proc \in {"create", "write"})
  /\ UNCHANGED <<proc, env, cfg, starts, from>>

ConfigNext ==
  \/ Start \/ Stat \/ Truncate \/ Write \/ WriteFails \/ Read \/ Kill \/ Place

-----------------------------------------------------------------------------
(* Properties.                                                             *)

\* What a process runs with is one whole file, the operator's or the plain defaults,
\* with its own environment on top (config.go:68-88): never a file that another start
\* left half-written, no mixture of two files, and nothing of an environment that an
\* earlier start had (config.go:91, "without touching config.json").
RunsOneFile ==
  proc \in {"loaded", "serving"} =>
    from \in Contents \union {Default} /\ cfg = Override(from, env)

\* A file of the operator's stays as he wrote it through every start and every
\* crash, unless he wrote it while a process that had found none was about to
\* create one (config.go:71-73).
FileIsKept == theirs # Absent /\ ~late => disk = theirs
=============================================================================
