-------------------------------- MODULE Core --------------------------------
(***************************************************************************)
(* The Redis half of core/go/client.go, over the router's Redis service:   *)
(* RedisSet and RedisGet of several applications, each under its own       *)
(* namespace, beside callers of the plain stubs that list, count and       *)
(* delete keys.  The channel may break under a call, or a proxy on it may  *)
(* answer in the router's stead.                                           *)
(***************************************************************************)
EXTENDS Redis, Sequences

CONSTANTS
  Namespaces,  \* the applications' namespaces, as sequences of characters
  Uses,        \* the pairs of a namespace and a key name that are in use
  Owned        \* the values the application of each namespace stores

Colon == ":"

\* New takes any namespace that is not empty, one that holds the separator as well.
ASSUME NamespacesAssumption == Namespaces \subseteq Seq(STRING) \ {<<>>}
ASSUME UsesAssumption == \A u \in Uses : u[1] \in Namespaces /\ u[2] \in Seq(STRING)
ASSUME OwnedAssumption == Owned \in [Namespaces -> SUBSET Vals]
ASSUME CoreOpsAssumption == {"SetValue", "GetValue"} \subseteq Ops

VARIABLES
  app,   \* whose call it is: a namespace, or Nobody for a caller of the stubs
  ret    \* what RedisGet or RedisSet returned

coreVars == <<vars, app, ret>>

Nobody == "nobody"

\* What RedisGet returns for a missing key; no application stores it, for it could
\* not tell the two apart.
Miss == ""
ASSUME MissAssumption == Miss \notin Vals

\* The result of a call: its value, whether an error comes with it, and the status
\* message it was made from.
Result(v, err, text) == [val |-> v, err |-> err, text |-> text]
Texts == {"none", "OK", "key not found", "driver error", "404 (Not Found)",
          "connection closed"}
NoResult == Result(Missing, FALSE, "none")

\* Mutant of NsKey: the prefix without its separator.
NsKeyBare(ns, name) == ns \o name

\* RedisPrefix + key.
NsKey(ns, name) == ns \o <<Colon>> \o name
ASSUME KeysAssumption == \A u \in Uses : NsKey(u[1], u[2]) \in Keys

CoreTypeOK ==
  /\ TypeOK
  /\ app \in [Calls -> Namespaces \union {Nobody}]
  /\ ret \in [Calls -> [val : Vals \union {Missing, Miss}, err : BOOLEAN, text : Texts]]

\* What the applications that use a key store under it; two of them may.
StoredUnder(k) == UNION {Owned[u[1]] : u \in {w \in Uses : NsKey(w[1], w[2]) = k}}

\* Every key in use holds what an application stored.
CoreInit ==
  /\ Init
  /\ \A u \in Uses :
       val[NsKey(u[1], u[2])] \in StoredUnder(NsKey(u[1], u[2])) \union {Missing}
  /\ app = [c \in Calls |-> Nobody]
  /\ ret = [c \in Calls |-> NoResult]

-----------------------------------------------------------------------------

RedisSet(c) ==
  \E u \in Uses, ttl \in -1..MaxTTL : \E v \in Owned[u[1]] :
    /\ Ask(c, [op |-> "SetValue", key |-> NsKey(u[1], u[2]), val |-> v, ttl |-> ttl])
    /\ app' = [app EXCEPT ![c] = u[1]]
    /\ UNCHANGED ret

RedisGet(c) ==
  \E u \in Uses :
    /\ Ask(c, [op |-> "GetValue", key |-> NsKey(u[1], u[2]), val |-> Missing, ttl |-> 0])
    /\ app' = [app EXCEPT ![c] = u[1]]
    /\ UNCHANGED ret

\* A caller of the stubs, which know nothing of namespaces.
Plain(c) ==
  \E r \in Requests :
    /\ r.op \in {"ListKeys", "DeleteKey", "Info"}
    /\ Ask(c, r)
    /\ UNCHANGED <<app, ret>>

\* The status message of the server's answer (toGRPCError).
Text(code) ==
  CASE code = "ok" -> "OK" [] code = "notfound" -> "key not found"
    [] OTHER -> "driver error"

\* Mutant of LooksMissing: every error is a miss.
LooksMissingAlways(text) == TRUE

\* strings.Contains(strings.ToLower(st.Message()), "not found")
LooksMissing(text) == text \in {"key not found", "404 (Not Found)"}

\* RedisSet passes every error on; RedisGet turns some into an empty string.
Failed(c, text) ==
  IF Is(c, "GetValue") /\ LooksMissing(text) THEN Result(Miss, FALSE, text)
                                             ELSE Result(Miss, TRUE, text)

Waiting(c) == app[c] # Nobody /\ at[c] # "idle" /\ ret[c] = NoResult

\* The answer reaches the application.
Return(c) ==
  /\ Waiting(c)
  /\ at[c] = "done"
  /\ ret' = [ret EXCEPT ![c] =
       IF out[c].code = "ok" THEN Result(out[c].val, FALSE, "OK")
                             ELSE Failed(c, Text(out[c].code))]
  /\ UNCHANGED <<vars, app>>

\* The channel breaks under the call, or a proxy answers it with a page of its own.
Broken(c) ==
  /\ Waiting(c)
  /\ \E text \in {"404 (Not Found)", "connection closed"} :
       ret' = [ret EXCEPT ![c] = Failed(c, text)]
  /\ UNCHANGED <<vars, app>>

CoreNext ==
  \/ \E c \in Calls : \/ RedisSet(c) \/ RedisGet(c) \/ Plain(c)
                      \/ Return(c) \/ Broken(c)
  \/ /\ \E c \in Calls : \/ Deliver(c) \/ LoseReply(c) \/ LoseRequest(c)
                         \/ Deadline(c) \/ Stray(c)
     /\ UNCHANGED <<app, ret>>
  \/ (Tick \/ Quiet) /\ UNCHANGED <<app, ret>>

CoreSpec == CoreInit /\ [][CoreNext]_coreVars

-----------------------------------------------------------------------------
(* Properties.                                                             *)

\* One namespace continues the other with the separator: "a" and "a:b".
Nested(a, b) ==
  Len(a) < Len(b) /\ b[Len(a) + 1] = Colon /\ \A i \in 1..Len(a) : a[i] = b[i]

\* What the applications store whose keys the one of ns may meet.
Reachable(ns) ==
  UNION {Owned[n] : n \in {m \in Namespaces : m = ns \/ Nested(m, ns) \/ Nested(ns, m)}}

\* The isolation of namespaces that client.go:1-4 claims, as far as the code keeps it
\* (client.go:43, 51, 191 and 202): an application reads what it stored itself, or
\* what one stored whose namespace continues the other's with the separator, and
\* nothing else, whatever the names of keys are: prefixes of one another, keys that
\* hold the separator, writes that arrive late.
Isolated ==
  \A c \in Calls :
    app[c] # Nobody /\ Is(c, "GetValue") =>
      ret[c].val \in Reachable(app[c]) \union {Missing, Miss}

\* RedisGet's empty string without an error (client.go:206-208) means that the key
\* was absent at some moment of the call, that a command of the call failed inside
\* the router, or that something before the router answered 404; never that the
\* channel broke, and never that the router reported another failure.
MissExplained ==
  \A c \in Calls :
    Is(c, "GetValue") /\ ret[c].val = Miss /\ ~ret[c].err =>
      \/ \E p \in seen[c] : p[1] = Missing
      \/ c \in faulty
      \/ ret[c].text = "404 (Not Found)"
=============================================================================
