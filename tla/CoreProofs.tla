------------------------------ MODULE CoreProofs ------------------------------
(***************************************************************************)
(* Core.tla for any namespaces, any keys and any finite set of calls: the  *)
(* applications' calls are calls of the Redis service, they read only what *)
(* their own application stored or one with a namespace nested with its    *)
(* own, and an empty answer has its reasons.                               *)
(***************************************************************************)
EXTENDS Core, RedisProofs, SequenceTheorems

-----------------------------------------------------------------------------
(* Core implements Redis.                                                  *)

LEMMA AppRequests ==
  ASSUME NEW u \in Uses
  PROVE  /\ u[1] \in Namespaces /\ NsKey(u[1], u[2]) \in Keys
         /\ \A v \in Owned[u[1]], ttl \in -1..MaxTTL :
              [op |-> "SetValue", key |-> NsKey(u[1], u[2]), val |-> v, ttl |-> ttl] \in Requests
         /\ [op |-> "GetValue", key |-> NsKey(u[1], u[2]), val |-> Missing, ttl |-> 0]
              \in Requests
<1>1. u[1] \in Namespaces /\ NsKey(u[1], u[2]) \in Keys
  BY UsesAssumption, KeysAssumption
<1>2. Owned[u[1]] \subseteq Vals
  BY <1>1, OwnedAssumption
<1>3. QED
  BY <1>1, <1>2, CoreOpsAssumption DEF Requests

\* Every step of an application or of its channel is a step of the service, or none.
LEMMA CoreStep ==
  ASSUME [CoreNext]_coreVars
  PROVE  [Next]_vars
<1>1. ASSUME NEW c \in Calls, RedisSet(c) \/ RedisGet(c) \/ Plain(c)
      PROVE  Arrive(c)
  BY <1>1, AppRequests DEF RedisSet, RedisGet, Plain, Arrive
<1>2. ASSUME NEW c \in Calls, Return(c) \/ Broken(c)
      PROVE  UNCHANGED vars
  BY <1>2 DEF Return, Broken
<1>3. QED
  BY <1>1, <1>2 DEF CoreNext, Next, coreVars

\* The calls of the applications, under their namespaces, beside those of others are
\* calls of the Redis service: what holds of every call holds of theirs.
THEOREM CoreImplementsRedis == CoreSpec => Spec
<1>1. CoreInit => Init
  BY DEF CoreInit
<1>2. [CoreNext]_coreVars => [Next]_vars
  BY CoreStep
<1>3. QED
  BY <1>1, <1>2, PTL DEF CoreSpec, Spec

-----------------------------------------------------------------------------
(* Namespaces.                                                             *)

\* What a key begins with.
LEMMA Separator ==
  ASSUME NEW u \in Uses
  PROVE  /\ u[1] \in Seq(STRING) /\ Len(u[1]) \in Nat
         /\ NsKey(u[1], u[2])[Len(u[1]) + 1] = Colon
         /\ \A i \in 1..Len(u[1]) : NsKey(u[1], u[2])[i] = u[1][i]
<1> DEFINE S == STRING \union {Colon}
           p == u[1] \o <<Colon>>
<1>1. u[1] \in Seq(STRING) /\ u[2] \in Seq(STRING)
  <2>1. u[1] \in Namespaces /\ u[2] \in Seq(STRING)
    BY UsesAssumption
  <2>2. QED
    BY <2>1, NamespacesAssumption
<1>2. u[1] \in Seq(S) /\ u[2] \in Seq(S)
  BY <1>1, SeqMonotonic
<1>3. <<Colon>> \in Seq(S) /\ Len(<<Colon>>) = 1 /\ <<Colon>>[1] = Colon
  <2>1. \A e \in S : <<e>> \in Seq(S) /\ Len(<<e>>) = 1 /\ <<e>>[1] = e
    <3> HIDE DEF S
    <3>1. QED
      OBVIOUS
  <2>2. QED
    BY <2>1
<1> HIDE DEF S
<1>4. Len(u[1]) \in Nat /\ Len(u[2]) \in Nat
  BY <1>2, LenProperties
<1>5. /\ p \in Seq(S) /\ Len(p) = Len(u[1]) + 1
      /\ \A i \in 1..Len(u[1]) + 1 :
           p[i] = IF i <= Len(u[1]) THEN u[1][i] ELSE <<Colon>>[i - Len(u[1])]
  BY <1>2, <1>3, ConcatProperties
<1>6. NsKey(u[1], u[2]) = p \o u[2]
  BY DEF NsKey
<1> HIDE DEF p
<1>7. \A i \in 1..Len(u[1]) + 1 : NsKey(u[1], u[2])[i] = p[i]
  <2>1. \A i \in 1..Len(p) + Len(u[2]) :
          (p \o u[2])[i] = IF i <= Len(p) THEN p[i] ELSE u[2][i - Len(p)]
    BY <1>2, <1>5, ConcatProperties
  <2>2. QED
    BY <1>4, <1>5, <1>6, <2>1
<1>8. QED
  BY <1>1, <1>3, <1>4, <1>5, <1>7

LEMMA ShorterNamespace ==
  ASSUME NEW u \in Uses, NEW w \in Uses, NsKey(u[1], u[2]) = NsKey(w[1], w[2]),
         Len(u[1]) < Len(w[1])
  PROVE  Nested(u[1], w[1])
<1> DEFINE k == NsKey(u[1], u[2])
           m == Len(u[1])
           n == Len(w[1])
<1>1. m \in Nat /\ n \in Nat
  BY Separator
<1>2. k[m + 1] = Colon /\ \A i \in 1..m : k[i] = u[1][i]
  BY Separator
<1>3. \A i \in 1..n : k[i] = w[1][i]
  BY Separator
<1>4. m < n
  OBVIOUS
<1>5. Nested(u[1], w[1]) <=> m < n /\ w[1][m + 1] = Colon /\ \A i \in 1..m : u[1][i] = w[1][i]
  BY DEF Nested
<1> HIDE DEF k, m, n
<1>6. QED
  BY <1>1, <1>2, <1>3, <1>4, <1>5

\* Two namespaces that share a key are nested: the longer one goes on with the
\* separator where the shorter one ends.
THEOREM NoCollision ==
  ASSUME NEW u \in Uses, NEW w \in Uses, NsKey(u[1], u[2]) = NsKey(w[1], w[2])
  PROVE  u[1] = w[1] \/ Nested(u[1], w[1]) \/ Nested(w[1], u[1])
<1>1. CASE Len(u[1]) = Len(w[1])
  <2>1. \A i \in 1..Len(u[1]) : u[1][i] = w[1][i]
    BY <1>1, Separator
  <2>2. QED
    BY <1>1, <2>1, Separator, SeqEqual
<1>2. CASE Len(u[1]) # Len(w[1])
  <2>1. Len(u[1]) < Len(w[1]) \/ Len(w[1]) < Len(u[1])
    BY <1>2, Separator
  <2>2. QED
    BY <2>1, ShorterNamespace
<1>3. QED
  BY <1>1, <1>2

\* What is stored under a key is within the reach of whoever uses it.
LEMMA SharedKey ==
  ASSUME NEW u \in Uses, NEW w \in Uses, NsKey(u[1], u[2]) = NsKey(w[1], w[2])
  PROVE  Owned[w[1]] \subseteq Reachable(u[1])
BY NoCollision, UsesAssumption DEF Reachable

LEMMA Stored ==
  ASSUME NEW u \in Uses
  PROVE  StoredUnder(NsKey(u[1], u[2])) \subseteq Reachable(u[1])
BY SharedKey DEF StoredUnder

\* Every key in use holds a value within the reach of the applications that use it,
\* and so do the answers and results of their calls; a request to store carries a
\* value of the application's own.
OwnCall(c) ==
  /\ at[c] # "idle" /\ req[c].op \in {"SetValue", "GetValue"} =>
       \E u \in Uses :
         /\ app[c] = u[1] /\ req[c].key = NsKey(u[1], u[2])
         /\ Is(c, "SetValue") => req[c].val \in Owned[u[1]]
  /\ at[c] # "idle" /\ Is(c, "GetValue") =>
       /\ out[c].val \in Reachable(app[c]) \union {Missing}
       /\ ret[c].val \in Reachable(app[c]) \union {Missing, Miss}
  /\ at[c] = "idle" => out[c] = NoAnswer /\ req[c] = NoRequest /\ ret[c] = NoResult
OwnInv ==
  /\ \A u \in Uses : val[NsKey(u[1], u[2])] \in Reachable(u[1]) \union {Missing}
  /\ \A c \in Calls : OwnCall(c)

CoreTypeInv ==
  /\ TypeInv
  /\ app \in [Calls -> Namespaces \union {Nobody}]
  /\ ret \in [Calls -> [val : Vals \union {Missing, Miss}, err : BOOLEAN, text : Texts]]

\* What reaches the application.
LEMMA Returned ==
  ASSUME CoreTypeInv, NEW c \in Calls, Return(c) \/ Broken(c)
  PROVE  /\ Waiting(c) /\ UNCHANGED <<vars, app>>
         /\ \E v \in {out[c].val, Miss}, err \in BOOLEAN, text \in Texts :
              /\ ret' = [ret EXCEPT ![c] = Result(v, err, text)]
              /\ ~err /\ v = Miss =>
                   \/ Is(c, "GetValue") /\ text = "404 (Not Found)"
                   \/ Is(c, "GetValue") /\ at[c] = "done" /\ out[c].code = "notfound"
                   \/ out[c].val = Miss
<1>1. CASE Return(c)
  <2>1. CASE out[c].code = "ok"
    BY <1>1, <2>1 DEF Return, Texts
  <2>2. CASE out[c].code # "ok"
    <3>1. /\ Text(out[c].code) \in {"key not found", "driver error"}
          /\ Text(out[c].code) = "key not found" => out[c].code = "notfound"
      BY <2>2 DEF Text
    <3>2. QED
      BY <1>1, <2>2, <3>1 DEF Return, Failed, LooksMissing, Texts
  <2>3. QED
    BY <2>1, <2>2
<1>2. CASE Broken(c)
  BY <1>2 DEF Broken, Failed, LooksMissing, Texts
<1>3. QED
  BY <1>1, <1>2 DEF Return, Broken

LEMMA CoreTypeInvariance == CoreSpec => []CoreTypeInv
<1>1. CoreInit => app \in [Calls -> Namespaces \union {Nobody}] /\
        ret \in [Calls -> [val : Vals \union {Missing, Miss}, err : BOOLEAN, text : Texts]]
  BY DEF CoreInit, NoResult, Result, Texts
<1>2. CoreTypeInv /\ TypeInv' /\ [CoreNext]_coreVars => CoreTypeInv'
  <2> SUFFICES ASSUME CoreTypeInv, TypeInv', [CoreNext]_coreVars PROVE CoreTypeInv'
    OBVIOUS
  <2>1. ASSUME UNCHANGED <<app, ret>> PROVE CoreTypeInv'
    BY <2>1 DEF CoreTypeInv
  <2>2. ASSUME NEW c \in Calls, RedisSet(c) \/ RedisGet(c) PROVE CoreTypeInv'
    BY <2>2, AppRequests DEF RedisSet, RedisGet, CoreTypeInv
  <2>3. ASSUME NEW c \in Calls, Return(c) \/ Broken(c) PROVE CoreTypeInv'
    <3>1. out[c].val \in Vals \union {Missing}
      BY DEF CoreTypeInv, TypeInv, TypeOK
    <3>2. PICK v \in {out[c].val, Miss}, err \in BOOLEAN, text \in Texts :
            ret' = [ret EXCEPT ![c] = Result(v, err, text)]
      BY <2>3, Returned
    <3>3. Result(v, err, text) \in [val : Vals \union {Missing, Miss}, err : BOOLEAN, text : Texts]
      BY <3>1 DEF Result
    <3>4. app' = app
      BY <2>3, Returned
    <3>5. QED
      BY <3>2, <3>3, <3>4 DEF CoreTypeInv
  <2>4. QED
    BY <2>1, <2>2, <2>3 DEF CoreNext, Plain, coreVars
<1>3. CoreSpec => []TypeInv
  BY CoreImplementsRedis, TypeInvariance, PTL
<1>4. TypeInv /\ app \in [Calls -> Namespaces \union {Nobody}] /\
        ret \in [Calls -> [val : Vals \union {Missing, Miss}, err : BOOLEAN, text : Texts]]
        => CoreTypeInv
  BY DEF CoreTypeInv
<1>5. QED
  BY <1>1, <1>2, <1>3, <1>4, PTL DEF CoreSpec

\* The variables of the applications hold what they are declared to.
THEOREM CoreTypeCorrect == CoreSpec => []CoreTypeOK
<1>1. CoreTypeInv => CoreTypeOK
  BY DEF CoreTypeInv, TypeInv, CoreTypeOK
<1>2. QED
  BY <1>1, CoreTypeInvariance, PTL

-----------------------------------------------------------------------------

\* A command leaves every key in use within the reach of its applications.
LEMMA OwnStore ==
  ASSUME CoreTypeInv, OwnInv, NEW c \in Calls, at[c] # "idle", Execute(c), NEW w \in Uses
  PROVE  val'[NsKey(w[1], w[2])] \in Reachable(w[1]) \union {Missing}
<1> DEFINE k == NsKey(w[1], w[2])
<1>1. val[k] \in Reachable(w[1]) \union {Missing} /\ k \in Keys
  BY KeysAssumption DEF OwnInv
<1>2. val \in [Keys -> Vals \union {Missing}]
  BY DEF CoreTypeInv, TypeInv, TypeOK
<1>3. CASE Is(c, "SetValue")
  <2>1. PICK u \in Uses : req[c].key = NsKey(u[1], u[2]) /\ req[c].val \in Owned[u[1]]
    BY <1>3 DEF OwnInv, OwnCall, Is
  <2>2. val' = [val EXCEPT ![req[c].key] = req[c].val]
    BY <1>3 DEF Execute, Put, Is
  <2>3. req[c].key = k => req[c].val \in Reachable(w[1])
    BY <2>1, SharedKey
  <2>4. QED
    BY <1>1, <1>2, <2>1, <2>2, <2>3
<1>4. CASE Is(c, "DeleteKey")
  BY <1>1, <1>2, <1>4 DEF Execute, Remove, Is
<1>5. CASE ~Is(c, "SetValue") /\ ~Is(c, "DeleteKey")
  BY <1>1, <1>5 DEF Execute, store
<1>6. QED
  BY <1>3, <1>4, <1>5

\* What GetValue answers under a namespace is within its reach.
LEMMA OwnAnswer ==
  ASSUME CoreTypeInv, OwnInv, NEW c \in Calls, InProgress(c), Is(c, "GetValue"),
         Reply(c) \/ CommandFails(c)
  PROVE  out'[c].val \in Reachable(app[c]) \union {Missing}
<1>1. /\ val[req[c].key] \in Reachable(app[c]) \union {Missing}
      /\ out[c].val \in Reachable(app[c]) \union {Missing}
  BY DEF OwnInv, OwnCall, InProgress, Is
<1>2. out \in [Calls -> [code : Codes, val : Vals \union {Missing}, num : Nat]]
  BY DEF CoreTypeInv, TypeInv, TypeOK
<1>3. CASE Reply(c)
  BY <1>1, <1>2, <1>3 DEF Reply, FirstReply, SecondReply, Finish, GoOn, Answer, Is
<1>4. CASE CommandFails(c)
  BY <1>1, <1>2, <1>4 DEF CommandFails, Finish, Answer, Is
<1>5. QED
  BY <1>3, <1>4

\* The steps of the service.
LEMMA OwnService ==
  ASSUME CoreTypeInv, OwnInv, NEW c \in Calls, UNCHANGED <<app, ret>>,
         Deliver(c) \/ LoseReply(c) \/ LoseRequest(c) \/ Deadline(c) \/ Stray(c)
  PROVE  OwnInv'
<1>1. /\ at[c] # "idle" /\ req' = req
      /\ Execute(c) \/ UNCHANGED store
      /\ \/ UNCHANGED <<at, out>>
         \/ InProgress(c) /\ (Reply(c) \/ CommandFails(c))
  BY DEF Deliver, LoseReply, LoseRequest, Deadline, Stray, RetryOrFail, InProgress,
         CoreTypeInv, TypeInv, ReqInv
<1>2. \A u \in Uses : val'[NsKey(u[1], u[2])] \in Reachable(u[1]) \union {Missing}
  BY <1>1, OwnStore DEF OwnInv, OwnCall, store
<1>3. CASE UNCHANGED <<at, out>>
  BY <1>1, <1>2, <1>3 DEF OwnInv, OwnCall, Is
<1>4. CASE InProgress(c) /\ (Reply(c) \/ CommandFails(c))
  <2>1. /\ \A d \in Calls : d # c => at'[d] = at[d] /\ out'[d] = out[d]
        /\ at'[c] # "idle"
    BY <1>4, Answered DEF Moves, CoreTypeInv, TypeInv, TypeOK
  <2>2. Is(c, "GetValue") => out'[c].val \in Reachable(app[c]) \union {Missing}
    BY <1>4, OwnAnswer
  <2>3. QED
    BY <1>1, <1>2, <2>1, <2>2 DEF OwnInv, OwnCall, Is
<1>5. QED
  BY <1>1, <1>3, <1>4

\* The steps of the callers: a new request ...
LEMMA OwnAsk ==
  ASSUME CoreTypeInv, OwnInv, NEW c \in Calls, RedisSet(c) \/ RedisGet(c) \/ Plain(c)
  PROVE  OwnInv'
<1>1. PICK r : Ask(c, r) /\ (r.op \in {"SetValue", "GetValue"} =>
        \E u \in Uses : /\ app' = [app EXCEPT ![c] = u[1]]
                        /\ r.key = NsKey(u[1], u[2])
                        /\ r.op = "SetValue" => r.val \in Owned[u[1]])
  <2>1. CASE RedisSet(c)
    <3>1. PICK u \in Uses, ttl \in -1..MaxTTL : \E v \in Owned[u[1]] :
            /\ Ask(c, [op |-> "SetValue", key |-> NsKey(u[1], u[2]), val |-> v, ttl |-> ttl])
            /\ app' = [app EXCEPT ![c] = u[1]]
      BY <2>1 DEF RedisSet
    <3>2. PICK v \in Owned[u[1]] :
            Ask(c, [op |-> "SetValue", key |-> NsKey(u[1], u[2]), val |-> v, ttl |-> ttl])
      BY <3>1
    <3> DEFINE r == [op |-> "SetValue", key |-> NsKey(u[1], u[2]), val |-> v, ttl |-> ttl]
    <3>3. Ask(c, r) /\ r.key = NsKey(u[1], u[2]) /\ r.val = v
      BY <3>2
    <3> HIDE DEF r
    <3>4. QED
      BY <3>1, <3>3
  <2>2. CASE RedisGet(c)
    <3>1. PICK u \in Uses :
            /\ Ask(c, [op |-> "GetValue", key |-> NsKey(u[1], u[2]), val |-> Missing, ttl |-> 0])
            /\ app' = [app EXCEPT ![c] = u[1]]
      BY <2>2 DEF RedisGet
    <3> DEFINE r == [op |-> "GetValue", key |-> NsKey(u[1], u[2]), val |-> Missing, ttl |-> 0]
    <3>2. Ask(c, r) /\ r.key = NsKey(u[1], u[2]) /\ r.op # "SetValue"
      BY <3>1
    <3> HIDE DEF r
    <3>3. QED
      BY <3>1, <3>2
  <2>3. CASE Plain(c)
    BY <2>3 DEF Plain
  <2>4. QED
    BY <2>1, <2>2, <2>3
<1>2. /\ at[c] = "idle" /\ at' = [at EXCEPT ![c] = "first"] /\ req' = [req EXCEPT ![c] = r]
      /\ UNCHANGED <<val, out>>
  BY <1>1 DEF Ask, store
<1>3. ret' = ret /\ \A d \in Calls : d # c => app'[d] = app[d]
  BY DEF RedisSet, RedisGet, Plain, CoreTypeInv
<1>4. OwnCall(c)'
  <2>1. at'[c] = "first" /\ req'[c] = r
    BY <1>2 DEF CoreTypeInv, TypeInv, TypeOK
  <2>2. out[c] = NoAnswer /\ ret[c] = NoResult
    BY <1>2 DEF OwnInv, OwnCall
  <2>3. out'[c].val = Missing /\ ret'[c].val = Missing
    BY <1>2, <1>3, <2>2 DEF NoAnswer, Answer, NoResult, Result
  <2>4. r.op \in {"SetValue", "GetValue"} =>
          \E u \in Uses : /\ app'[c] = u[1] /\ r.key = NsKey(u[1], u[2])
                          /\ r.op = "SetValue" => r.val \in Owned[u[1]]
    BY <1>1 DEF CoreTypeInv
  <2>5. QED
    BY <2>1, <2>3, <2>4 DEF OwnCall, Is
<1>5. ASSUME NEW d \in Calls, d # c PROVE OwnCall(d)'
  <2>1. at'[d] = at[d] /\ req'[d] = req[d] /\ app'[d] = app[d]
    BY <1>2, <1>3, <1>5 DEF CoreTypeInv, TypeInv, TypeOK
  <2>2. QED
    BY <1>2, <1>3, <2>1 DEF OwnInv, OwnCall, Is
<1>6. QED
  BY <1>2, <1>4, <1>5 DEF OwnInv

\* ... and a result.
LEMMA OwnResult ==
  ASSUME CoreTypeInv, OwnInv, NEW c \in Calls, Return(c) \/ Broken(c)
  PROVE  OwnInv'
<1>1. UNCHANGED <<val, at, req, out, app>> /\ at[c] # "idle"
  BY Returned DEF vars, Waiting
<1>2. PICK v \in {out[c].val, Miss}, err \in BOOLEAN, text \in Texts :
        ret' = [ret EXCEPT ![c] = Result(v, err, text)]
  BY Returned
<1>3. /\ \A d \in Calls : d # c => ret'[d] = ret[d]
      /\ ret'[c].val \in {out[c].val, Miss}
  BY <1>2 DEF CoreTypeInv, Result
<1>4. OwnCall(c)'
  <2>1. OwnCall(c)
    BY DEF OwnInv
  <2>2. UNCHANGED <<at[c], req[c], out[c], app[c]>>
    BY <1>1
  <2>3. QED
    BY <1>1, <1>3, <2>1, <2>2 DEF OwnCall, Is
<1>5. ASSUME NEW d \in Calls, d # c PROVE OwnCall(d)'
  BY <1>1, <1>3, <1>5 DEF OwnInv, OwnCall, Is
<1>6. QED
  BY <1>1, <1>4, <1>5 DEF OwnInv

LEMMA OwnInvariance == CoreSpec => []OwnInv
<1>1. CoreInit => OwnInv
  BY Stored DEF CoreInit, Init, OwnInv, OwnCall, NoAnswer, NoResult
<1>2. CoreTypeInv /\ OwnInv /\ [CoreNext]_coreVars => OwnInv'
  <2> SUFFICES ASSUME CoreTypeInv, OwnInv, [CoreNext]_coreVars PROVE OwnInv'
    OBVIOUS
  <2>1. CASE Tick /\ UNCHANGED <<app, ret>>
    <3>1. /\ UNCHANGED <<at, req, out>>
          /\ \A k \in Keys : val'[k] \in {val[k], Missing}
      BY <2>1 DEF Tick
    <3>2. \A u \in Uses : val'[NsKey(u[1], u[2])] \in Reachable(u[1]) \union {Missing}
      BY <3>1, KeysAssumption DEF OwnInv
    <3>3. QED
      BY <2>1, <3>1, <3>2 DEF OwnInv, OwnCall, Is
  <2>2. CASE UNCHANGED <<vars, app, ret>>
    BY <2>2 DEF vars, OwnInv, OwnCall, Is
  <2>3. QED
    BY <2>1, <2>2, OwnAsk, OwnResult, OwnService DEF CoreNext, Quiet, coreVars
<1>3. QED
  BY <1>1, <1>2, CoreTypeInvariance, PTL DEF CoreSpec

\* An application reads what it stored itself, or what one stored whose namespace is
\* nested with its own.
THEOREM IsolatedHolds == CoreSpec => []Isolated
<1>1. OwnInv => Isolated
  BY DEF OwnInv, OwnCall, Isolated, Is, NoResult, Result, NoRequest
<1>2. QED
  BY <1>1, OwnInvariance, PTL

-----------------------------------------------------------------------------

\* The reasons for an empty string, for one call.
MissReason(c) ==
  \/ \E p \in seen[c] : p[1] = Missing
  \/ c \in faulty
  \/ ret[c].text = "404 (Not Found)"
MissInv == \A c \in Calls :
  IF at[c] = "idle" THEN ret[c] = NoResult
  ELSE Is(c, "GetValue") /\ ret[c].val = Miss /\ ~ret[c].err => MissReason(c)

\* What a call has seen, and what it has lost, it keeps until it is over.
LEMMA Remembered ==
  ASSUME TypeInv, NEW c \in Calls, NEW d \in Calls,
         Deliver(c) \/ LoseReply(c) \/ LoseRequest(c) \/ Deadline(c) \/ Stray(c) \/ Tick
  PROVE  /\ seen[d] \subseteq seen'[d] /\ (d \in faulty => d \in faulty') /\ req' = req
         /\ at[d] # "idle" => at'[d] # "idle"
         /\ at[d] = "idle" => at'[d] = "idle"
<1>1. Witness \/ seen' = seen
  BY DEF Deliver, LoseReply, LoseRequest, Deadline, Stray, Tick, Execute
<1>2. seen[d] \subseteq seen'[d]
  BY <1>1 DEF Witness, TypeInv, TypeOK
<1>3. at' = at \/ (InProgress(c) /\ Moves(c))
  BY Answered DEF Deliver, LoseReply, LoseRequest, Deadline, Stray, Tick, RetryOrFail
<1>4. (d \in faulty => d \in faulty') /\ req' = req
  BY DEF Deliver, LoseReply, LoseRequest, Deadline, Stray, Tick, RetryOrFail
<1>5. (at[d] # "idle" => at'[d] # "idle") /\ (at[d] = "idle" => at'[d] = "idle")
  BY <1>3 DEF Moves, InProgress, TypeInv, TypeOK
<1>6. QED
  BY <1>2, <1>4, <1>5

\* A result is empty for a reason.
LEMMA MissResult ==
  ASSUME CoreTypeInv, MissInv, NEW c \in Calls, CallInv(c), Return(c) \/ Broken(c)
  PROVE  MissInv'
<1>1. UNCHANGED <<at, req, seen, faulty>> /\ at[c] # "idle"
  BY Returned DEF vars, Waiting
<1>2. PICK v \in {out[c].val, Miss}, err \in BOOLEAN, text \in Texts :
        /\ ret' = [ret EXCEPT ![c] = Result(v, err, text)]
        /\ ~err /\ v = Miss =>
             \/ Is(c, "GetValue") /\ text = "404 (Not Found)"
             \/ Is(c, "GetValue") /\ at[c] = "done" /\ out[c].code = "notfound"
             \/ out[c].val = Miss
  BY Returned
<1>3. /\ ret'[c] = Result(v, err, text)
      /\ \A d \in Calls : d # c => ret'[d] = ret[d]
  BY <1>2 DEF CoreTypeInv
<1>4. out[c].val # Miss
  BY MissAssumption DEF CoreTypeInv, TypeInv, TypeOK, Missing, Miss
<1>5. ret'[c].val = Miss /\ ~ret'[c].err => MissReason(c)'
  <2>1. ret'[c].val = v /\ ret'[c].err = err /\ ret'[c].text = text
    BY <1>3 DEF Result
  <2>2. Is(c, "GetValue") /\ at[c] = "done" /\ out[c].code = "notfound" =>
          (\E p \in seen[c] : p[1] = Missing) \/ c \in faulty
    BY DEF CallInv, NotFoundTold, Done
  <2>3. QED
    BY <1>1, <1>2, <1>4, <2>1, <2>2 DEF MissReason
<1>6. ASSUME NEW d \in Calls, d # c, at[d] # "idle", Is(d, "GetValue")', ret'[d].val = Miss,
             ~ret'[d].err
      PROVE  MissReason(d)'
  BY <1>1, <1>3, <1>6 DEF MissInv, MissReason, Is
<1>7. QED
  BY <1>1, <1>3, <1>5, <1>6 DEF MissInv

LEMMA MissInvariance == CoreSpec => []MissInv
<1>1. CoreInit => MissInv
  BY DEF CoreInit, Init, MissInv
<1>2. CoreTypeInv /\ (\A c \in Calls : CallInv(c)) /\ MissInv /\ [CoreNext]_coreVars => MissInv'
  <2> SUFFICES ASSUME CoreTypeInv, \A c \in Calls : CallInv(c), MissInv, [CoreNext]_coreVars
               PROVE  MissInv'
    OBVIOUS
  <2>1. ASSUME NEW c \in Calls, RedisSet(c) \/ RedisGet(c) \/ Plain(c) PROVE MissInv'
    <3>1. PICK r : Ask(c, r)
      BY <2>1 DEF RedisSet, RedisGet, Plain
    <3>2. ret' = ret /\ faulty' = faulty
      BY <2>1, <3>1 DEF RedisSet, RedisGet, Plain, Ask
    <3>3. /\ at[c] = "idle" /\ at'[c] = "first"
          /\ \A d \in Calls : d # c =>
               at'[d] = at[d] /\ req'[d] = req[d] /\ seen'[d] = seen[d]
      BY <3>1 DEF Ask, CoreTypeInv, TypeInv, TypeOK
    <3>4. ret[c].val # Miss
      <4>1. ret[c] = NoResult
        BY <3>3 DEF MissInv
      <4>2. QED
        BY <4>1 DEF NoResult, Result, Missing, Miss
    <3>5. QED
      BY <3>2, <3>3, <3>4 DEF MissInv, MissReason, Is
  <2>2. ASSUME NEW c \in Calls, UNCHANGED ret,
               Deliver(c) \/ LoseReply(c) \/ LoseRequest(c) \/ Deadline(c) \/ Stray(c) \/ Tick
        PROVE  MissInv'
    <3> SUFFICES ASSUME NEW d \in Calls
                 PROVE  IF at'[d] = "idle" THEN ret'[d] = NoResult
                        ELSE Is(d, "GetValue")' /\ ret'[d].val = Miss /\ ~ret'[d].err
                             => MissReason(d)'
      BY DEF MissInv
    <3>1. /\ seen[d] \subseteq seen'[d] /\ (d \in faulty => d \in faulty') /\ req' = req
          /\ at[d] # "idle" => at'[d] # "idle"
          /\ at[d] = "idle" => at'[d] = "idle"
      BY <2>2, Remembered DEF CoreTypeInv
    <3>2. QED
      BY <2>2, <3>1 DEF MissInv, MissReason, Is
  <2>3. CASE Tick /\ UNCHANGED ret
    <3>1. CASE Calls = {}
      BY <3>1 DEF MissInv
    <3>2. CASE Calls # {}
      BY <2>2, <2>3, <3>2
    <3>3. QED
      BY <3>1, <3>2
  <2>4. CASE UNCHANGED <<vars, app, ret>>
    BY <2>4 DEF vars, MissInv, MissReason, Is
  <2>5. QED
    BY <2>1, <2>2, <2>3, <2>4, MissResult DEF CoreNext, Quiet, coreVars
<1>3. CoreSpec => [](\A c \in Calls : CallInv(c))
  BY CoreImplementsRedis, CallInvariance, PTL
<1>4. QED
  BY <1>1, <1>2, <1>3, CoreTypeInvariance, PTL DEF CoreSpec

\* RedisGet's empty string without an error has its reasons.
THEOREM MissExplainedHolds == CoreSpec => []MissExplained
<1>1. MissInv => MissExplained
  <2> SUFFICES ASSUME MissInv, NEW c \in Calls, Is(c, "GetValue"), ret[c].val = Miss, ~ret[c].err
               PROVE  MissReason(c)
    BY DEF MissExplained, MissReason
  <2>1. NoResult.val # Miss
    BY DEF NoResult, Result, Missing, Miss
  <2>2. QED
    BY <2>1 DEF MissInv
<1>2. QED
  BY <1>1, MissInvariance, PTL
=============================================================================
