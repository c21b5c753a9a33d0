----------------------------- MODULE RedisProofs -----------------------------
(***************************************************************************)
(* Redis.tla for any finite sets of calls and keys, any expiries and any   *)
(* number of attempts: what the answers of SetValue, GetValue, DeleteKey   *)
(* and Info say about the store, with lost, repeated and stray commands.   *)
(***************************************************************************)
EXTENDS Redis, FiniteSetTheorems, TLAPS

\* What the types need: a call that has begun has a request, only two methods send a
\* second command, and only a call that has begun leaves a command on its way.
ReqInv ==
  \A c \in Calls :
    /\ at[c] # "idle" => req[c] \in Requests
    /\ at[c] = "second" => req[c].op \in {"GetValue", "Info"}
    /\ c \in stray => at[c] # "idle"

TypeInv == TypeOK /\ ReqInv

LEMMA RequestType ==
  ASSUME NEW r \in Requests
  PROVE  /\ r.op \in Methods /\ r.key \in Keys
         /\ r.op = "SetValue" => r.val \in Vals /\ r.ttl \in -1..MaxTTL
  BY OpsAssumption DEF Requests

LEMMA ViewType ==
  ASSUME NEW r \in Requests, NEW v \in [Keys -> Vals \union {Missing}],
         NEW l \in [Keys -> 0..MaxTTL]
  PROVE  View(r, v, l) \in (Vals \union {Missing}) \X Nat
<1>1. Cardinality({k \in Keys : v[k] # Missing}) \in Nat
  BY FiniteAssumption, FS_Subset, FS_CardinalityType
<1>2. l[r.key] \in Nat /\ v[r.key] \in Vals \union {Missing}
  BY RequestType, BoundsAssumption
<1>3. QED
  BY <1>1, <1>2 DEF View

-----------------------------------------------------------------------------

LEMMA WitnessType ==
  ASSUME TypeInv, Witness, val' \in [Keys -> Vals \union {Missing}],
         left' \in [Keys -> 0..MaxTTL]
  PROVE  seen' \in [Calls -> SUBSET ((Vals \union {Missing}) \X Nat)]
<1>1. ASSUME NEW d \in Calls, InProgress(d)
      PROVE  View(req[d], val', left') \in (Vals \union {Missing}) \X Nat
  BY <1>1, ViewType DEF TypeInv, ReqInv, InProgress
<1>2. QED
  BY <1>1 DEF Witness, TypeInv, TypeOK

\* 1 for a key that is there.
Present(v, k) == IF v[k] = Missing THEN 0 ELSE 1

\* A command leaves the store as typed, shows it to every call in progress, and a
\* key that comes into being by it is counted.
LEMMA Executed ==
  ASSUME TypeInv, NEW c \in Calls, at[c] # "idle", Execute(c)
  PROVE  /\ val' \in [Keys -> Vals \union {Missing}] /\ left' \in [Keys -> 0..MaxTTL]
         /\ seen' \in [Calls -> SUBSET ((Vals \union {Missing}) \X Nat)]
         /\ applied' \in [Calls -> Nat] /\ made' \in [Keys -> Nat]
         /\ Witness
         /\ \A d \in Calls : applied[d] <= applied'[d]
         /\ Is(c, "SetValue") =>
              /\ View(req[c], val', left') = <<req[c].val, Expiry(req[c].ttl)>>
              /\ applied'[c] > 0
         /\ \A k \in Keys : Present(val', k) + made[k] <= Present(val, k) + made'[k]
         /\ Is(c, "DeleteKey") => val'[req[c].key] = Missing /\ made' = made
<1>1. req[c] \in Requests /\ Witness
  BY DEF TypeInv, ReqInv, Execute
<1>2. CASE Is(c, "SetValue")
  <2>1. Put(c) /\ req[c].val \in Vals /\ req[c].val # Missing /\ req[c].key \in Keys
    BY <1>1, <1>2, RequestType, ValsAssumption DEF Execute, Is
  <2>2. Expiry(req[c].ttl) \in 0..MaxTTL
    BY <1>1, <1>2, RequestType, BoundsAssumption DEF Expiry, Is
  <2>3. val' \in [Keys -> Vals \union {Missing}] /\ left' \in [Keys -> 0..MaxTTL]
    BY <2>1, <2>2 DEF Put, TypeInv, TypeOK
  <2>4. /\ applied' \in [Calls -> Nat] /\ made' \in [Keys -> Nat] /\ applied'[c] > 0
        /\ \A d \in Calls : applied[d] <= applied'[d]
    BY <2>1 DEF Put, TypeInv, TypeOK
  <2>5. View(req[c], val', left') = <<req[c].val, Expiry(req[c].ttl)>>
    BY <1>2, <2>1, <2>2 DEF Put, View, Is, TypeInv, TypeOK
  <2>6. \A k \in Keys : Present(val', k) + made[k] <= Present(val, k) + made'[k]
    BY <2>1 DEF Put, Present, TypeInv, TypeOK
  <2>7. QED
    BY <1>1, <1>2, <2>3, <2>4, <2>5, <2>6, WitnessType DEF Is
<1>3. CASE Is(c, "DeleteKey")
  <2>1. Remove(c) /\ req[c].key \in Keys
    BY <1>1, <1>3, RequestType DEF Execute, Is
  <2>2. val' \in [Keys -> Vals \union {Missing}] /\ left' \in [Keys -> 0..MaxTTL]
    BY <2>1, BoundsAssumption DEF Remove, TypeInv, TypeOK
  <2>3. \A k \in Keys : Present(val', k) + made[k] <= Present(val, k) + made'[k]
    BY <2>1 DEF Remove, Present, TypeInv, TypeOK
  <2>4. seen' \in [Calls -> SUBSET ((Vals \union {Missing}) \X Nat)]
    BY <1>1, <2>2, WitnessType
  <2>5. val'[req[c].key] = Missing /\ UNCHANGED <<made, applied>>
    BY <2>1 DEF Remove, TypeInv, TypeOK
  <2>6. QED
    BY <1>1, <1>3, <2>2, <2>3, <2>4, <2>5 DEF Is, TypeInv, TypeOK
<1>4. CASE ~Is(c, "SetValue") /\ ~Is(c, "DeleteKey")
  <2>1. UNCHANGED <<val, left, made, applied>>
    BY <1>4 DEF Execute, store
  <2>2. val' \in [Keys -> Vals \union {Missing}] /\ left' \in [Keys -> 0..MaxTTL]
    BY <2>1 DEF TypeInv, TypeOK
  <2>3. \A k \in Keys : Present(val', k) + made[k] <= Present(val, k) + made'[k]
    BY <2>1 DEF Present, TypeInv, TypeOK
  <2>4. QED
    BY <1>1, <1>4, <2>1, <2>2, <2>3, WitnessType DEF TypeInv, TypeOK
<1>5. QED
  BY <1>2, <1>3, <1>4

\* What a method makes of a reply, or of a command that has failed.
Moves(c) ==
  /\ tries' = [tries EXCEPT ![c] = 0]
  /\ \E a \in [code : Codes, val : Vals \union {Missing}, num : Nat] :
       out' = [out EXCEPT ![c] = a]
  /\ \/ at' = [at EXCEPT ![c] = "done"]
     \/ at' = [at EXCEPT ![c] = "second"] /\ req[c].op \in {"GetValue", "Info"}

LEMMA Answered ==
  ASSUME TypeInv, NEW c \in Calls, InProgress(c), Reply(c) \/ CommandFails(c)
  PROVE  Moves(c)
<1>1. req[c] \in Requests /\ req[c].key \in Keys
  BY RequestType DEF TypeInv, ReqInv, InProgress
<1>2. \A a \in [code : Codes, val : Vals \union {Missing}, num : Nat] :
        Finish(c, a) => Moves(c)
  BY DEF Finish, Moves
<1>3. \A v \in Vals \union {Missing} :
        GoOn(c, v) /\ req[c].op \in {"GetValue", "Info"} => Moves(c)
  BY DEF GoOn, Moves, Answer, Codes
<1>4. ASSUME NEW code \in Codes, NEW v \in Vals \union {Missing}, NEW n \in Nat,
             Finish(c, Answer(code, v, n))
      PROVE  Moves(c)
  BY <1>4, <1>2 DEF Answer
<1>5. val[req[c].key] \in Vals \union {Missing} /\ out[c].val \in Vals \union {Missing}
  BY <1>1 DEF TypeInv, TypeOK
<1>6. View(req[c], val, left)[2] \in Nat
  BY <1>1, ViewType DEF TypeInv, TypeOK
<1>7. CASE Reply(c)
  <2>1. CASE at[c] = "first" /\ FirstReply(c)
    BY <2>1, <1>3, <1>4, <1>5 DEF FirstReply, Is, Codes
  <2>2. CASE at[c] = "second" /\ SecondReply(c)
    BY <2>2, <1>4, <1>5, <1>6 DEF SecondReply, Codes
  <2>3. QED
    BY <1>7, <2>1, <2>2 DEF Reply
<1>8. CASE CommandFails(c)
  BY <1>8, <1>4, <1>5 DEF CommandFails, Codes
<1>9. QED
  BY <1>7, <1>8

LEMMA Tried ==
  ASSUME TypeInv, NEW c \in Calls, InProgress(c), RetryOrFail(c)
  PROVE  /\ faulty' = faulty \union {c}
         /\ \/ Moves(c) /\ CommandFails(c)
            \/ /\ UNCHANGED <<at, out>>
               /\ tries' \in [Calls -> 0..(MaxTries - 1)]
  BY Answered, BoundsAssumption DEF RetryOrFail, TypeInv, TypeOK

LEMMA MovesType ==
  ASSUME TypeInv, NEW c \in Calls, InProgress(c), Moves(c)
  PROVE  /\ at' \in [Calls -> {"idle", "first", "second", "done"}]
         /\ tries' \in [Calls -> 0..(MaxTries - 1)]
         /\ out' \in [Calls -> [code : Codes, val : Vals \union {Missing}, num : Nat]]
         /\ \A d \in Calls : d # c => at'[d] = at[d]
         /\ at'[c] # "idle" /\ (at'[c] = "second" => req[c].op \in {"GetValue", "Info"})
  BY BoundsAssumption DEF Moves, TypeInv, TypeOK

-----------------------------------------------------------------------------

\* A second that passes.
LEMMA TickStep ==
  ASSUME TypeInv, Tick
  PROVE  /\ val' \in [Keys -> Vals \union {Missing}] /\ left' \in [Keys -> 0..MaxTTL]
         /\ seen' \in [Calls -> SUBSET ((Vals \union {Missing}) \X Nat)]
         /\ \A k \in Keys : Present(val', k) <= Present(val, k)
<1>1. val' \in [Keys -> Vals \union {Missing}] /\ left' \in [Keys -> 0..MaxTTL]
  BY BoundsAssumption DEF Tick, TypeInv, TypeOK
<1>2. \A k \in Keys : Present(val', k) <= Present(val, k)
  BY DEF Tick, Present, TypeInv, TypeOK
<1>3. QED
  BY <1>1, <1>2, WitnessType DEF Tick

\* The steps by which a call that is in progress changes.
LEMMA AskType ==
  ASSUME TypeInv, NEW c \in Calls, NEW r \in Requests, Ask(c, r)
  PROVE  TypeInv'
<1>1. View(r, val, left) \in (Vals \union {Missing}) \X Nat
  BY ViewType DEF TypeInv, TypeOK
<1>2. QED
  BY <1>1 DEF Ask, TypeInv, TypeOK, ReqInv, store

LEMMA CallType ==
  ASSUME TypeInv, NEW c \in Calls,
         Deliver(c) \/ LoseReply(c) \/ LoseRequest(c) \/ Deadline(c) \/ Stray(c)
  PROVE  TypeInv'
<1>1. CASE Deliver(c)
  <2>1. Moves(c)
    BY <1>1, Answered DEF Deliver
  <2>2. QED
    BY <1>1, <2>1, MovesType, Executed
       DEF Deliver, InProgress, TypeInv, TypeOK, ReqInv
<1>2. CASE LoseReply(c)
  <2>1. InProgress(c) /\ Execute(c) /\ RetryOrFail(c) /\ UNCHANGED <<req, stray>>
    BY <1>2 DEF LoseReply
  <2>2. QED
    BY <2>1, Tried, MovesType, Executed DEF InProgress, TypeInv, TypeOK, ReqInv
<1>3. CASE LoseRequest(c)
  <2>1. /\ InProgress(c) /\ RetryOrFail(c) /\ UNCHANGED <<store, req, seen, applied, made>>
        /\ stray' \in {stray, stray \union {c}}
    BY <1>3 DEF LoseRequest
  <2>2. QED
    BY <2>1, Tried, MovesType DEF InProgress, TypeInv, TypeOK, ReqInv, store
<1>4. CASE Deadline(c)
  <2>1. /\ InProgress(c) /\ CommandFails(c) /\ UNCHANGED <<store, req, seen, applied, made>>
        /\ stray' \in {stray, stray \union {c}} /\ faulty' = faulty \union {c}
    BY <1>4 DEF Deadline
  <2>2. QED
    BY <2>1, Answered, MovesType DEF InProgress, TypeInv, TypeOK, ReqInv, store
<1>5. CASE Stray(c)
  <2>1. /\ at[c] # "idle" /\ stray' = stray \ {c} /\ UNCHANGED <<req, at, tries, out, faulty>>
        /\ Execute(c) \/ UNCHANGED <<store, seen, applied, made>>
    BY <1>5 DEF Stray, TypeInv, ReqInv
  <2>2. QED
    BY <2>1, Executed DEF TypeInv, TypeOK, ReqInv, store
<1>6. QED
  BY <1>1, <1>2, <1>3, <1>4, <1>5

LEMMA TypeInvariance == Spec => []TypeInv
<1>1. Init => TypeInv
  BY BoundsAssumption
     DEF Init, TypeInv, TypeOK, ReqInv, NoAnswer, Answer, Codes
<1>2. TypeInv /\ [Next]_vars => TypeInv'
  <2> SUFFICES ASSUME TypeInv, [Next]_vars PROVE TypeInv'
    OBVIOUS
  <2>1. ASSUME NEW c \in Calls, Arrive(c) PROVE TypeInv'
    BY <2>1, AskType DEF Arrive
  <2>2. CASE Tick
    BY <2>2, TickStep DEF Tick, TypeInv, TypeOK, ReqInv
  <2>3. CASE UNCHANGED vars
    BY <2>3 DEF vars, TypeInv, TypeOK, ReqInv
  <2>4. QED
    BY <2>1, <2>2, <2>3, CallType DEF Next, Quiet
<1>3. QED
  BY <1>1, <1>2, PTL DEF Spec

\* The variables of the service and the store hold what they are declared to.
THEOREM TypeCorrect == Spec => []TypeOK
<1>1. TypeInv => TypeOK
  BY DEF TypeInv
<1>2. QED
  BY <1>1, TypeInvariance, PTL

-----------------------------------------------------------------------------

\* The properties, for one call, and what a "key not found" goes back to.
SetReportedBy(c) ==
  Done(c, "SetValue", "ok") =>
    applied[c] > 0 /\ <<req[c].val, Expiry(req[c].ttl)>> \in seen[c]
ReadExplained(c) ==
  Done(c, "GetValue", "ok") \/ Done(c, "Info", "ok") =>
    \/ <<out[c].val, out[c].num>> \in seen[c]
    \/ Cardinality(seen[c]) > 1
    \/ c \in faulty
ValueThere(c) ==
  Done(c, "GetValue", "ok") => \E p \in seen[c] : p[1] = out[c].val /\ p[1] # Missing
NotFoundTold(c) ==
  Done(c, "GetValue", "notfound") => (\E p \in seen[c] : p[1] = Missing) \/ c \in faulty

\* A call in progress has seen the store as it is; one at its second command keeps
\* what it has seen of the value.
CallInv(c) ==
  /\ IsFiniteSet(seen[c])
  /\ InProgress(c) => View(req[c], val, left) \in seen[c]
  /\ at[c] = "second" =>
       IF Is(c, "GetValue") THEN \E p \in seen[c] : p[1] = out[c].val /\ p[1] # Missing
                            ELSE out[c].val = Missing
  /\ SetReportedBy(c) /\ ReadExplained(c) /\ ValueThere(c) /\ NotFoundTold(c)

LEMMA TwoSeen ==
  ASSUME NEW S, IsFiniteSet(S), NEW p \in S, NEW q \in S, p # q
  PROVE  Cardinality(S) > 1
<1>1. Cardinality({p}) = 1 /\ IsFiniteSet({p})
  BY FS_Singleton
<1>2. q \notin {p} /\ {p} \union {q} \subseteq S
  OBVIOUS
<1>3. Cardinality({p} \union {q}) = Cardinality({p}) + 1
  BY <1>1, <1>2, FS_AddElement
<1>4. Cardinality({p} \union {q}) <= Cardinality(S) /\ Cardinality(S) \in Nat
  BY <1>2, FS_Subset, FS_CardinalityType
<1>5. QED
  BY <1>1, <1>3, <1>4

\* What the witness of a step does to what one call has seen.
LEMMA WitnessStep ==
  ASSUME TypeInv, Witness, NEW d \in Calls, IsFiniteSet(seen[d])
  PROVE  /\ IsFiniteSet(seen'[d]) /\ seen[d] \subseteq seen'[d]
         /\ InProgress(d) => View(req[d], val', left') \in seen'[d]
         /\ ~InProgress(d) => seen'[d] = seen[d]
<1>1. IsFiniteSet(seen[d] \union {View(req[d], val', left')})
  BY FS_AddElement
<1>2. QED
  BY <1>1 DEF Witness, TypeInv, TypeOK

\* A step that does not move a call keeps what is known of it.
LEMMA Unmoved ==
  ASSUME TypeInv, NEW d \in Calls, CallInv(d),
         at'[d] = at[d], out'[d] = out[d], req'[d] = req[d],
         applied[d] \in Nat, applied'[d] \in Nat, applied[d] <= applied'[d],
         d \in faulty => d \in faulty',
         Witness \/ UNCHANGED <<store, seen>>
  PROVE  CallInv(d)'
<1>1. /\ IsFiniteSet(seen'[d]) /\ seen[d] \subseteq seen'[d]
      /\ InProgress(d) => View(req[d], val', left') \in seen'[d]
      /\ ~InProgress(d) => seen'[d] = seen[d]
  BY WitnessStep DEF CallInv, store
<1>2. at[d] = "done" => ~InProgress(d)
  BY DEF InProgress
<1>3. SetReportedBy(d)' /\ ReadExplained(d)' /\ ValueThere(d)' /\ NotFoundTold(d)'
  BY <1>1, <1>2
     DEF CallInv, SetReportedBy, ReadExplained, ValueThere, NotFoundTold, Done, Is
<1>4. QED
  BY <1>1, <1>3 DEF CallInv, Is, InProgress

\* The reply to a command of call c.
LEMMA DeliverStep ==
  ASSUME TypeInv, NEW c \in Calls, CallInv(c), Deliver(c)
  PROVE  CallInv(c)'
<1> DEFINE k == req[c].key
<1>1. /\ InProgress(c) /\ Execute(c) /\ Witness /\ Reply(c) /\ req' = req /\ faulty' = faulty
      /\ req[c] \in Requests /\ at[c] \in {"first", "second"}
  BY DEF Deliver, Execute, InProgress, TypeInv, ReqInv
<1>2. /\ IsFiniteSet(seen'[c]) /\ seen[c] \subseteq seen'[c]
      /\ View(req[c], val', left') \in seen'[c]
      /\ View(req[c], val, left) \in seen'[c]
  BY <1>1, WitnessStep DEF CallInv
<1>3. CASE at[c] = "first" /\ ~Is(c, "GetValue") /\ ~Is(c, "Info")
  <2>1. at'[c] = "done"
    BY <1>1, <1>3 DEF Reply, FirstReply, Finish, TypeInv, TypeOK
  <2>2. SetReportedBy(c)'
    BY <1>1, <1>2, Executed DEF SetReportedBy, Done, Is, InProgress
  <2>3. QED
    BY <1>1, <1>2, <1>3, <2>1, <2>2
       DEF CallInv, InProgress, ReadExplained, ValueThere, NotFoundTold, Done, Is
<1>4. CASE at[c] = "first" /\ Is(c, "GetValue") /\ val[k] = Missing
  <2>1. at'[c] = "done" /\ out'[c].code = "notfound"
    BY <1>1, <1>4 DEF Reply, FirstReply, Finish, TypeInv, TypeOK, Answer, Is
  <2>2. View(req[c], val, left)[1] = Missing
    BY <1>4 DEF View, Is
  <2>3. QED
    BY <1>1, <1>2, <1>4, <2>1, <2>2
       DEF CallInv, InProgress, SetReportedBy, ReadExplained, ValueThere, NotFoundTold, Done,
           Is
<1>5. CASE at[c] = "first" /\ Is(c, "GetValue") /\ val[k] # Missing
  <2>1. at'[c] = "second" /\ out'[c].val = val[k]
    BY <1>1, <1>5 DEF Reply, FirstReply, GoOn, TypeInv, TypeOK, Answer, Is
  <2>2. View(req[c], val, left)[1] = val[k]
    BY <1>5 DEF View, Is
  <2>3. QED
    BY <1>1, <1>2, <1>5, <2>1, <2>2
       DEF CallInv, InProgress, SetReportedBy, ReadExplained, ValueThere, NotFoundTold, Done,
           Is
<1>6. CASE at[c] = "first" /\ Is(c, "Info")
  <2>1. at'[c] = "second" /\ out'[c].val = Missing
    BY <1>1, <1>6 DEF Reply, FirstReply, GoOn, TypeInv, TypeOK, Answer, Is
  <2>2. QED
    BY <1>1, <1>2, <1>6, <2>1
       DEF CallInv, InProgress, SetReportedBy, ReadExplained, ValueThere, NotFoundTold, Done,
           Is
<1>7. CASE at[c] = "second"
  <2>1. /\ at'[c] = "done" /\ out'[c].val = out[c].val /\ out'[c].code = "ok"
        /\ out'[c].num = View(req[c], val, left)[2]
    BY <1>1, <1>7 DEF Reply, SecondReply, Finish, TypeInv, TypeOK, Answer
  <2>2. req[c].op \in {"GetValue", "Info"}
    BY <1>7 DEF TypeInv, ReqInv
  <2>3. ReadExplained(c)'
    <3>1. CASE View(req[c], val, left)[1] = out[c].val
      <4>1. View(req[c], val, left) = <<out'[c].val, out'[c].num>>
        BY <2>1, <3>1 DEF View
      <4>2. QED
        BY <1>2, <4>1 DEF ReadExplained
    <3>2. CASE View(req[c], val, left)[1] # out[c].val
      <4>1. \E p \in seen[c] : p[1] = out[c].val
        BY <1>7, <2>2, <3>2 DEF CallInv, View, Is
      <4>2. Cardinality(seen'[c]) > 1
        BY <1>2, <3>2, <4>1, TwoSeen
      <4>3. QED
        BY <4>2 DEF ReadExplained
    <3>3. QED
      BY <3>1, <3>2
  <2>4. QED
    BY <1>1, <1>2, <1>7, <2>1, <2>2, <2>3
       DEF CallInv, InProgress, SetReportedBy, ValueThere, NotFoundTold, Done, Is
<1>8. QED
  BY <1>1, <1>3, <1>4, <1>5, <1>6, <1>7

\* A command of call c has failed for good.
LEMMA FailStep ==
  ASSUME TypeInv, NEW c \in Calls, CallInv(c), InProgress(c), CommandFails(c),
         req' = req, faulty' = faulty \union {c},
         Witness \/ UNCHANGED <<store, seen>>
  PROVE  CallInv(c)'
<1>1. IsFiniteSet(seen'[c]) /\ seen[c] \subseteq seen'[c]
  BY WitnessStep DEF CallInv
<1>2. CASE at[c] = "first"
  <2>1. at'[c] = "done" /\ out'[c].code \in {"notfound", "error"}
    BY <1>2 DEF CommandFails, Finish, Answer, TypeInv, TypeOK
  <2>2. QED
    BY <1>1, <2>1
       DEF CallInv, InProgress, SetReportedBy, ReadExplained, ValueThere, NotFoundTold, Done
<1>3. CASE at[c] = "second"
  <2>1. at'[c] = "done" /\ out'[c].val = out[c].val
    BY <1>3 DEF CommandFails, Finish, Answer, TypeInv, TypeOK
  <2>2. req[c].op \in {"GetValue", "Info"}
    BY <1>3 DEF TypeInv, ReqInv
  <2>3. QED
    BY <1>1, <1>3, <2>1, <2>2
       DEF CallInv, InProgress, SetReportedBy, ReadExplained, ValueThere, NotFoundTold, Done,
           Is
<1>4. QED
  BY <1>2, <1>3 DEF InProgress

\* The steps of call c, and what they do to the others.
LEMMA CallStep ==
  ASSUME TypeInv, TypeInv', \A d \in Calls : CallInv(d), NEW c \in Calls,
         Deliver(c) \/ LoseReply(c) \/ LoseRequest(c) \/ Deadline(c) \/ Stray(c)
  PROVE  \A d \in Calls : CallInv(d)'
<1> SUFFICES ASSUME NEW d \in Calls PROVE CallInv(d)'
  OBVIOUS
<1>1. /\ applied[d] \in Nat /\ applied'[d] \in Nat
      /\ Execute(c) /\ at[c] # "idle" => Witness /\ applied[d] <= applied'[d]
  BY Executed DEF TypeInv, TypeOK
<1>2. CASE Deliver(c)
  <2>1. CASE d = c
    BY <1>2, <2>1, DeliverStep
  <2>2. CASE d # c
    <3>1. Execute(c) /\ Moves(c) /\ InProgress(c) /\ UNCHANGED <<req, faulty>>
      BY <1>2, Answered DEF Deliver
    <3>2. at'[d] = at[d] /\ out'[d] = out[d]
      BY <2>2, <3>1 DEF Moves, TypeInv, TypeOK
    <3>3. QED
      BY <1>1, <3>1, <3>2, Unmoved DEF InProgress
  <2>3. QED
    BY <2>1, <2>2
<1>3. CASE LoseReply(c) \/ LoseRequest(c) \/ Deadline(c)
  <2>1. /\ InProgress(c) /\ req' = req /\ faulty' = faulty \union {c}
        /\ Execute(c) \/ UNCHANGED <<store, seen, applied>>
        /\ CommandFails(c) \/ UNCHANGED <<at, out>>
    BY <1>3 DEF LoseReply, LoseRequest, Deadline, RetryOrFail
  <2>2. (Witness \/ UNCHANGED <<store, seen>>) /\ applied[d] <= applied'[d]
    BY <1>1, <2>1 DEF InProgress
  <2>3. CASE d = c /\ CommandFails(c)
    BY <2>1, <2>2, <2>3, FailStep
  <2>4. CASE d # c \/ UNCHANGED <<at, out>>
    <3>1. at'[d] = at[d] /\ out'[d] = out[d]
      BY <2>1, <2>4, Answered DEF Moves, TypeInv, TypeOK
    <3>2. QED
      BY <1>1, <2>1, <2>2, <3>1, Unmoved
  <2>5. QED
    BY <2>1, <2>3, <2>4
<1>4. CASE Stray(c)
  <2>1. /\ at[c] # "idle" /\ UNCHANGED <<req, at, out, faulty>>
        /\ Execute(c) \/ UNCHANGED <<store, seen, applied>>
    BY <1>4 DEF Stray, TypeInv, ReqInv
  <2>2. QED
    BY <1>1, <2>1, Unmoved
<1>5. QED
  BY <1>2, <1>3, <1>4

LEMMA AskStep ==
  ASSUME TypeInv, NEW c \in Calls, NEW r \in Requests, Ask(c, r),
         NEW d \in Calls, CallInv(d)
  PROVE  CallInv(d)'
<1>1. CASE d = c
  <2>1. /\ req'[c] = r /\ seen'[c] = {View(r, val, left)} /\ at'[c] = "first"
        /\ val' = val /\ left' = left
    BY DEF Ask, TypeInv, TypeOK, store
  <2>2. IsFiniteSet(seen'[c])
    BY <2>1, FS_Singleton
  <2>3. QED
    BY <1>1, <2>1, <2>2
       DEF CallInv, InProgress, SetReportedBy, ReadExplained, ValueThere, NotFoundTold, Done
<1>2. CASE d # c
  <2>1. /\ req'[d] = req[d] /\ seen'[d] = seen[d] /\ at'[d] = at[d]
        /\ val' = val /\ left' = left /\ UNCHANGED <<out, faulty, applied>>
    BY <1>2 DEF Ask, TypeInv, TypeOK, store
  <2>2. QED
    BY <2>1
       DEF CallInv, InProgress, SetReportedBy, ReadExplained, ValueThere, NotFoundTold, Done, Is
<1>3. QED
  BY <1>1, <1>2

\* What is known of the calls stays true.
LEMMA CallInvariance == Spec => [](\A c \in Calls : CallInv(c))
<1> DEFINE AllInv == \A c \in Calls : CallInv(c)
<1>1. Init => AllInv
  BY FS_EmptySet
     DEF Init, CallInv, InProgress, SetReportedBy, ReadExplained, ValueThere, NotFoundTold, Done
<1>2. TypeInv /\ TypeInv' /\ AllInv /\ [Next]_vars => AllInv'
  <2> SUFFICES ASSUME TypeInv, TypeInv', AllInv, [Next]_vars PROVE AllInv'
    OBVIOUS
  <2>1. ASSUME NEW c \in Calls, Arrive(c) PROVE AllInv'
    BY <2>1, AskStep DEF Arrive
  <2>2. CASE Tick
    <3>1. Witness /\ UNCHANGED <<at, out, req, faulty, applied>>
      BY <2>2 DEF Tick
    <3>2. QED
      BY <3>1, Unmoved DEF TypeInv, TypeOK
  <2>3. CASE UNCHANGED vars
    BY <2>3
       DEF vars, CallInv, InProgress, SetReportedBy, ReadExplained, ValueThere, NotFoundTold, Done, Is
  <2>4. QED
    BY <2>1, <2>2, <2>3, CallStep DEF Next, Quiet
<1>3. QED
  BY <1>1, <1>2, TypeInvariance, PTL DEF Spec

\* An acknowledged SetValue happened, with its value and its expiry.
THEOREM SetReportedHolds == Spec => []SetReported
<1>1. (\A c \in Calls : CallInv(c)) => SetReported
  BY DEF CallInv, SetReportedBy, SetReported
<1>2. QED
  BY <1>1, CallInvariance, PTL

\* What GetValue and Info answer was true at one moment of the call, unless the
\* store changed under them or a command failed.
THEOREM ReadsExplainedHolds == Spec => []ReadsExplained
<1>1. (\A c \in Calls : CallInv(c)) => ReadsExplained
  BY DEF CallInv, ReadExplained, ReadsExplained
<1>2. QED
  BY <1>1, CallInvariance, PTL

\* The value GetValue answers was there at some moment of the call.
THEOREM ValueWasThereHolds == Spec => []ValueWasThere
<1>1. (\A c \in Calls : CallInv(c)) => ValueWasThere
  BY DEF CallInv, ValueThere, ValueWasThere
<1>2. QED
  BY <1>1, CallInvariance, PTL

-----------------------------------------------------------------------------

\* The calls that were told they deleted key k; together with the key itself, if it
\* is there, they are no more than its creations.
Deleted(k) ==
  {c \in Calls : Done(c, "DeleteKey", "ok") /\ req[c].key = k /\ out[c].num = 1}
Balance == \A k \in Keys : Cardinality(Deleted(k)) + Present(val, k) <= made[k]

LEMMA DeletedSize ==
  ASSUME NEW k
  PROVE  /\ IsFiniteSet(Deleted(k)) /\ Cardinality(Deleted(k)) \in Nat
         /\ IsFiniteSet(Deleted(k)') /\ Cardinality(Deleted(k)') \in Nat
         /\ Deleted(k)' \subseteq Deleted(k) =>
              Cardinality(Deleted(k)') <= Cardinality(Deleted(k))
         /\ \A c : Deleted(k)' \subseteq Deleted(k) \union {c} =>
              Cardinality(Deleted(k)') <= Cardinality(Deleted(k)) + 1
<1>1. IsFiniteSet(Deleted(k)) /\ Cardinality(Deleted(k)) \in Nat
  BY FiniteAssumption, FS_Subset, FS_CardinalityType DEF Deleted
<1>2. IsFiniteSet(Deleted(k)') /\ Cardinality(Deleted(k)') \in Nat
  BY FiniteAssumption, FS_Subset, FS_CardinalityType DEF Deleted
<1>3. ASSUME NEW c, Deleted(k)' \subseteq Deleted(k) \union {c}
      PROVE  Cardinality(Deleted(k)') <= Cardinality(Deleted(k)) + 1
  <2>1. /\ IsFiniteSet(Deleted(k) \union {c})
        /\ Cardinality(Deleted(k) \union {c}) <= Cardinality(Deleted(k)) + 1
    BY <1>1, FS_AddElement
  <2>2. /\ Cardinality(Deleted(k)') <= Cardinality(Deleted(k) \union {c})
        /\ Cardinality(Deleted(k) \union {c}) \in Nat
    BY <1>3, <2>1, FS_Subset, FS_CardinalityType
  <2>3. QED
    BY <1>1, <1>2, <2>1, <2>2
<1>4. QED
  BY <1>1, <1>2, <1>3, FS_Subset

\* The reply to DeleteKey is the only step that adds to the deletions, and it takes
\* the key away.
LEMMA DeleteStep ==
  ASSUME TypeInv, NEW c \in Calls, Deliver(c), NEW k \in Keys
  PROVE  \/ Deleted(k)' \subseteq Deleted(k)
         \/ /\ Deleted(k)' \subseteq Deleted(k) \union {c}
            /\ Present(val, k) = 1 /\ Present(val', k) = 0 /\ made' = made
<1>1. InProgress(c) /\ Execute(c) /\ Reply(c) /\ req' = req /\ Moves(c) /\ at[c] # "idle"
  BY Answered DEF Deliver, InProgress
<1>2. \A d \in Calls : d # c => at'[d] = at[d] /\ out'[d] = out[d]
  BY <1>1 DEF Moves, TypeInv, TypeOK
<1>3. Deleted(k)' \subseteq Deleted(k) \union {c}
  BY <1>1, <1>2 DEF Deleted, Done, Is
<1>4. CASE c \in Deleted(k)'
  <2>1. Is(c, "DeleteKey") /\ req[c].key = k /\ out'[c].num = 1 /\ at[c] = "first"
    BY <1>1, <1>4 DEF Deleted, Done, Is, InProgress, TypeInv, ReqInv
  <2>2. val[k] # Missing
    BY <1>1, <2>1 DEF Reply, FirstReply, Finish, Answer, Is, TypeInv, TypeOK
  <2>3. QED
    BY <1>1, <1>3, <2>1, <2>2, Executed DEF Present
<1>5. QED
  BY <1>3, <1>4

\* No other step adds to them.
LEMMA OtherSteps ==
  ASSUME TypeInv, NEW c \in Calls, NEW k \in Keys,
         Arrive(c) \/ LoseReply(c) \/ LoseRequest(c) \/ Deadline(c) \/ Stray(c)
  PROVE  Deleted(k)' \subseteq Deleted(k)
<1>1. CASE Arrive(c)
  <2>1. /\ at'[c] = "first" /\ out' = out
        /\ \A d \in Calls : d # c => at'[d] = at[d] /\ req'[d] = req[d]
    BY <1>1 DEF Arrive, Ask, TypeInv, TypeOK
  <2>2. QED
    BY <2>1 DEF Deleted, Done, Is
<1>2. CASE LoseReply(c) \/ LoseRequest(c) \/ Deadline(c)
  <2>1. /\ InProgress(c) /\ req' = req
        /\ CommandFails(c) \/ UNCHANGED <<at, out>>
    BY <1>2 DEF LoseReply, LoseRequest, Deadline, RetryOrFail
  <2>2. CASE CommandFails(c)
    <3>1. \A d \in Calls : d # c => at'[d] = at[d] /\ out'[d] = out[d]
      BY <2>1, <2>2, Answered DEF Moves, TypeInv, TypeOK
    <3>2. ~Is(c, "DeleteKey") \/ out'[c].code # "ok"
      BY <2>2 DEF CommandFails, Finish, Answer, Is, TypeInv, TypeOK, ReqInv
    <3>3. QED
      BY <2>1, <3>1, <3>2 DEF Deleted, Done, Is
  <2>3. QED
    BY <2>1, <2>2 DEF Deleted, Done, Is
<1>3. CASE Stray(c)
  BY <1>3 DEF Stray, Deleted, Done, Is
<1>4. QED
  BY <1>1, <1>2, <1>3

\* No step but DeleteKey's own makes a key that is there go uncounted.
LEMMA MadeStep ==
  ASSUME TypeInv, NEW k \in Keys,
         Tick \/ \E c \in Calls : \/ Arrive(c) \/ Deliver(c) \/ LoseReply(c)
                                 \/ LoseRequest(c) \/ Deadline(c) \/ Stray(c)
  PROVE  Present(val', k) + made[k] <= Present(val, k) + made'[k]
<1>1. CASE UNCHANGED <<val, made>>
  BY <1>1 DEF Present, TypeInv, TypeOK
<1>2. ASSUME NEW c \in Calls, at[c] # "idle", Execute(c)
      PROVE  Present(val', k) + made[k] <= Present(val, k) + made'[k]
  BY <1>2, Executed
<1>3. CASE Tick
  BY <1>3, TickStep DEF Tick, Present, TypeInv, TypeOK
<1>4. ASSUME NEW c \in Calls,
             Arrive(c) \/ Deliver(c) \/ LoseReply(c) \/ LoseRequest(c) \/ Deadline(c) \/ Stray(c)
      PROVE  Present(val', k) + made[k] <= Present(val, k) + made'[k]
  BY <1>1, <1>2, <1>4
     DEF Arrive, Ask, Deliver, LoseReply, LoseRequest, Deadline, Stray, InProgress, store,
         TypeInv, ReqInv
<1>5. QED
  BY <1>3, <1>4

\* No deletion is claimed twice.
THEOREM DeletionsMatchCreationsHolds == Spec => []DeletionsMatchCreations
<1>1. Init => Balance
  <2> SUFFICES ASSUME Init, NEW k \in Keys
               PROVE  Cardinality(Deleted(k)) + Present(val, k) <= made[k]
    BY DEF Balance
  <2>1. Deleted(k) = {}
    BY DEF Init, Deleted, Done
  <2>2. QED
    BY <2>1, FS_EmptySet DEF Init, Present
<1>2. TypeInv /\ TypeInv' /\ Balance /\ [Next]_vars => Balance'
  <2> SUFFICES ASSUME TypeInv, TypeInv', Balance, [Next]_vars, NEW k \in Keys
               PROVE  Cardinality(Deleted(k)') + Present(val', k) <= made'[k]
    BY DEF Balance
  <2>1. /\ Cardinality(Deleted(k)) + Present(val, k) <= made[k]
        /\ made[k] \in Nat /\ made'[k] \in Nat
        /\ Present(val, k) \in 0..1 /\ Present(val', k) \in 0..1
    BY DEF Balance, TypeInv, TypeOK, Present
  <2>2. ASSUME Deleted(k)' \subseteq Deleted(k),
               Present(val', k) + made[k] <= Present(val, k) + made'[k]
        PROVE  Cardinality(Deleted(k)') + Present(val', k) <= made'[k]
    BY <2>1, <2>2, DeletedSize
  <2>3. ASSUME NEW c \in Calls, Deliver(c)
        PROVE  Cardinality(Deleted(k)') + Present(val', k) <= made'[k]
    <3>1. CASE Deleted(k)' \subseteq Deleted(k)
      BY <2>2, <2>3, <3>1, MadeStep
    <3>2. CASE /\ Deleted(k)' \subseteq Deleted(k) \union {c}
               /\ Present(val, k) = 1 /\ Present(val', k) = 0 /\ made' = made
      BY <2>1, <3>2, DeletedSize
    <3>3. QED
      BY <2>3, <3>1, <3>2, DeleteStep
  <2>4. ASSUME NEW c \in Calls,
               Arrive(c) \/ LoseReply(c) \/ LoseRequest(c) \/ Deadline(c) \/ Stray(c)
        PROVE  Cardinality(Deleted(k)') + Present(val', k) <= made'[k]
    BY <2>2, <2>4, OtherSteps, MadeStep
  <2>5. CASE Tick
    <3>1. Deleted(k)' \subseteq Deleted(k)
      BY <2>5 DEF Tick, Deleted, Done, Is
    <3>2. QED
      BY <2>2, <2>5, <3>1, MadeStep
  <2>6. CASE UNCHANGED vars
    <3>1. Deleted(k)' = Deleted(k) /\ Present(val', k) = Present(val, k) /\ made' = made
      BY <2>6 DEF vars, Deleted, Done, Is, Present
    <3>2. QED
      BY <2>1, <3>1
  <2>7. QED
    BY <2>3, <2>4, <2>5, <2>6 DEF Next, Quiet
<1>3. Balance /\ TypeInv => DeletionsMatchCreations
  <2> SUFFICES ASSUME Balance, TypeInv, NEW k \in Keys
               PROVE  Cardinality(Deleted(k)) <= made[k]
    BY DEF DeletionsMatchCreations, Deleted
  <2>1. QED
    BY DeletedSize DEF Balance, Present, TypeInv, TypeOK
<1>4. QED
  BY <1>1, <1>2, <1>3, TypeInvariance, PTL DEF Spec
=============================================================================
