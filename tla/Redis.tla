-------------------------------- MODULE Redis --------------------------------
(***************************************************************************)
(* internal/service/redis.go over one Redis server.  Every method sends    *)
(* one command, GetValue and Info a second one; go-redis sends a command   *)
(* again when the network fails under it (MaxRetries, which                *)
(* db.initRedis leaves at its default), and each method gives up after     *)
(* five seconds.  Calls run concurrently, keys expire, and a command the   *)
(* client has given up may still reach the server.  The nil check that     *)
(* precedes every method is Router.tla's NotEnabled.                       *)
(***************************************************************************)
EXTENDS Integers, FiniteSets

CONSTANTS
  Calls,      \* the RPCs that may arrive
  Keys,       \* the keys they name
  Vals,       \* the values they store
  Ops,        \* the methods they are for
  MaxTTL,     \* bound: the longest expiry asked for, in seconds
  MaxTries    \* attempts per command: 1 + MaxRetries

Methods == {"ListKeys", "SetValue", "GetValue", "DeleteKey", "Info"}
Missing == "missing"

ASSUME OpsAssumption == Ops \subseteq Methods
ASSUME ValsAssumption == Missing \notin Vals
ASSUME FiniteAssumption == IsFiniteSet(Keys) /\ IsFiniteSet(Calls)
ASSUME BoundsAssumption == MaxTTL \in Nat /\ MaxTries \in Nat \ {0}

VARIABLES
  val,      \* the value of each key, or Missing
  left,     \* seconds it has left; 0 for a key without expiry
  req,      \* what each call asks for
  at,       \* which of its commands the call is at
  tries,    \* attempts of that command so far
  out,      \* what the call answered
  stray,    \* writes given up by the client and still on their way
  \* History, for the properties only:
  seen,     \* what a reader of the call's key, or of the key count, could have
            \* seen since the call began
  faulty,   \* calls that lost a request, a reply or their time
  applied,  \* how often each call's SET was executed
  made      \* how often each key came into being

vars == <<val, left, req, at, tries, out, stray, seen, faulty, applied, made>>
history == <<seen, faulty, applied, made>>
store == <<val, left>>

Requests ==
  [op : Ops \intersect {"SetValue"}, key : Keys, val : Vals, ttl : -1..MaxTTL]
    \union [op : Ops \ {"SetValue"}, key : Keys, val : {Missing}, ttl : {0}]
NoRequest == [op |-> "none"]

\* code and value of an answer, and its number: a ttl, a count, a deleted flag.
Answer(code, v, n) == [code |-> code, val |-> v, num |-> n]
Codes == {"none", "ok", "notfound", "error"}
NoAnswer == Answer("none", Missing, 0)

TypeOK ==
  /\ val \in [Keys -> Vals \union {Missing}]
  /\ left \in [Keys -> 0..MaxTTL]
  /\ req \in [Calls -> Requests \union {NoRequest}]
  /\ at \in [Calls -> {"idle", "first", "second", "done"}]
  /\ tries \in [Calls -> 0..(MaxTries - 1)]
  /\ out \in [Calls -> [code : Codes, val : Vals \union {Missing}, num : Nat]]
  /\ stray \subseteq Calls
  /\ seen \in [Calls -> SUBSET ((Vals \union {Missing}) \X Nat)]
  /\ faulty \subseteq Calls
  /\ applied \in [Calls -> Nat]
  /\ made \in [Keys -> Nat]

Init ==
  /\ val \in [Keys -> Vals \union {Missing}]
  /\ left = [k \in Keys |-> 0]
  /\ req = [c \in Calls |-> NoRequest]
  /\ at = [c \in Calls |-> "idle"]
  /\ tries = [c \in Calls |-> 0]
  /\ out = [c \in Calls |-> NoAnswer]
  /\ stray = {}
  /\ seen = [c \in Calls |-> {}]
  /\ faulty = {}
  /\ applied = [c \in Calls |-> 0]
  /\ made = [k \in Keys |-> IF val[k] = Missing THEN 0 ELSE 1]

InProgress(c) == at[c] \in {"first", "second"}
Is(c, o) == req[c].op = o

-----------------------------------------------------------------------------
(* The server.                                                             *)

\* What request r would see in the store v, l: the value and expiry of its key,
\* or, for Info, the number of keys.
View(r, v, l) ==
  IF r.op = "Info" THEN <<Missing, Cardinality({k \in Keys : v[k] # Missing})>>
                   ELSE <<v[r.key], l[r.key]>>

\* Every call in progress sees the new state of the store.
Witness ==
  seen' = [c \in Calls |-> IF InProgress(c)
                           THEN seen[c] \union {View(req[c], val', left')} ELSE seen[c]]

\* Mutant of Expiry: without "if ttl > 0".
ExpiryUnchecked(ttl) == ttl

\* The expiry SetValue asks for: time.Duration(ttl) * time.Second, if above zero.
Expiry(ttl) == IF ttl > 0 THEN ttl ELSE 0

\* Mutant of Put: the expiry is not passed on.
PutForever(c) ==
  LET k == req[c].key IN
    /\ val' = [val EXCEPT ![k] = req[c].val]
    /\ left' = [left EXCEPT ![k] = 0]
    /\ made' = IF val[k] = Missing THEN [made EXCEPT ![k] = @ + 1] ELSE made
    /\ applied' = [applied EXCEPT ![c] = @ + 1]

\* SET: a ttl above zero becomes an expiry, any other makes the key permanent.
Put(c) ==
  LET k == req[c].key IN
    /\ val' = [val EXCEPT ![k] = req[c].val]
    /\ left' = [left EXCEPT ![k] = Expiry(req[c].ttl)]
    /\ made' = IF val[k] = Missing THEN [made EXCEPT ![k] = @ + 1] ELSE made
    /\ applied' = [applied EXCEPT ![c] = @ + 1]

\* DEL.
Remove(c) ==
  LET k == req[c].key IN
    /\ val' = [val EXCEPT ![k] = Missing]
    /\ left' = [left EXCEPT ![k] = 0]
    /\ UNCHANGED <<made, applied>>

\* The effect of a call's current command on the store.
Execute(c) ==
  /\ CASE Is(c, "SetValue") -> Put(c)
       [] Is(c, "DeleteKey") -> Remove(c)
       [] OTHER -> UNCHANGED <<store, made, applied>>
  /\ Witness

\* A second passes.
Tick ==
  /\ \E k \in Keys : left[k] > 0
  /\ val' = [k \in Keys |-> IF left[k] = 1 THEN Missing ELSE val[k]]
  /\ left' = [k \in Keys |-> IF left[k] > 0 THEN left[k] - 1 ELSE 0]
  /\ Witness
  /\ UNCHANGED <<req, at, tries, out, stray, faulty, applied, made>>

\* A write the client had given up reaches the server after all, or never does.
Stray(c) ==
  /\ c \in stray
  /\ stray' = stray \ {c}
  /\ \/ Execute(c)
     \/ UNCHANGED <<store, seen, applied, made>>
  /\ UNCHANGED <<req, at, tries, out, faulty>>

-----------------------------------------------------------------------------
(* The methods.                                                            *)

\* The server has decoded a request for one of the methods.
Ask(c, r) ==
  /\ at[c] = "idle"
  /\ req' = [req EXCEPT ![c] = r]
  /\ seen' = [seen EXCEPT ![c] = {View(r, val, left)}]
  /\ at' = [at EXCEPT ![c] = "first"]
  /\ UNCHANGED <<store, tries, out, stray, faulty, applied, made>>

Arrive(c) == \E r \in Requests : Ask(c, r)

Finish(c, a) ==
  /\ out' = [out EXCEPT ![c] = a]
  /\ at' = [at EXCEPT ![c] = "done"]
  /\ tries' = [tries EXCEPT ![c] = 0]

\* The first of two commands is answered: go on to the second.
GoOn(c, v) ==
  /\ out' = [out EXCEPT ![c] = Answer("none", v, 0)]
  /\ at' = [at EXCEPT ![c] = "second"]
  /\ tries' = [tries EXCEPT ![c] = 0]

\* Mutant of FirstReply: DeleteKey answers result >= 0.
FirstReplyDeleted(c) ==
  LET k == req[c].key IN
    \/ Is(c, "ListKeys") /\ Finish(c, Answer("ok", Missing, 0))
    \/ Is(c, "SetValue") /\ Finish(c, Answer("ok", Missing, 0))
    \/ Is(c, "DeleteKey") /\ Finish(c, Answer("ok", Missing, 1))
    \/ Is(c, "GetValue") /\ val[k] = Missing /\ Finish(c, Answer("notfound", Missing, 0))
    \/ Is(c, "GetValue") /\ val[k] # Missing /\ GoOn(c, val[k])
    \/ Is(c, "Info") /\ GoOn(c, Missing)

\* What a method does with the reply to its first command.
FirstReply(c) ==
  LET k == req[c].key IN
    \/ Is(c, "ListKeys") /\ Finish(c, Answer("ok", Missing, 0))
    \/ Is(c, "SetValue") /\ Finish(c, Answer("ok", Missing, 0))
    \/ Is(c, "DeleteKey")
         /\ Finish(c, Answer("ok", Missing, IF val[k] = Missing THEN 0 ELSE 1))
    \/ Is(c, "GetValue") /\ val[k] = Missing /\ Finish(c, Answer("notfound", Missing, 0))
    \/ Is(c, "GetValue") /\ val[k] # Missing /\ GoOn(c, val[k])
    \/ Is(c, "Info") /\ GoOn(c, Missing)

\* Mutant of SecondReply: the expiry loses its last unit on the way.
SecondReplyRounded(c) ==
  LET n == View(req[c], val, left)[2] IN
    Finish(c, Answer("ok", out[c].val, IF n > 0 THEN n - 1 ELSE 0))

\* ... and to its second, TTL or DBSIZE.  TTL's answers for a key without expiry
\* (-1) and for no key (-2) both become zero.
SecondReply(c) ==
  Finish(c, Answer("ok", out[c].val, View(req[c], val, left)[2]))

Reply(c) ==
  \/ at[c] = "first" /\ FirstReply(c)
  \/ at[c] = "second" /\ SecondReply(c)

\* Mutant of CommandFails: the error of GET is dropped like that of TTL.
CommandFailsSilently(c) ==
  \/ at[c] = "first" /\ Is(c, "GetValue") /\ Finish(c, Answer("ok", Missing, 0))
  \/ at[c] = "first" /\ ~Is(c, "GetValue") /\ Finish(c, Answer("error", Missing, 0))
  \/ at[c] = "second" /\ Finish(c, Answer("ok", out[c].val, 0))

\* What a method does when a command has failed for good: GetValue calls it "key
\* not found", and an error of TTL or DBSIZE is dropped.
CommandFails(c) ==
  \/ at[c] = "first" /\ Is(c, "GetValue") /\ Finish(c, Answer("notfound", Missing, 0))
  \/ at[c] = "first" /\ ~Is(c, "GetValue") /\ Finish(c, Answer("error", Missing, 0))
  \/ at[c] = "second" /\ Finish(c, Answer("ok", out[c].val, 0))

\* The command is executed and its reply arrives.
Deliver(c) ==
  /\ InProgress(c)
  /\ Execute(c)
  /\ Reply(c)
  /\ UNCHANGED <<req, stray, faulty>>

\* go-redis sends the command again, or reports the error.
RetryOrFail(c) ==
  /\ IF tries[c] + 1 < MaxTries
       THEN tries' = [tries EXCEPT ![c] = @ + 1] /\ UNCHANGED <<at, out>>
       ELSE CommandFails(c)
  /\ faulty' = faulty \union {c}

\* The command is executed and its reply is lost.
LoseReply(c) ==
  /\ InProgress(c)
  /\ Execute(c)
  /\ RetryOrFail(c)
  /\ UNCHANGED <<req, stray>>

\* The client gives the attempt up; a write may still be on its way.
LoseRequest(c) ==
  /\ InProgress(c)
  /\ stray' \in {stray, stray \union (IF Is(c, "SetValue") \/ Is(c, "DeleteKey")
                                        THEN {c} ELSE {})}
  /\ RetryOrFail(c)
  /\ UNCHANGED <<store, req, seen, applied, made>>

\* Five seconds have passed, or the caller's context has ended.
Deadline(c) ==
  /\ InProgress(c)
  /\ stray' \in {stray, stray \union (IF Is(c, "SetValue") \/ Is(c, "DeleteKey")
                                        THEN {c} ELSE {})}
  /\ CommandFails(c)
  /\ faulty' = faulty \union {c}
  /\ UNCHANGED <<store, req, seen, applied, made>>

Quiet == (\A c \in Calls : at[c] = "done") /\ UNCHANGED vars

Next ==
  \/ \E c \in Calls : \/ Arrive(c) \/ Deliver(c) \/ LoseReply(c)
                      \/ LoseRequest(c) \/ Deadline(c) \/ Stray(c)
  \/ Tick \/ Quiet

Spec == Init /\ [][Next]_vars

-----------------------------------------------------------------------------
(* Properties.                                                             *)

Done(c, o, code) == Is(c, o) /\ out[c].code = code /\ at[c] = "done"

\* An acknowledged SetValue happened: its SET was executed before the answer, and
\* the key had the value with the expiry asked for (redis.go:33-45), whatever was
\* lost, repeated or overtaken on the way.
SetReported ==
  \A c \in Calls :
    Done(c, "SetValue", "ok") =>
      applied[c] > 0 /\ <<req[c].val, Expiry(req[c].ttl)>> \in seen[c]

\* What GetValue and Info answer was true of the store at one moment of the call,
\* unless the store changed under its two commands or one of them failed.
ReadsExplained ==
  \A c \in Calls :
    Done(c, "GetValue", "ok") \/ Done(c, "Info", "ok") =>
      \/ <<out[c].val, out[c].num>> \in seen[c]
      \/ Cardinality(seen[c]) > 1
      \/ c \in faulty

\* The value GetValue answers was the key's value at some moment of the call, even
\* when the expiry beside it belongs to another value.
ValueWasThere ==
  \A c \in Calls :
    Done(c, "GetValue", "ok") => \E p \in seen[c] : p[1] = out[c].val /\ p[1] # Missing

\* No deletion is claimed twice: at most as many DeleteKey calls are answered
\* "deleted: true" as the key was brought into being, retries and stray commands
\* included.
DeletionsMatchCreations ==
  \A k \in Keys :
    Cardinality({c \in Calls : Done(c, "DeleteKey", "ok")
                               /\ req[c].key = k /\ out[c].num = 1}) <= made[k]

=============================================================================
