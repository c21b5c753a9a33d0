----------------------------- MODULE MongoProofs -----------------------------
(***************************************************************************)
(* Mongo.tla for any finite sets of calls and ObjectIDs, any ids, fields   *)
(* and values: what the answers of the methods say about the collection,   *)
(* with lost replies, writes that arrive late and cursors that fail.       *)
(***************************************************************************)
EXTENDS Mongo, TLAPS

\* The _ids that the driver generates, those it has generated so far, and those
\* that are never in danger of being generated: texts, and what is there already.
Generated == {ObjectID(o) : o \in Oids}
Issued == {ObjectID(o) : o \in used}
Custom == {StringID(s) : s \in Strings}

\* A write that has not been executed and still may be.
Pending(c) == (at[c] = "sent" \/ c \in stray) /\ req[c].op \in Writing

\* What a call is made of at each place of its handler.
PlaceInv(c) ==
  /\ at[c] = "idle" => req[c] = NoRequest
  /\ at[c] # "idle" => req[c] \in Requests
  /\ at[c] \in {"idle", "entered"} => key[c] = NoId
  /\ at[c] \in {"idle", "entered", "sent"} => out[c] = NoAnswer
  /\ at[c] = "cursor" => Is(c, "FindDocuments") /\ out[c].code = "none" /\ out[c].n = 0
  /\ c \in stray => at[c] = "done" /\ out[c].code = "error" /\ out[c].n = 0
  /\ at[c] # "done" \/ c \in stray => took[c] = 0
  /\ took[c] = 1 => req[c].op \in Writing

\* Which _id a write is for: UpdateDocument and DeleteDocument name ObjectIDs only,
\* an insertion has one that was generated for it or a text.
KeyInv(c) ==
  /\ Pending(c) \/ took[c] = 1 => key[c] # NoId
  /\ key[c] # NoId /\ req[c].op \in ById => key[c] \in Generated
  /\ key[c] # NoId /\ Is(c, "InsertDocument") => key[c] \in Custom \union Issued

TypeInv == TypeOK /\ \A c \in Calls : PlaceInv(c) /\ KeyInv(c)

\* An ObjectID is in the collection at most once in its life: it is generated for
\* one call, which inserts it once, and never comes back.
OnceInv ==
  /\ DOMAIN docs \subseteq Custom \union Issued
  /\ \A c \in Calls : took[c] = 1 => key[c] \in Custom \union Issued
  /\ \A c, d \in Calls :
       c # d /\ Is(c, "InsertDocument") /\ Is(d, "InsertDocument") /\ key[c] = key[d]
         => key[c] \notin Generated
  /\ \A c \in Calls :
       Pending(c) /\ Is(c, "InsertDocument") /\ key[c] \in Generated =>
         key[c] \notin DOMAIN docs /\ \A d \in Calls : took[d] = 1 => key[d] # key[c]

\* What has become of the documents the executed writes were for.
EffectInv ==
  /\ \A c \in Calls : took[c] = 1 /\ Is(c, "DeleteDocument") => key[c] \notin DOMAIN docs
  /\ \A c, d \in Calls :
       /\ c # d /\ took[c] = 1 /\ took[d] = 1
       /\ Is(c, "DeleteDocument") /\ Is(d, "DeleteDocument")
       => key[c] # key[d]
  /\ \A c \in Calls :
       took[c] = 1 /\ Is(c, "InsertDocument") =>
         key[c] \in DOMAIN docs \/ \E d \in Calls : Is(d, "DeleteDocument") /\ key[d] = key[c]
  /\ \A c \in Calls :
       /\ took[c] = 1 /\ req[c].op \in {"InsertDocument", "UpdateDocument"}
       /\ key[c] \in DOMAIN docs
       => DOMAIN req[c].body \subseteq DOMAIN docs[key[c]]

\* What an answer says of its own call.
AnswerInv(c) ==
  /\ Done(c, "InsertDocument", "ok") => took[c] = 1
  /\ out[c].n = 1 => took[c] = 1
  /\ out[c].code = "invalid" => at[c] = "done" /\ took[c] = 0 /\ c \notin stray

\* A call has seen the collection as it is; its counts are of one it has seen.
SeenInv(c) ==
  /\ InProgress(c) => docs \in seen[c]
  /\ (\E o \in ById : Done(c, o, "ok")) =>
       /\ out[c].n = 0 => \E D \in seen[c] : key[c] \notin DOMAIN D
       /\ out[c].n = 1 /\ out[c].m = 0 /\ Is(c, "UpdateDocument") =>
            \E D \in seen[c] : key[c] \in DOMAIN D /\ Update(D, key[c], req[c].body) = D

\* A cursor has found nothing that was not there, and has missed nothing that was
\* there all the time among what it has gone over.
FoundInv(c) ==
  Is(c, "FindDocuments") /\ (at[c] = "cursor" \/ (at[c] = "done" /\ out[c].code = "ok")) =>
    /\ \A p \in out[c].found : \E D \in seen[c] : p[1] \in DOMAIN D /\ D[p[1]] = p[2]
    /\ \A i \in Ids \ todo[c] :
         (\A D \in seen[c] : i \in DOMAIN D) => \E p \in out[c].found : p[1] = i
    /\ at[c] = "done" => todo[c] = {}

Inv ==
  /\ TypeInv /\ OnceInv /\ EffectInv
  /\ \A c \in Calls : AnswerInv(c) /\ SeenInv(c) /\ FoundInv(c)
-----------------------------------------------------------------------------
(* Ids and requests.                                                       *)

LEMMA IdKinds ==
  /\ Ids = Generated \union Custom
  /\ \A i \in Generated : i \notin Custom /\ i # NoId /\ i[1] # "string" /\ Shown(i) \in Strings
  /\ \A i \in Custom : i # NoId /\ Shown(i) \in Strings
<1> USE DEF Generated, Custom, ObjectID, StringID
<1>1. Ids = Generated \union Custom
  BY DEF Ids
<1>2. \A i \in Generated : i \notin Custom /\ i # NoId /\ i[1] # "string"
  BY DEF NoId
<1>3. \A i \in Generated : Shown(i) \in Strings
  BY DEF Shown, Strings
<1>4. \A i \in Custom : i # NoId /\ Shown(i) \in Strings
  BY DEF Shown, NoId
<1>5. QED
  BY <1>1, <1>2, <1>3, <1>4

LEMMA IssuedKinds ==
  ASSUME TypeOK
  PROVE  /\ Issued \subseteq Generated
         /\ \A o \in Oids \ used : ObjectID(o) \in Generated /\ ObjectID(o) \notin Issued
  BY DEF TypeOK, Issued, Generated, ObjectID

\* An id of twenty-four hexadecimal digits names an ObjectID.
LEMMA TargetType ==
  ASSUME NEW s \in Strings, IsHex(s)
  PROVE  Target(s) \in Generated
  BY DEF Strings, IsHex, Target, Hex, Wrapped, Text, Generated

LEMMA NoDocument == Empty \in Documents
<1>1. Empty \in [{} -> Vals] /\ {} \in SUBSET Fields
  BY DEF Empty
<1>2. QED
  BY <1>1 DEF Documents

LEMMA RequestType ==
  ASSUME NEW r \in Requests
  PROVE  /\ r.op \in Methods /\ r.body \in Documents
         /\ r.op \in ById => r.id \in Strings
         /\ r.op = "InsertDocument" => r.id \in Strings \union {NoId}
         /\ r.op # "none"
  BY OpsAssumption, CustomAssumption, NoDocument DEF Requests, Methods, Writing, ById

LEMMA NoRequestType == NoRequest \notin Requests /\ NoRequest.op \notin Writing
  BY RequestType DEF NoRequest, Writing

-----------------------------------------------------------------------------
(* Documents and collections.                                              *)

\* $set keeps the fields that are there and adds the new ones.
LEMMA SetFields ==
  ASSUME NEW d \in Documents, NEW u \in Documents
  PROVE  /\ Set(d, u) \in Documents
         /\ DOMAIN d \subseteq DOMAIN Set(d, u) /\ DOMAIN u \subseteq DOMAIN Set(d, u)
<1>1. PICK F \in SUBSET Fields, G \in SUBSET Fields : d \in [F -> Vals] /\ u \in [G -> Vals]
  BY DEF Documents
<1>2. Set(d, u) \in [F \union G -> Vals] /\ F \union G \in SUBSET Fields
  BY <1>1 DEF Set
<1>3. QED
  BY <1>1, <1>2 DEF Documents

LEMMA InsertType ==
  ASSUME NEW D, Collection(D), NEW i \in Ids, NEW d \in Documents
  PROVE  /\ Collection(Insert(D, i, d))
         /\ DOMAIN Insert(D, i, d) = DOMAIN D \union {i}
         /\ Insert(D, i, d)[i] = d
         /\ \A j \in DOMAIN D : j # i => Insert(D, i, d)[j] = D[j]
  BY DEF Collection, Insert

LEMMA UpdateType ==
  ASSUME NEW D, Collection(D), NEW i \in DOMAIN D, NEW u \in Documents
  PROVE  /\ Collection(Update(D, i, u))
         /\ DOMAIN Update(D, i, u) = DOMAIN D
         /\ Update(D, i, u)[i] = Set(D[i], u)
         /\ \A j \in DOMAIN D : j # i => Update(D, i, u)[j] = D[j]
<1>1. D[i] \in Documents
  BY DEF Collection
<1>2. Set(D[i], u) \in Documents
  BY <1>1, SetFields
<1>3. QED
  BY <1>2 DEF Collection, Update

LEMMA RemoveType ==
  ASSUME NEW D, Collection(D), NEW i
  PROVE  /\ Collection(Remove(D, i))
         /\ DOMAIN Remove(D, i) = DOMAIN D \ {i}
         /\ \A j \in DOMAIN D : j # i => Remove(D, i)[j] = D[j]
  BY DEF Collection, Remove, Restrict

-----------------------------------------------------------------------------
(* Execution.                                                              *)

\* What the write of a call has done to the collection.
Others(c) ==
  /\ DOMAIN docs \ {key[c]} = DOMAIN docs' \ {key[c]}
  /\ \A i \in DOMAIN docs : i # key[c] => docs'[i] = docs[i]
Inserted(c) ==
  /\ Is(c, "InsertDocument") /\ key[c] \notin DOMAIN docs
  /\ key[c] \in DOMAIN docs' /\ docs'[key[c]] = req[c].body
Updated(c) ==
  /\ Is(c, "UpdateDocument") /\ key[c] \in DOMAIN docs
  /\ key[c] \in DOMAIN docs' /\ docs'[key[c]] = Set(docs[key[c]], req[c].body)
Removed(c) ==
  /\ Is(c, "DeleteDocument") /\ key[c] \in DOMAIN docs
  /\ key[c] \notin DOMAIN docs'
Applied(c) ==
  /\ Pending(c) /\ Others(c)
  /\ Inserted(c) \/ Updated(c) \/ Removed(c)
  /\ took' = [took EXCEPT ![c] = 1]

\* Every call has seen what it had, and one in progress the collection as it is now.
Witnessed ==
  /\ DOMAIN seen' = Calls
  /\ \A d \in Calls :
       /\ seen[d] \subseteq seen'[d] /\ seen'[d] \subseteq seen[d] \union {docs'}
       /\ InProgress(d) /\ docs \in seen[d] => docs' \in seen'[d]
       /\ ~InProgress(d) => seen'[d] = seen[d]

LEMMA ExecuteStep ==
  ASSUME TypeInv, NEW c \in Calls, at[c] = "sent" \/ c \in stray, Execute(c)
  PROVE  /\ Collection(docs') /\ Witnessed
         /\ \/ Applied(c) /\ Takes(c) /\ docs' = Written(c)
            \/ UNCHANGED <<docs, took, seen>> /\ (req[c].op \in Writing => ~Takes(c))
<1>1. CASE ~(req[c].op \in Writing /\ Takes(c))
  BY <1>1 DEF Execute, TypeInv, TypeOK, Witnessed
<1>2. CASE req[c].op \in Writing /\ Takes(c)
  <2>1. /\ Pending(c) /\ took[c] = 0 /\ key[c] \in Ids /\ req[c] \in Requests
        /\ req[c].body \in Documents
    <3>1. Pending(c)
      BY <1>2 DEF Pending
    <3>2. took[c] = 0 /\ req[c] \in Requests /\ key[c] # NoId
      BY <3>1 DEF Pending, TypeInv, PlaceInv, KeyInv
    <3>3. key[c] \in Ids
      BY <3>2 DEF TypeInv, TypeOK
    <3>4. QED
      BY <3>1, <3>2, <3>3, RequestType
  <2>2. docs' = Written(c) /\ took' = [took EXCEPT ![c] = 1]
    BY <1>2, <2>1 DEF Execute, TypeInv, TypeOK
  <2>3. seen' = [d \in Calls |-> IF InProgress(d) THEN seen[d] \union {docs'} ELSE seen[d]]
    BY <1>2 DEF Execute
  <2>4. Witnessed
    BY <2>3 DEF Witnessed, TypeInv, TypeOK
  <2>5. Collection(docs)
    BY DEF TypeInv, TypeOK
  <2>6. Collection(docs') /\ Others(c) /\ (Inserted(c) \/ Updated(c) \/ Removed(c))
    <3>1. CASE Is(c, "InsertDocument")
      <4>1. docs' = Insert(docs, key[c], req[c].body) /\ key[c] \notin DOMAIN docs
        BY <1>2, <2>2, <3>1 DEF Written, Takes, Is
      <4>2. /\ Collection(docs') /\ DOMAIN docs' = DOMAIN docs \union {key[c]}
            /\ docs'[key[c]] = req[c].body
            /\ \A i \in DOMAIN docs : i # key[c] => docs'[i] = docs[i]
        BY <2>1, <2>5, <4>1, InsertType
      <4>3. QED
        BY <3>1, <4>1, <4>2 DEF Others, Inserted
    <3>2. CASE Is(c, "UpdateDocument")
      <4>1. docs' = Update(docs, key[c], req[c].body) /\ key[c] \in DOMAIN docs
        BY <1>2, <2>2, <3>2 DEF Written, Takes, Is
      <4>2. QED
        BY <2>1, <2>5, <3>2, <4>1, UpdateType DEF Others, Updated
    <3>3. CASE Is(c, "DeleteDocument")
      <4>1. docs' = Remove(docs, key[c]) /\ key[c] \in DOMAIN docs
        BY <1>2, <2>2, <3>3 DEF Written, Takes, Is
      <4>2. QED
        BY <2>5, <3>3, <4>1, RemoveType DEF Others, Removed
    <3>4. QED
      BY <1>2, <3>1, <3>2, <3>3 DEF Writing, Is
  <2>7. QED
    BY <1>2, <2>1, <2>2, <2>4, <2>6 DEF Applied
<1>3. QED
  BY <1>1, <1>2

-----------------------------------------------------------------------------
(* Types.                                                                  *)

\* What a step of another call leaves alone.
Untouched(d) ==
  /\ at'[d] = at[d] /\ req'[d] = req[d] /\ key'[d] = key[d] /\ todo'[d] = todo[d]
  /\ out'[d] = out[d] /\ took'[d] = took[d]
  /\ d \in stray' => d \in stray

Act(c) ==
  \/ Arrive(c) \/ Refuse(c) \/ Send(c) \/ Deliver(c) \/ LoseReply(c) \/ NoReply(c)
  \/ OpenCursor(c) \/ NextBatch(c) \/ CursorFails(c) \/ Late(c)

\* The answers that a call may end with, once it has been sent: what they say of the
\* collection as it was when the command was executed.
Told(c, a) ==
  /\ a \in Answers /\ a.code \in {"ok", "error"}
  /\ a.code = "error" => a = [NoAnswer EXCEPT !.code = "error"]
  /\ a.code = "ok" =>
       /\ Is(c, "InsertDocument") => Takes(c) /\ a.n = 0 /\ a.id = Shown(key[c])
       /\ req[c].op \in ById => a.n = Counts(c)[1] /\ a.m = Counts(c)[2]
       /\ req[c].op \notin Writing => a.n = 0

LEMMA NoAnswerType ==
  /\ NoAnswer \in Answers
  /\ [NoAnswer EXCEPT !.code = "error"] \in Answers
  /\ [NoAnswer EXCEPT !.code = "invalid"] \in Answers
  /\ NoAnswer.code = "none" /\ NoAnswer.n = 0
  BY DEF NoAnswer, Answers

LEMMA FailTold ==
  ASSUME NEW c, Fail(c)
  PROVE  \E a \in Answers : Finish(c, a) /\ Told(c, a)
<1> DEFINE a == [NoAnswer EXCEPT !.code = "error"]
<1>1. a \in Answers /\ a.code = "error"
  BY NoAnswerType DEF NoAnswer
<1>2. Finish(c, a)
  BY DEF Fail
<1>3. QED
  BY <1>1, <1>2 DEF Told

LEMMA ReplyTold ==
  ASSUME TypeInv, NEW c \in Calls, at[c] = "sent", ~Is(c, "FindDocuments"), Reply(c)
  PROVE  \E a \in Answers : Finish(c, a) /\ Told(c, a)
<1>1. CASE Is(c, "InsertDocument") /\ Takes(c)
  <2> DEFINE a == [NoAnswer EXCEPT !.id = Shown(key[c]), !.code = "ok"]
  <2>1. Finish(c, a)
    <3>1. Succeed(c, [NoAnswer EXCEPT !.id = Shown(key[c])])
      BY <1>1 DEF Reply, ById, Is
    <3>2. QED
      BY <3>1 DEF Succeed, NoAnswer
  <2>2. Shown(key[c]) \in Strings
    <3>1. key[c] \in Ids
      BY <1>1 DEF TypeInv, TypeOK, KeyInv, Pending, Writing, Is
    <3>2. QED
      BY <3>1, IdKinds
  <2>3. a \in Answers /\ a.code = "ok" /\ a.n = 0 /\ a.id = Shown(key[c])
    BY <2>2 DEF NoAnswer, Answers
  <2>4. QED
    BY <1>1, <2>1, <2>3 DEF Told, ById, Is, Writing
<1>2. CASE Is(c, "InsertDocument") /\ ~Takes(c)
  <2>1. Fail(c)
    BY <1>2 DEF Reply, ById, Is
  <2>2. QED
    BY <2>1, FailTold
<1>3. CASE req[c].op \in ById
  <2> DEFINE a == [NoAnswer EXCEPT !.n = Counts(c)[1], !.m = Counts(c)[2], !.code = "ok"]
  <2>1. Finish(c, a)
    BY <1>3 DEF Reply, Succeed, NoAnswer, ById, Is
  <2>2. Counts(c)[1] \in {0, 1} /\ Counts(c)[2] \in {0, 1}
    BY DEF Counts
  <2>3. a \in Answers /\ a.code = "ok" /\ a.n = Counts(c)[1] /\ a.m = Counts(c)[2]
    BY <2>2 DEF NoAnswer, Answers
  <2>4. QED
    BY <1>3, <2>1, <2>3 DEF Told, ById, Is, Writing
<1>4. CASE req[c].op \notin Writing
  <2> DEFINE a == [NoAnswer EXCEPT !.code = "ok"]
  <2>1. Finish(c, a)
    BY <1>4 DEF Reply, Succeed, Writing, ById, Is
  <2>2. a \in Answers /\ a.code = "ok" /\ a.n = 0
    BY DEF NoAnswer, Answers
  <2>3. QED
    BY <1>4, <2>1, <2>2 DEF Told, ById, Is, Writing
<1>5. QED
  BY <1>1, <1>2, <1>3, <1>4 DEF Writing, ById, Is

\* A command is executed and answered, executed without an answer, or given up.
LEMMA SentStep ==
  ASSUME TypeInv, NEW c \in Calls, Deliver(c) \/ LoseReply(c) \/ NoReply(c)
  PROVE  /\ at[c] = "sent" /\ UNCHANGED <<used, req, key, todo>>
         /\ \E a \in Answers : Finish(c, a) /\ Told(c, a)
         /\ \/ UNCHANGED stray /\ Execute(c)
            \/ /\ UNCHANGED <<docs, seen, took>> /\ Fail(c)
               /\ stray' = stray \/ (stray' = stray \union {c} /\ req[c].op \in Writing)
<1>1. CASE Deliver(c)
  BY <1>1, ReplyTold DEF Deliver
<1>2. CASE LoseReply(c)
  BY <1>2, FailTold DEF LoseReply, CommandFails
<1>3. CASE NoReply(c)
  BY <1>3, FailTold DEF NoReply, CommandFails, GivenUp
<1>4. QED
  BY <1>1, <1>2, <1>3

\* A step leaves every call but its own alone.
LEMMA OthersUntouched ==
  ASSUME TypeInv, NEW c \in Calls, Act(c), NEW d \in Calls, d # c
  PROVE  Untouched(d) /\ used \subseteq used'
<1> USE DEF Untouched, TypeInv, TypeOK
<1>1. CASE Arrive(c)
  BY <1>1 DEF Arrive
<1>2. CASE Refuse(c)
  BY <1>2 DEF Refuse, Finish
<1>3. CASE Send(c)
  BY <1>3 DEF Send
<1>4. ASSUME Execute(c) PROVE took'[d] = took[d]
  BY <1>4 DEF Execute
<1>5. CASE Deliver(c) \/ LoseReply(c) \/ NoReply(c)
  BY <1>4, <1>5, SentStep DEF Finish
<1>6. CASE OpenCursor(c)
  BY <1>6 DEF OpenCursor
<1>7. CASE NextBatch(c)
  <2>1. at'[d] = at[d] /\ out'[d] = out[d]
    BY <1>7 DEF NextBatch, Succeed, Finish
  <2>2. QED
    BY <1>7, <2>1 DEF NextBatch
<1>8. CASE CursorFails(c)
  BY <1>8 DEF CursorFails, Fail, Finish
<1>9. CASE Late(c)
  BY <1>4, <1>9 DEF Late
<1>10. QED
  BY <1>1, <1>2, <1>3, <1>5, <1>6, <1>7, <1>8, <1>9 DEF Act

LEMMA UntouchedType ==
  ASSUME TypeInv, NEW d \in Calls, Untouched(d), used \subseteq used'
  PROVE  PlaceInv(d)' /\ KeyInv(d)'
<1>1. PlaceInv(d) /\ KeyInv(d) /\ Issued \subseteq Issued'
  BY DEF TypeInv, Issued
<1>2. PlaceInv(d)'
  BY <1>1 DEF PlaceInv, Untouched, Is
<1>3. KeyInv(d)'
  BY <1>1 DEF KeyInv, Untouched, Pending, Is, Custom, Generated
<1>4. QED
  BY <1>2, <1>3

\* The types after an execution.
LEMMA ExecuteType ==
  ASSUME TypeInv, NEW c \in Calls, at[c] = "sent" \/ c \in stray, Execute(c)
  PROVE  /\ Collection(docs') /\ DOMAIN seen' = Calls
         /\ \A d \in Calls : \A D \in seen'[d] : Collection(D)
         /\ took' \in [Calls -> {0, 1}]
         /\ took'[c] = 1 => Pending(c) \/ took[c] = 1
<1>1. Collection(docs') /\ Witnessed
  BY ExecuteStep
<1>2. \A d \in Calls : \A D \in seen'[d] : Collection(D)
  BY <1>1 DEF Witnessed, TypeInv, TypeOK
<1>3. took' \in [Calls -> {0, 1}] /\ (took'[c] = 1 => Pending(c) \/ took[c] = 1)
  BY ExecuteStep DEF Applied, TypeInv, TypeOK
<1>4. QED
  BY <1>1, <1>2, <1>3 DEF Witnessed

LEMMA ArriveType ==
  ASSUME TypeInv, NEW c \in Calls, Arrive(c)
  PROVE  TypeOK' /\ PlaceInv(c)' /\ KeyInv(c)'
<1>1. PICK r \in Requests : req' = [req EXCEPT ![c] = r]
  BY DEF Arrive
<1>2. /\ at[c] = "idle" /\ key[c] = NoId /\ out[c] = NoAnswer /\ took[c] = 0
      /\ c \notin stray /\ req[c] = NoRequest
  BY DEF Arrive, TypeInv, PlaceInv
<1>3. TypeOK'
  <2>1. /\ Collection(docs') /\ used' \subseteq Oids
        /\ req' \in [Calls -> Requests \union {NoRequest}]
        /\ at' \in [Calls -> {"idle", "entered", "sent", "cursor", "done"}]
        /\ key' \in [Calls -> Ids \union {NoId}] /\ todo' \in [Calls -> SUBSET Ids]
        /\ out' \in [Calls -> Answers] /\ took' \in [Calls -> {0, 1}]
    BY <1>1 DEF Arrive, TypeInv, TypeOK
  <2>2. stray' \subseteq {d \in Calls : req'[d].op \in Writing}
    BY <1>1, <1>2 DEF Arrive, TypeInv, TypeOK
  <2>3. DOMAIN seen' = Calls /\ \A d \in Calls : \A D \in seen'[d] : Collection(D)
    BY DEF Arrive, TypeInv, TypeOK
  <2>4. QED
    BY <2>1, <2>2, <2>3 DEF TypeOK
<1>4. /\ at'[c] = "entered" /\ req'[c] = r /\ key'[c] = NoId /\ out'[c] = NoAnswer
      /\ took'[c] = 0 /\ c \notin stray'
  BY <1>1, <1>2 DEF Arrive, TypeInv, TypeOK
<1>5. QED
  BY <1>3, <1>4 DEF PlaceInv, KeyInv, Pending

LEMMA RefuseType ==
  ASSUME TypeInv, NEW c \in Calls, Refuse(c)
  PROVE  TypeOK' /\ PlaceInv(c)' /\ KeyInv(c)'
<1>1. at[c] = "entered" /\ key[c] = NoId /\ took[c] = 0 /\ c \notin stray /\ req[c] \in Requests
  BY DEF Refuse, TypeInv, PlaceInv
<1>2. TypeOK'
  BY NoAnswerType DEF Refuse, Finish, TypeInv, TypeOK
<1>3. at'[c] = "done" /\ UNCHANGED <<req, key, took, stray>>
  BY DEF Refuse, Finish, TypeInv, TypeOK
<1>4. QED
  BY <1>1, <1>2, <1>3 DEF PlaceInv, KeyInv, Pending

LEMMA SendType ==
  ASSUME TypeInv, NEW c \in Calls, Send(c)
  PROVE  TypeOK' /\ PlaceInv(c)' /\ KeyInv(c)'
<1>1. /\ at[c] = "entered" /\ out[c] = NoAnswer /\ took[c] = 0 /\ c \notin stray
      /\ req[c] \in Requests
  BY DEF Send, TypeInv, PlaceInv
<1>2. /\ at' = [at EXCEPT ![c] = "sent"]
      /\ UNCHANGED <<docs, req, todo, out, stray, seen, took>>
  BY DEF Send
<1>3. /\ key' \in [Calls -> Ids \union {NoId}] /\ used' \subseteq Oids
      /\ req[c].op \in Writing => key'[c] # NoId
      /\ req[c].op \in ById => key'[c] \in Generated
      /\ Is(c, "InsertDocument") => key'[c] \in Custom \union Issued'
  <2>1. CASE req[c].op \in ById /\ IsHex(req[c].id) /\ UNCHANGED used
             /\ key' = [key EXCEPT ![c] = Target(req[c].id)]
    <3>1. Target(req[c].id) \in Generated
      BY <1>1, <2>1, RequestType, TargetType
    <3>2. QED
      BY <2>1, <3>1, IdKinds DEF TypeInv, TypeOK, ById, Is
  <2>2. CASE Is(c, "InsertDocument") /\ req[c].id # NoId /\ UNCHANGED used
             /\ key' = [key EXCEPT ![c] = StringID(req[c].id)]
    <3>1. StringID(req[c].id) \in Custom
      BY <1>1, <2>2, RequestType DEF Custom, Is
    <3>2. QED
      BY <2>2, <3>1, IdKinds DEF TypeInv, TypeOK, ById, Is
  <2>3. ASSUME NEW o \in Oids \ used, Is(c, "InsertDocument"), used' = used \union {o},
               key' = [key EXCEPT ![c] = ObjectID(o)]
        PROVE  <1>3!1 /\ <1>3!2 /\ <1>3!3 /\ <1>3!4
    <3>1. ObjectID(o) \in Generated /\ ObjectID(o) \in Issued'
      BY <2>3 DEF Generated, Issued
    <3>2. QED
      BY <2>3, <3>1, IdKinds DEF TypeInv, TypeOK, ById, Is
  <2>4. CASE req[c].op \notin Writing /\ UNCHANGED <<key, used>>
    BY <2>4 DEF TypeInv, TypeOK, Writing, ById, Is
  <2>5. QED
    BY <2>1, <2>2, <2>3, <2>4 DEF Send
<1>4. TypeOK'
  BY <1>2, <1>3 DEF TypeInv, TypeOK
<1>5. at'[c] = "sent" /\ c \notin stray'
  BY <1>1, <1>2 DEF TypeInv, TypeOK
<1>6. PlaceInv(c)'
  BY <1>1, <1>2, <1>5 DEF PlaceInv
<1>7. KeyInv(c)'
  BY <1>1, <1>2, <1>3 DEF KeyInv, Pending, Is, Custom, Generated
<1>8. QED
  BY <1>4, <1>6, <1>7

LEMMA SentType ==
  ASSUME TypeInv, NEW c \in Calls, Deliver(c) \/ LoseReply(c) \/ NoReply(c)
  PROVE  TypeOK' /\ PlaceInv(c)' /\ KeyInv(c)'
<1>1. PICK a \in Answers : Finish(c, a) /\ Told(c, a)
  BY SentStep
<1>2. /\ at[c] = "sent" /\ UNCHANGED <<used, req, key, todo>> /\ req[c] \in Requests
      /\ took[c] = 0 /\ c \notin stray
  BY SentStep DEF TypeInv, PlaceInv
<1>3. /\ at' = [at EXCEPT ![c] = "done"] /\ out' = [out EXCEPT ![c] = a]
      /\ at'[c] = "done" /\ out'[c] = a
  BY <1>1 DEF Finish, TypeInv, TypeOK
<1>4. /\ Collection(docs') /\ DOMAIN seen' = Calls
      /\ \A d \in Calls : \A D \in seen'[d] : Collection(D)
      /\ took' \in [Calls -> {0, 1}]
      /\ took'[c] = 1 => Pending(c) /\ c \notin stray'
      /\ stray' \subseteq stray \union {c}
      /\ c \in stray' => req[c].op \in Writing /\ took'[c] = 0 /\ a.code = "error" /\ a.n = 0
  <2>1. CASE UNCHANGED stray /\ Execute(c)
    BY <2>1, <1>2, ExecuteType
  <2>2. CASE /\ UNCHANGED <<docs, seen, took>> /\ Fail(c)
             /\ stray' = stray \/ (stray' = stray \union {c} /\ req[c].op \in Writing)
    <3>1. out'[c] = [NoAnswer EXCEPT !.code = "error"]
      BY <2>2 DEF Fail, Finish, TypeInv, TypeOK
    <3>2. a.code = "error" /\ a.n = 0
      BY <1>3, <3>1 DEF NoAnswer
    <3>3. QED
      BY <1>2, <2>2, <3>2 DEF TypeInv, TypeOK
  <2>3. QED
    BY <2>1, <2>2, SentStep
<1>5. TypeOK'
  BY <1>2, <1>3, <1>4 DEF TypeInv, TypeOK
<1>6. PlaceInv(c)'
  BY <1>2, <1>3, <1>4 DEF PlaceInv, Pending
<1>7. KeyInv(c)'
  <2>1. KeyInv(c) /\ Pending(c)' => Pending(c)
    BY <1>2, <1>3, <1>4 DEF Pending
  <2>2. KeyInv(c)
    BY DEF TypeInv
  <2>3. key'[c] = key[c] /\ req'[c] = req[c] /\ Issued' = Issued
    BY <1>2 DEF Issued
  <2>4. Pending(c)' \/ took'[c] = 1 => key'[c] # NoId
    BY <2>1, <2>2, <2>3, <1>4 DEF KeyInv
  <2>5. QED
    BY <2>2, <2>3, <2>4 DEF KeyInv, Is, Custom, Generated
<1>8. QED
  BY <1>5, <1>6, <1>7

LEMMA LateType ==
  ASSUME TypeInv, NEW c \in Calls, Late(c)
  PROVE  TypeOK' /\ PlaceInv(c)' /\ KeyInv(c)'
<1>1. /\ c \in stray /\ c \notin stray' /\ stray' \subseteq stray
      /\ UNCHANGED <<used, req, at, key, todo, out>>
  BY DEF Late
<1>2. at[c] = "done" /\ PlaceInv(c) /\ KeyInv(c) /\ Pending(c) /\ req[c] \in Requests
  BY <1>1 DEF TypeInv, TypeOK, PlaceInv, Pending
<1>3. /\ Collection(docs') /\ DOMAIN seen' = Calls
      /\ \A d \in Calls : \A D \in seen'[d] : Collection(D)
      /\ took' \in [Calls -> {0, 1}]
  <2>1. CASE Execute(c)
    BY <2>1, <1>1, ExecuteType
  <2>2. CASE UNCHANGED <<docs, took, seen>>
    BY <2>2 DEF TypeInv, TypeOK
  <2>3. QED
    BY <2>1, <2>2 DEF Late
<1>4. TypeOK'
  BY <1>1, <1>3 DEF TypeInv, TypeOK
<1>5. PlaceInv(c)'
  BY <1>1, <1>2 DEF PlaceInv, Pending, Is
<1>6. KeyInv(c)'
  <2>1. Issued' = Issued
    BY <1>1 DEF Issued
  <2>2. QED
    BY <1>1, <1>2, <2>1 DEF KeyInv, Is, Custom, Generated
<1>7. QED
  BY <1>4, <1>5, <1>6

\* What a batch adds to the documents found.
Batch(c, B) == out[c].found \union {<<i, docs[i]>> : i \in B \intersect DOMAIN docs}

LEMMA NextBatchStep ==
  ASSUME TypeInv, NEW c \in Calls, NextBatch(c)
  PROVE  \E B \in SUBSET todo[c] :
           /\ at[c] = "cursor" /\ UNCHANGED <<docs, used, req, key, stray, seen, took>>
           /\ todo' = [todo EXCEPT ![c] = @ \ B]
           /\ Batch(c, B) \in SUBSET (Ids \X Documents)
           /\ \/ /\ B = todo[c] /\ at' = [at EXCEPT ![c] = "done"]
                 /\ out' = [out EXCEPT ![c] =
                              [NoAnswer EXCEPT !.found = Batch(c, B), !.code = "ok"]]
              \/ /\ UNCHANGED at
                 /\ out' = [out EXCEPT ![c] = [out[c] EXCEPT !.found = Batch(c, B)]]
<1>1. PICK B \in SUBSET todo[c] :
        /\ todo' = [todo EXCEPT ![c] = @ \ B]
        /\ IF B = todo[c]
             THEN Succeed(c, [NoAnswer EXCEPT !.found = Batch(c, B)])
             ELSE out' = [out EXCEPT ![c].found = Batch(c, B)] /\ UNCHANGED at
  BY DEF NextBatch, Batch
<1>2. at[c] = "cursor" /\ UNCHANGED <<docs, used, req, key, stray, seen, took>>
  BY DEF NextBatch
<1>3. Batch(c, B) \in SUBSET (Ids \X Documents)
  <2>1. out[c].found \in SUBSET (Ids \X Documents)
    BY DEF TypeInv, TypeOK, Answers
  <2>2. \A i \in DOMAIN docs : i \in Ids /\ docs[i] \in Documents
    BY DEF TypeInv, TypeOK, Collection
  <2>3. QED
    BY <2>1, <2>2 DEF Batch
<1>4. CASE B = todo[c]
  <2>1. Succeed(c, [NoAnswer EXCEPT !.found = Batch(c, B)])
    BY <1>1, <1>4
  <2>2. /\ at' = [at EXCEPT ![c] = "done"]
        /\ out' = [out EXCEPT ![c] = [NoAnswer EXCEPT !.found = Batch(c, B), !.code = "ok"]]
    BY <2>1 DEF Succeed, Finish, NoAnswer
  <2>3. QED
    BY <1>1, <1>2, <1>3, <1>4, <2>2
<1>5. CASE B # todo[c]
  <2>1. out' = [out EXCEPT ![c] = [out[c] EXCEPT !.found = Batch(c, B)]] /\ UNCHANGED at
    BY <1>1, <1>5 DEF TypeInv, TypeOK
  <2>2. QED
    BY <1>1, <1>2, <1>3, <2>1
<1>6. QED
  BY <1>4, <1>5

LEMMA CursorType ==
  ASSUME TypeInv, NEW c \in Calls, OpenCursor(c) \/ NextBatch(c) \/ CursorFails(c)
  PROVE  TypeOK' /\ PlaceInv(c)' /\ KeyInv(c)'
<1>1. /\ at[c] \in {"sent", "cursor"} /\ UNCHANGED <<docs, used, req, key, stray, seen, took>>
      /\ Is(c, "FindDocuments") /\ out[c].code = "none" /\ out[c].n = 0
      /\ took[c] = 0 /\ c \notin stray /\ req[c] \in Requests
  BY NoAnswerType DEF OpenCursor, NextBatch, CursorFails, TypeInv, PlaceInv
<1>2. /\ at' \in [Calls -> {"idle", "entered", "sent", "cursor", "done"}]
      /\ todo' \in [Calls -> SUBSET Ids] /\ out' \in [Calls -> Answers]
      /\ at'[c] = "done" \/ (at'[c] = "cursor" /\ out'[c].code = "none" /\ out'[c].n = 0)
  <2>1. CASE OpenCursor(c)
    BY <2>1, <1>1 DEF OpenCursor, TypeInv, TypeOK
  <2>2. CASE NextBatch(c)
    <3>1. PICK a \in Answers :
            /\ out' = [out EXCEPT ![c] = a] /\ todo' \in [Calls -> SUBSET Ids]
            /\ at' = [at EXCEPT ![c] = "done"] \/ (UNCHANGED at /\ a.code = "none" /\ a.n = 0)
      <4>1. \A F \in SUBSET (Ids \X Documents) :
              /\ [NoAnswer EXCEPT !.found = F, !.code = "ok"] \in Answers
              /\ [out[c] EXCEPT !.found = F] \in Answers
              /\ [out[c] EXCEPT !.found = F].code = "none"
              /\ [out[c] EXCEPT !.found = F].n = 0
        BY <1>1 DEF TypeInv, TypeOK, NoAnswer, Answers
      <4>2. PICK B \in SUBSET todo[c] :
              /\ todo' = [todo EXCEPT ![c] = @ \ B]
              /\ Batch(c, B) \in SUBSET (Ids \X Documents)
              /\ \/ /\ at' = [at EXCEPT ![c] = "done"]
                    /\ out' = [out EXCEPT ![c] =
                                 [NoAnswer EXCEPT !.found = Batch(c, B), !.code = "ok"]]
                 \/ /\ UNCHANGED at
                    /\ out' = [out EXCEPT ![c] = [out[c] EXCEPT !.found = Batch(c, B)]]
        BY <2>2, NextBatchStep
      <4>3. todo' \in [Calls -> SUBSET Ids]
        BY <4>2 DEF TypeInv, TypeOK
      <4>4. QED
        BY <4>1, <4>2, <4>3
    <3>2. at[c] = "cursor"
      BY <2>2 DEF NextBatch
    <3>3. QED
      BY <3>1, <3>2 DEF TypeInv, TypeOK
  <2>3. CASE CursorFails(c)
    BY <2>3, NoAnswerType DEF CursorFails, Fail, Finish, TypeInv, TypeOK
  <2>4. QED
    BY <1>1, <2>1, <2>2, <2>3
<1>3. TypeOK'
  BY <1>1, <1>2 DEF TypeInv, TypeOK
<1>4. PlaceInv(c)'
  BY <1>1, <1>2 DEF PlaceInv, Is
<1>5. KeyInv(c)'
  BY <1>1, <1>2 DEF KeyInv, Pending, Is, ById, Writing
<1>6. QED
  BY <1>3, <1>4, <1>5

\* Types, and what a call is made of at each place.
LEMMA TypeInvariance == Spec => []TypeInv
<1>1. Init => TypeInv
  <2> SUFFICES ASSUME Init PROVE TypeInv
    OBVIOUS
  <2>1. PICK O \in SUBSET Oids : docs \in [{ObjectID(o) : o \in O} -> Documents] /\ used = O
    BY DEF Init
  <2>2. Collection(docs)
    BY <2>1 DEF Collection, Ids
  <2>3. TypeOK
    BY <2>1, <2>2, NoAnswerType DEF Init, TypeOK
  <2>4. ASSUME NEW c \in Calls PROVE PlaceInv(c) /\ KeyInv(c)
    BY <2>4, NoAnswerType DEF Init, PlaceInv, KeyInv, Pending
  <2>5. QED
    BY <2>3, <2>4 DEF TypeInv
<1>2. TypeInv /\ [Next]_vars => TypeInv'
  <2> SUFFICES ASSUME TypeInv, [Next]_vars PROVE TypeInv'
    OBVIOUS
  <2>1. ASSUME NEW c \in Calls, Act(c) PROVE TypeInv'
    <3>1. TypeOK' /\ PlaceInv(c)' /\ KeyInv(c)'
      BY <2>1, ArriveType, RefuseType, SendType, SentType, LateType, CursorType DEF Act
    <3>2. \A d \in Calls : d # c => PlaceInv(d)' /\ KeyInv(d)'
      BY <2>1, OthersUntouched, UntouchedType
    <3>3. QED
      BY <3>1, <3>2 DEF TypeInv
  <2>2. CASE UNCHANGED vars
    BY <2>2 DEF vars, TypeInv, TypeOK, Collection, PlaceInv, KeyInv, Is, Pending, Issued,
       Custom, Generated
  <2>3. QED
    BY <2>1, <2>2 DEF Next, Act, Quiet
<1>3. QED
  BY <1>1, <1>2, PTL DEF Spec

\* The type invariant of Mongo.tla.
THEOREM TypeCorrect == Spec => []TypeOK
<1>1. TypeInv => TypeOK
  BY DEF TypeInv
<1>2. QED
  BY <1>1, TypeInvariance, PTL

-----------------------------------------------------------------------------
(* The life of a document.                                                 *)

StoreInv == OnceInv /\ EffectInv

\* All that the keys of a call can be.
LEMMA KeyKinds ==
  ASSUME TypeInv, NEW c \in Calls
  PROVE  /\ took[c] = 1 => key[c] # NoId /\ req[c].op \in Writing /\ ~Pending(c)
         /\ key[c] # NoId /\ req[c].op \in ById => key[c] \in Generated /\ key[c] \notin Custom
         /\ key[c] # NoId /\ Is(c, "InsertDocument") => key[c] \in Custom \union Issued
         /\ took[c] \in {0, 1}
<1>1. PlaceInv(c) /\ KeyInv(c) /\ took[c] \in {0, 1}
  BY DEF TypeInv, TypeOK
<1>2. took[c] = 1 => key[c] # NoId /\ req[c].op \in Writing /\ ~Pending(c)
  BY <1>1 DEF PlaceInv, KeyInv, Pending
<1>3. QED
  BY <1>1, <1>2, IdKinds DEF KeyInv

\* A step that leaves the collection and the keys alone.
LEMMA StoreStill ==
  ASSUME StoreInv, UNCHANGED <<docs, used, req, key, took>>,
         \A d \in Calls : Pending(d)' => Pending(d)
  PROVE  StoreInv'
<1>1. OnceInv'
  BY DEF StoreInv, OnceInv, Is, Custom, Issued, Generated
<1>2. EffectInv'
  BY DEF StoreInv, EffectInv, Is
<1>3. QED
  BY <1>1, <1>2 DEF StoreInv

\* A new call has no key.
LEMMA ArriveStore ==
  ASSUME TypeInv, StoreInv, NEW c \in Calls, Arrive(c)
  PROVE  StoreInv'
<1>1. /\ req[c] = NoRequest /\ key[c] = NoId /\ took[c] = 0 /\ ~Pending(c)'
      /\ UNCHANGED <<docs, used, key, took, stray>>
      /\ \A d \in Calls : d # c => req'[d] = req[d] /\ at'[d] = at[d]
  BY DEF Arrive, TypeInv, TypeOK, PlaceInv, Pending
<1>2. \A d \in Calls : d # c => (Pending(d)' <=> Pending(d))
  BY <1>1 DEF Pending
<1>3. NoId \notin Generated /\ NoRequest.op \notin Writing
  BY IdKinds, NoRequestType
<1>4. OnceInv'
  BY <1>1, <1>2, <1>3 DEF StoreInv, OnceInv, Is, Custom, Issued, Generated
<1>5. EffectInv'
  BY <1>1, <1>3 DEF StoreInv, EffectInv, Is, Writing
<1>6. QED
  BY <1>4, <1>5 DEF StoreInv

\* A call gets its key: one that others may have, too, or a new one.
LEMMA SendStore ==
  ASSUME TypeInv, StoreInv, NEW c \in Calls, Send(c)
  PROVE  StoreInv'
<1>1. /\ key[c] = NoId /\ took[c] = 0 /\ UNCHANGED <<docs, req, took, stray>>
      /\ \A d \in Calls : d # c => key'[d] = key[d] /\ at'[d] = at[d]
      /\ used \subseteq used' /\ Issued \subseteq Issued'
  BY OthersUntouched DEF Act, Untouched, Send, TypeInv, TypeOK, PlaceInv, Issued
<1>2. \A d \in Calls : d # c => (Pending(d)' <=> Pending(d))
  BY <1>1 DEF Pending
<1>3. \/ ~Is(c, "InsertDocument")
      \/ key'[c] \in Custom
      \/ key'[c] \in Generated /\ key'[c] \notin Issued
  <2>1. req[c] \in Requests /\ key \in [Calls -> Ids \union {NoId}] /\ TypeOK
    BY DEF Send, TypeInv, TypeOK, PlaceInv
  <2>2. SUFFICES ASSUME Is(c, "InsertDocument")
                 PROVE  key'[c] \in Custom \/ (key'[c] \in Generated /\ key'[c] \notin Issued)
    OBVIOUS
  <2>3. CASE req[c].id # NoId
    <3>1. key'[c] = StringID(req[c].id)
      BY <2>1, <2>2, <2>3 DEF Send, Is, ById, Writing
    <3>2. req[c].id \in Strings
      BY <2>1, <2>2, <2>3, RequestType DEF Is
    <3>3. QED
      BY <3>1, <3>2 DEF Custom
  <2>4. CASE req[c].id = NoId
    <3>1. PICK o \in Oids \ used : key'[c] = ObjectID(o)
      BY <2>1, <2>2, <2>4 DEF Send, Is, ById, Writing
    <3>2. QED
      BY <2>1, <3>1, IssuedKinds
  <2>5. QED
    BY <2>3, <2>4
<1>4. OnceInv'
  <2>1. \A d \in Calls : took[d] = 1 => d # c /\ key'[d] = key[d]
    BY <1>1
  <2>2. DOMAIN docs' \subseteq Custom \union Issued'
    BY <1>1 DEF StoreInv, OnceInv
  <2>3. \A d \in Calls : took'[d] = 1 => key'[d] \in Custom \union Issued'
    BY <1>1, <2>1 DEF StoreInv, OnceInv
  <2>4. ASSUME NEW d \in Calls, d # c, Is(c, "InsertDocument"), Is(d, "InsertDocument"),
               key'[c] = key'[d]
        PROVE  key'[c] \notin Generated
    <3>1. key[d] = NoId \/ key[d] \in Custom \union Issued
      BY <2>4, KeyKinds
    <3>2. QED
      BY <1>1, <1>3, <2>4, <3>1, IdKinds
  <2>5. \A d, e \in Calls :
          d # e /\ Is(d, "InsertDocument")' /\ Is(e, "InsertDocument")' /\ key'[d] = key'[e]
            => key'[d] \notin Generated
    BY <1>1, <2>4 DEF StoreInv, OnceInv, Is
  <2>6. Is(c, "InsertDocument") /\ key'[c] \in Generated =>
          key'[c] \notin DOMAIN docs /\ \A d \in Calls : took[d] = 1 => key'[d] # key'[c]
    BY <1>3, <2>1, IdKinds DEF StoreInv, OnceInv
  <2>7. \A e \in Calls :
          Pending(e)' /\ Is(e, "InsertDocument")' /\ key'[e] \in Generated =>
            key'[e] \notin DOMAIN docs' /\ \A d \in Calls : took'[d] = 1 => key'[d] # key'[e]
    BY <1>1, <1>2, <2>1, <2>6 DEF StoreInv, OnceInv, Is
  <2>8. QED
    BY <2>2, <2>3, <2>5, <2>7 DEF OnceInv, Custom, Generated
<1>5. EffectInv'
  <2>1. \A d \in Calls : took[d] = 1 => d # c /\ key'[d] = key[d] /\ key[d] # NoId
    BY <1>1, KeyKinds
  <2>2. QED
    BY <1>1, <2>1 DEF StoreInv, EffectInv, Is
<1>6. QED
  BY <1>4, <1>5 DEF StoreInv

\* A write is executed.
LEMMA AppliedOnce ==
  ASSUME TypeInv, StoreInv, NEW c \in Calls, Applied(c), UNCHANGED <<used, req, key>>,
         ~Pending(c)', \A d \in Calls : Pending(d)' => Pending(d)
  PROVE  OnceInv'
<1>1. /\ took' = [took EXCEPT ![c] = 1] /\ Pending(c) /\ key[c] # NoId
      /\ \A d \in Calls : took'[d] = 1 => d = c \/ took[d] = 1
  BY DEF Applied, TypeInv, TypeOK, KeyInv
<1>2. key[c] \in DOMAIN docs \/ (Is(c, "InsertDocument") /\ key[c] \in Custom \union Issued)
  BY <1>1, KeyKinds DEF Applied, Inserted, Updated, Removed
<1>3. DOMAIN docs' \subseteq DOMAIN docs \union {key[c]}
  BY DEF Applied, Others
<1>4. DOMAIN docs' \subseteq Custom \union Issued /\ key[c] \in Custom \union Issued
  BY <1>2, <1>3 DEF StoreInv, OnceInv
<1>5. ASSUME NEW d \in Calls, Pending(d)', Is(d, "InsertDocument"), key[d] \in Generated
      PROVE  /\ key[d] \notin DOMAIN docs'
             /\ \A e \in Calls : took'[e] = 1 => key[e] # key[d]
  <2>1. /\ Pending(d) /\ d # c /\ key[d] \notin DOMAIN docs
        /\ \A e \in Calls : took[e] = 1 => key[e] # key[d]
    BY <1>5 DEF StoreInv, OnceInv
  <2>2. key[d] # key[c]
    BY <1>2, <1>5, <2>1 DEF StoreInv, OnceInv
  <2>3. QED
    BY <1>1, <1>3, <2>1, <2>2
<1>6. QED
  BY <1>1, <1>4, <1>5 DEF StoreInv, OnceInv, Is, Custom, Issued, Generated

LEMMA AppliedEffect ==
  ASSUME TypeInv, StoreInv, NEW c \in Calls, Applied(c), UNCHANGED <<used, req, key>>
  PROVE  EffectInv'
<1>1. /\ took' = [took EXCEPT ![c] = 1] /\ Pending(c) /\ key[c] # NoId
      /\ \A d \in Calls : took'[d] = 1 => d = c \/ (d # c /\ took[d] = 1)
  BY DEF Applied, TypeInv, TypeOK, KeyInv
\* A document that was removed is not inserted again.
<1>2. ASSUME NEW d \in Calls, took[d] = 1, Is(c, "InsertDocument"), key[c] = key[d]
      PROVE  FALSE
  <2>1. key[d] \notin Generated
    BY <1>1, <1>2 DEF StoreInv, OnceInv
  <2>2. Is(d, "InsertDocument")
    BY <1>2, <2>1, KeyKinds DEF Writing, ById, Is
  <2>3. \A e \in Calls : Is(e, "DeleteDocument") => key[e] # key[d]
    BY <1>1, <1>2, <2>1, KeyKinds DEF ById, Is
  <2>4. key[d] \in DOMAIN docs
    BY <1>2, <2>2, <2>3 DEF StoreInv, EffectInv
  <2>5. QED
    BY <1>2, <2>4 DEF Applied, Inserted, Updated, Removed, Is
<1>3. \A d \in Calls :
        took'[d] = 1 /\ Is(d, "DeleteDocument") => key[d] \notin DOMAIN docs'
  <2> SUFFICES ASSUME NEW d \in Calls, took'[d] = 1, Is(d, "DeleteDocument")
               PROVE  key[d] \notin DOMAIN docs'
    OBVIOUS
  <2>1. CASE d = c
    BY <2>1 DEF Applied, Inserted, Updated, Removed, Is
  <2>2. CASE d # c
    <3>1. took[d] = 1 /\ key[d] \notin DOMAIN docs
      BY <1>1, <2>2 DEF StoreInv, EffectInv
    <3>2. key[d] # key[c]
      BY <1>2, <3>1 DEF Applied, Inserted, Updated, Removed
    <3>3. QED
      BY <3>1, <3>2 DEF Applied, Others
  <2>3. QED
    BY <2>1, <2>2
<1>4. \A d, e \in Calls :
        d # e /\ took'[d] = 1 /\ took'[e] = 1 /\ Is(d, "DeleteDocument") /\ Is(e, "DeleteDocument")
          => key[d] # key[e]
  <2>1. ASSUME NEW d \in Calls, took[d] = 1, Is(d, "DeleteDocument"), Is(c, "DeleteDocument")
        PROVE  key[d] # key[c]
    BY <2>1 DEF StoreInv, EffectInv, Applied, Inserted, Updated, Removed, Is
  <2>2. QED
    BY <1>1, <2>1 DEF StoreInv, EffectInv
<1>5. \A d \in Calls :
        took'[d] = 1 /\ Is(d, "InsertDocument") =>
          \/ key[d] \in DOMAIN docs'
          \/ \E e \in Calls : Is(e, "DeleteDocument") /\ key[e] = key[d]
  <2>1. ASSUME NEW d \in Calls, took[d] = 1, Is(d, "InsertDocument"), key[d] \in DOMAIN docs
        PROVE  key[d] \in DOMAIN docs' \/ (Is(c, "DeleteDocument") /\ key[c] = key[d])
    BY <2>1 DEF Applied, Others, Inserted, Updated, Removed
  <2>2. Is(c, "InsertDocument") => key[c] \in DOMAIN docs'
    BY DEF Applied, Inserted, Updated, Removed, Is
  <2>3. QED
    BY <1>1, <2>1, <2>2 DEF StoreInv, EffectInv
<1>6. ASSUME NEW d \in Calls, took'[d] = 1, req[d].op \in {"InsertDocument", "UpdateDocument"},
             key[d] \in DOMAIN docs'
      PROVE  DOMAIN req[d].body \subseteq DOMAIN docs'[key[d]]
  <2>1. CASE d = c /\ Is(c, "InsertDocument")
    BY <2>1 DEF Applied, Inserted, Updated, Removed, Is
  <2>2. ASSUME Is(c, "UpdateDocument")
        PROVE  /\ DOMAIN req[c].body \subseteq DOMAIN docs'[key[c]]
               /\ DOMAIN docs[key[c]] \subseteq DOMAIN docs'[key[c]]
               /\ key[c] \in DOMAIN docs
    <3>1. key[c] \in DOMAIN docs /\ docs'[key[c]] = Set(docs[key[c]], req[c].body)
      BY <2>2 DEF Applied, Inserted, Updated, Removed, Is
    <3>2. docs[key[c]] \in Documents /\ req[c].body \in Documents
      BY <1>1, <3>1, RequestType DEF TypeInv, TypeOK, Collection, PlaceInv, Pending
    <3>3. QED
      BY <3>1, <3>2, SetFields
  <2>3. CASE d # c /\ key[d] # key[c]
    <3>1. took[d] = 1 /\ key[d] \in DOMAIN docs /\ docs'[key[d]] = docs[key[d]]
      BY <1>1, <1>6, <2>3 DEF Applied, Others
    <3>2. QED
      BY <1>6, <3>1 DEF StoreInv, EffectInv
  <2>4. CASE d # c /\ key[d] = key[c]
    <3>1. took[d] = 1 /\ Is(c, "UpdateDocument")
      BY <1>1, <1>2, <1>6, <2>4 DEF Applied, Inserted, Updated, Removed
    <3>2. DOMAIN req[d].body \subseteq DOMAIN docs[key[d]]
      BY <1>6, <2>2, <2>4, <3>1 DEF StoreInv, EffectInv
    <3>3. QED
      BY <2>2, <2>4, <3>1, <3>2
  <2>5. QED
    BY <1>6, <2>1, <2>2, <2>3, <2>4 DEF Is
<1>7. QED
  BY <1>3, <1>4, <1>5, <1>6 DEF EffectInv, Is

\* Which steps may execute a command, and what is pending after any step.
LEMMA StepKinds ==
  ASSUME TypeInv, NEW c \in Calls, Act(c), ~Arrive(c), ~Send(c)
  PROVE  /\ UNCHANGED <<used, req, key>>
         /\ \A d \in Calls : Pending(d)' => Pending(d)
         /\ \/ UNCHANGED <<docs, seen, took>>
            \/ (at[c] = "sent" \/ c \in stray) /\ Execute(c) /\ ~Pending(c)'
<1>1. CASE Refuse(c)
  BY <1>1 DEF Refuse, Finish, Pending, TypeInv, TypeOK
<1>2. CASE Deliver(c) \/ LoseReply(c) \/ NoReply(c)
  <2>1. /\ at' = [at EXCEPT ![c] = "done"] /\ UNCHANGED <<used, req, key>>
        /\ at[c] = "sent" /\ c \notin stray
    BY <1>2, SentStep DEF Finish, TypeInv, PlaceInv
  <2>2. CASE UNCHANGED stray /\ Execute(c)
    BY <2>1, <2>2 DEF Pending, TypeInv, TypeOK
  <2>3. CASE UNCHANGED <<docs, seen, took>>
             /\ (stray' = stray \/ (stray' = stray \union {c} /\ req[c].op \in Writing))
    BY <2>1, <2>3 DEF Pending, TypeInv, TypeOK
  <2>4. QED
    BY <1>2, <2>2, <2>3, SentStep
<1>3. CASE OpenCursor(c)
  BY <1>3 DEF OpenCursor, Pending, TypeInv, TypeOK
<1>4. CASE NextBatch(c)
  <2>1. /\ UNCHANGED <<docs, used, req, key, stray, seen, took>>
        /\ at' = at \/ at' = [at EXCEPT ![c] = "done"]
    BY <1>4 DEF NextBatch, Succeed, Finish
  <2>2. QED
    BY <2>1 DEF Pending, TypeInv, TypeOK
<1>5. CASE CursorFails(c)
  BY <1>5 DEF CursorFails, Fail, Finish, Pending, TypeInv, TypeOK
<1>6. CASE Late(c)
  <2>1. /\ c \in stray /\ stray' = stray \ {c} /\ UNCHANGED <<used, req, at, key, todo, out>>
        /\ Execute(c) \/ UNCHANGED <<docs, took, seen>>
    BY <1>6 DEF Late
  <2>2. at[c] = "done"
    BY <2>1 DEF TypeInv, TypeOK, PlaceInv
  <2>3. QED
    BY <2>1, <2>2 DEF Pending
<1>7. QED
  BY <1>1, <1>2, <1>3, <1>4, <1>5, <1>6 DEF Act

LEMMA ActStore ==
  ASSUME TypeInv, StoreInv, NEW c \in Calls, Act(c)
  PROVE  StoreInv'
<1>1. CASE Arrive(c) \/ Send(c)
  BY <1>1, ArriveStore, SendStore
<1>2. CASE ~Arrive(c) /\ ~Send(c)
  <2>1. UNCHANGED <<used, req, key>> /\ \A d \in Calls : Pending(d)' => Pending(d)
    BY <1>2, StepKinds
  <2>2. CASE UNCHANGED <<docs, seen, took>>
    BY <2>1, <2>2, StoreStill
  <2>3. CASE (at[c] = "sent" \/ c \in stray) /\ Execute(c) /\ ~Pending(c)'
    <3>1. Applied(c) \/ UNCHANGED <<docs, took, seen>>
      BY <2>3, ExecuteStep
    <3>2. Applied(c) => StoreInv'
      BY <2>1, <2>3, AppliedOnce, AppliedEffect DEF StoreInv
    <3>3. QED
      BY <2>1, <3>1, <3>2, StoreStill
  <2>4. QED
    BY <1>2, <2>2, <2>3, StepKinds
<1>3. QED
  BY <1>1, <1>2

LEMMA StoreInvariance == Spec => []StoreInv
<1>1. Init => StoreInv
  BY DEF Init, StoreInv, OnceInv, EffectInv, Pending, Is, NoRequest, Issued
<1>2. TypeInv /\ StoreInv /\ [Next]_vars => StoreInv'
  <2> SUFFICES ASSUME TypeInv, StoreInv, [Next]_vars PROVE StoreInv'
    OBVIOUS
  <2>1. CASE UNCHANGED vars
    BY <2>1, StoreStill DEF vars, Pending
  <2>2. QED
    BY <2>1, ActStore DEF Next, Act, Quiet
<1>3. QED
  BY <1>1, <1>2, TypeInvariance, PTL DEF Spec

-----------------------------------------------------------------------------
(* Answers.                                                                *)

CallInv(c) == AnswerInv(c) /\ SeenInv(c) /\ FoundInv(c)

\* A call in progress sees the collection change, and nothing seen is forgotten.
Watched(d) ==
  /\ seen[d] \subseteq seen'[d]
  /\ InProgress(d) /\ docs \in seen[d] => docs' \in seen'[d]

LEMMA ActWatched ==
  ASSUME TypeInv, NEW c \in Calls, Act(c), NEW d \in Calls, d # c \/ ~Arrive(c)
  PROVE  Watched(d)
<1>1. CASE Arrive(c)
  BY <1>1 DEF Arrive, Watched, TypeInv, TypeOK
<1>2. CASE Send(c)
  BY <1>2 DEF Send, Watched
<1>3. CASE ~Arrive(c) /\ ~Send(c)
  <2>1. CASE UNCHANGED <<docs, seen, took>>
    BY <2>1 DEF Watched
  <2>2. CASE (at[c] = "sent" \/ c \in stray) /\ Execute(c)
    BY <2>2, ExecuteStep DEF Witnessed, Watched
  <2>3. QED
    BY <1>3, <2>1, <2>2, StepKinds
<1>4. QED
  BY <1>1, <1>2, <1>3

LEMMA UntouchedCall ==
  ASSUME TypeInv, NEW d \in Calls, CallInv(d), Untouched(d), Watched(d)
  PROVE  CallInv(d)'
<1> USE DEF Untouched, Is
<1>1. AnswerInv(d)'
  BY DEF CallInv, AnswerInv, Done
<1>2. SeenInv(d)'
  <2>1. InProgress(d)' => docs' \in seen'[d]
    BY DEF CallInv, SeenInv, InProgress, Watched
  <2>2. ASSUME NEW o \in ById, Done(d, o, "ok")'
        PROVE  /\ out'[d].n = 0 => \E D \in seen'[d] : key'[d] \notin DOMAIN D
               /\ out'[d].n = 1 /\ out'[d].m = 0 /\ Is(d, "UpdateDocument")' =>
                    \E D \in seen'[d] :
                      key'[d] \in DOMAIN D /\ Update(D, key'[d], req'[d].body) = D
    <3>1. Done(d, o, "ok")
      BY <2>2 DEF Done
    <3>2. QED
      BY <3>1 DEF CallInv, SeenInv, Watched
  <2>3. QED
    BY <2>1, <2>2 DEF SeenInv
<1>3. FoundInv(d)'
  BY DEF CallInv, FoundInv, Watched
<1>4. QED
  BY <1>1, <1>2, <1>3 DEF CallInv

\* Before it is answered, a call is where it is told to be.
LEMMA EnteredCall ==
  ASSUME TypeInv, NEW c \in Calls, Arrive(c) \/ Refuse(c) \/ Send(c), CallInv(c)
  PROVE  CallInv(c)'
<1>1. CASE Arrive(c)
  <2>1. at'[c] = "entered" /\ out'[c] = NoAnswer /\ docs' \in seen'[c]
    BY <1>1 DEF Arrive, TypeInv, TypeOK, PlaceInv
  <2>2. AnswerInv(c)' /\ SeenInv(c)' /\ FoundInv(c)'
    BY <2>1, NoAnswerType DEF AnswerInv, SeenInv, FoundInv, Done
  <2>3. QED
    BY <2>2 DEF CallInv
<1>2. CASE Refuse(c)
  <2>1. at'[c] = "done" /\ out'[c] = [NoAnswer EXCEPT !.code = "invalid"]
    BY <1>2 DEF Refuse, Finish, TypeInv, TypeOK
  <2>2. took'[c] = 0 /\ c \notin stray'
    BY <1>2 DEF Refuse, TypeInv, PlaceInv
  <2>3. out'[c].code = "invalid" /\ out'[c].n = 0
    BY <2>1 DEF NoAnswer
  <2>4. AnswerInv(c)' /\ SeenInv(c)' /\ FoundInv(c)'
    BY <2>1, <2>2, <2>3 DEF AnswerInv, SeenInv, FoundInv, Done, InProgress
  <2>5. QED
    BY <2>4 DEF CallInv
<1>3. CASE Send(c)
  <2>1. at'[c] = "sent" /\ out'[c] = NoAnswer /\ docs' \in seen'[c]
    BY <1>3 DEF Send, TypeInv, TypeOK, PlaceInv, CallInv, SeenInv, InProgress
  <2>2. AnswerInv(c)' /\ SeenInv(c)' /\ FoundInv(c)'
    BY <2>1, NoAnswerType DEF AnswerInv, SeenInv, FoundInv, Done
  <2>3. QED
    BY <2>2 DEF CallInv
<1>4. QED
  BY <1>1, <1>2, <1>3

\* The counts of an answer are those of the collection that the call has seen last.
LEMMA CountsSeen ==
  ASSUME TypeInv, NEW c \in Calls, docs \in seen[c]
  PROVE  /\ Counts(c)[1] \in {0, 1} /\ Counts(c)[2] \in {0, 1}
         /\ Counts(c)[1] = 0 => \E D \in seen[c] : key[c] \notin DOMAIN D
         /\ Counts(c)[1] = 1 => key[c] \in DOMAIN docs
         /\ Counts(c)[1] = 1 /\ Counts(c)[2] = 0 /\ Is(c, "UpdateDocument") =>
              \E D \in seen[c] : key[c] \in DOMAIN D /\ Update(D, key[c], req[c].body) = D
<1>1. Is(c, "UpdateDocument") => Written(c) = Update(docs, key[c], req[c].body)
  BY DEF Written, Is
<1>2. QED
  BY <1>1 DEF Counts

LEMMA SentCall ==
  ASSUME TypeInv, NEW c \in Calls, Deliver(c) \/ LoseReply(c) \/ NoReply(c), CallInv(c)
  PROVE  CallInv(c)'
<1>1. PICK a \in Answers : Finish(c, a) /\ Told(c, a)
  BY SentStep
<1>2. /\ at[c] = "sent" /\ UNCHANGED <<used, req, key, todo>> /\ docs \in seen[c]
      /\ c \notin stray /\ req[c] \in Requests
  BY SentStep DEF TypeInv, PlaceInv, CallInv, SeenInv, InProgress
<1>3. at'[c] = "done" /\ out'[c] = a
  BY <1>1 DEF Finish, TypeInv, TypeOK
<1>4. CASE a.code = "error"
  <2>1. a.n = 0
    BY <1>1, <1>4, NoAnswerType DEF Told, NoAnswer
  <2>2. AnswerInv(c)' /\ SeenInv(c)' /\ FoundInv(c)'
    BY <1>3, <1>4, <2>1 DEF AnswerInv, SeenInv, FoundInv, Done, InProgress
  <2>3. QED
    BY <2>2 DEF CallInv
<1>5. CASE a.code = "ok"
  <2>1. Execute(c)
    <3>1. Fail(c) => out'[c].code = "error"
      BY DEF Fail, Finish, TypeInv, TypeOK, NoAnswer
    <3>2. QED
      BY <1>3, <1>5, <3>1, SentStep
  <2>2. Applied(c) \/ (req[c].op \in Writing => ~Takes(c))
    BY <1>2, <2>1, ExecuteStep
  <2>3. Applied(c) => took'[c] = 1
    BY DEF Applied, TypeInv, TypeOK
  <2>4. seen[c] \subseteq seen'[c]
    BY <1>2, <2>1, ExecuteStep DEF Witnessed
  <2>5. AnswerInv(c)'
    <3>1. Is(c, "InsertDocument") => took'[c] = 1
      BY <1>1, <1>5, <2>2, <2>3 DEF Told, Is, Writing
    <3>2. a.n = 1 => took'[c] = 1
      <4>1. a.n = 1 => req[c].op \in Writing /\ Takes(c)
        BY <1>1, <1>2, <1>5, CountsSeen DEF Told, Is, Writing, ById, Takes
      <4>2. QED
        BY <2>2, <2>3, <4>1
    <3>3. QED
      BY <1>2, <1>3, <1>5, <3>1, <3>2 DEF AnswerInv, Done, Is
  <2>6. SeenInv(c)'
    <3>1. ASSUME NEW o \in ById, Done(c, o, "ok")'
          PROVE  /\ a.n = 0 => \E D \in seen'[c] : key[c] \notin DOMAIN D
                 /\ a.n = 1 /\ a.m = 0 /\ Is(c, "UpdateDocument") =>
                      \E D \in seen'[c] :
                        key[c] \in DOMAIN D /\ Update(D, key[c], req[c].body) = D
      <4>1. a.n = Counts(c)[1] /\ a.m = Counts(c)[2]
        BY <1>1, <1>2, <1>5, <3>1 DEF Told, Done, Is
      <4>2. QED
        BY <1>2, <2>4, <4>1, CountsSeen
    <3>2. ~InProgress(c)'
      BY <1>3 DEF InProgress
    <3>3. QED
      BY <1>2, <1>3, <3>1, <3>2 DEF SeenInv, Is
  <2>7. FoundInv(c)'
    <3>1. ~Is(c, "FindDocuments")
      <4>1. ~Fail(c)
        BY <1>3, <1>5 DEF Fail, Finish, TypeInv, TypeOK, NoAnswer
      <4>2. Deliver(c)
        BY <4>1 DEF LoseReply, NoReply, CommandFails
      <4>3. QED
        BY <4>2 DEF Deliver
    <3>2. QED
      BY <1>2, <3>1 DEF FoundInv, Is
  <2>8. QED
    BY <2>5, <2>6, <2>7 DEF CallInv
<1>6. QED
  BY <1>1, <1>4, <1>5 DEF Told

\* A batch is of the collection as it is, which the call sees.
LEMMA BatchFound ==
  ASSUME TypeInv, NEW c \in Calls, at[c] = "cursor", CallInv(c), NEW B \in SUBSET todo[c]
  PROVE  /\ \A p \in Batch(c, B) : \E D \in seen[c] : p[1] \in DOMAIN D /\ D[p[1]] = p[2]
         /\ \A i \in Ids \ (todo[c] \ B) :
              (\A D \in seen[c] : i \in DOMAIN D) => \E p \in Batch(c, B) : p[1] = i
<1>1. /\ docs \in seen[c]
      /\ \A p \in out[c].found : \E D \in seen[c] : p[1] \in DOMAIN D /\ D[p[1]] = p[2]
      /\ \A i \in Ids \ todo[c] :
           (\A D \in seen[c] : i \in DOMAIN D) => \E p \in out[c].found : p[1] = i
  BY DEF TypeInv, PlaceInv, CallInv, SeenInv, FoundInv, InProgress
<1>2. ASSUME NEW p \in Batch(c, B), p \notin out[c].found
      PROVE  p[1] \in DOMAIN docs /\ docs[p[1]] = p[2]
  BY <1>2 DEF Batch
<1>3. ASSUME NEW i \in B, i \in DOMAIN docs
      PROVE  \E p \in Batch(c, B) : p[1] = i
  <2>1. <<i, docs[i]>> \in Batch(c, B) /\ <<i, docs[i]>>[1] = i
    BY <1>3 DEF Batch
  <2>2. QED
    BY <2>1
<1>4. out[c].found \subseteq Batch(c, B)
  BY DEF Batch
<1>5. QED
  BY <1>1, <1>2, <1>3, <1>4

LEMMA CursorCall ==
  ASSUME TypeInv, NEW c \in Calls, OpenCursor(c) \/ NextBatch(c) \/ CursorFails(c), CallInv(c)
  PROVE  CallInv(c)'
<1>1. /\ UNCHANGED <<docs, used, req, key, stray, seen, took>> /\ docs \in seen[c]
      /\ Is(c, "FindDocuments") /\ out[c].code = "none" /\ out[c].n = 0 /\ ~Is(c, "InsertDocument")
      /\ \A o \in ById : ~Is(c, o)
  BY NoAnswerType DEF OpenCursor, NextBatch, CursorFails, TypeInv, PlaceInv, CallInv, SeenInv,
     InProgress, Is, ById
<1>2. CASE OpenCursor(c)
  <2>1. at'[c] = "cursor" /\ out'[c] = NoAnswer /\ todo'[c] = Ids
    BY <1>2 DEF OpenCursor, TypeInv, TypeOK, PlaceInv
  <2>2. out'[c].found = {}
    BY <2>1 DEF NoAnswer
  <2>3. AnswerInv(c)' /\ SeenInv(c)'
    BY <1>1, <2>1, NoAnswerType DEF AnswerInv, SeenInv, Done
  <2>4. FoundInv(c)'
    BY <2>1, <2>2 DEF FoundInv
  <2>5. QED
    BY <2>3, <2>4 DEF CallInv
<1>3. CASE NextBatch(c)
  <2>1. at[c] = "cursor"
    BY <1>3 DEF NextBatch
  <2>2. PICK B \in SUBSET todo[c] :
          /\ todo' = [todo EXCEPT ![c] = @ \ B]
          /\ \/ /\ B = todo[c] /\ at' = [at EXCEPT ![c] = "done"]
                /\ out' = [out EXCEPT ![c] =
                             [NoAnswer EXCEPT !.found = Batch(c, B), !.code = "ok"]]
             \/ /\ UNCHANGED at
                /\ out' = [out EXCEPT ![c] = [out[c] EXCEPT !.found = Batch(c, B)]]
    BY <1>3, NextBatchStep
  <2>3. /\ todo'[c] = todo[c] \ B /\ out'[c].found = Batch(c, B) /\ out'[c].n = 0
        /\ \/ at'[c] = "done" /\ out'[c].code = "ok" /\ todo'[c] = {}
           \/ at'[c] = "cursor" /\ out'[c].code = "none"
    <3>1. todo'[c] = todo[c] \ B
      BY <2>2 DEF TypeInv, TypeOK
    <3>2. CASE B = todo[c] /\ at' = [at EXCEPT ![c] = "done"]
               /\ out' = [out EXCEPT ![c] =
                            [NoAnswer EXCEPT !.found = Batch(c, B), !.code = "ok"]]
      BY <3>1, <3>2 DEF TypeInv, TypeOK, NoAnswer
    <3>3. CASE UNCHANGED at /\ out' = [out EXCEPT ![c] = [out[c] EXCEPT !.found = Batch(c, B)]]
      <4>1. out'[c] = [out[c] EXCEPT !.found = Batch(c, B)]
        BY <3>3 DEF TypeInv, TypeOK
      <4>2. out[c] \in Answers
        BY DEF TypeInv, TypeOK
      <4>3. out'[c].found = Batch(c, B) /\ out'[c].n = 0 /\ out'[c].code = "none"
        BY <1>1, <4>1, <4>2 DEF Answers
      <4>4. QED
        BY <2>1, <3>1, <3>3, <4>3
    <3>4. QED
      BY <2>2, <3>2, <3>3
  <2>4. AnswerInv(c)' /\ SeenInv(c)'
    BY <1>1, <2>3 DEF AnswerInv, SeenInv, Done, Is
  <2>5. FoundInv(c)'
    BY <1>1, <2>1, <2>3, BatchFound DEF FoundInv
  <2>6. QED
    BY <2>4, <2>5 DEF CallInv
<1>4. CASE CursorFails(c)
  <2>1. at'[c] = "done" /\ out'[c] = [NoAnswer EXCEPT !.code = "error"]
    BY <1>4 DEF CursorFails, Fail, Finish, TypeInv, TypeOK
  <2>2. out'[c].code = "error" /\ out'[c].n = 0
    BY <2>1 DEF NoAnswer
  <2>3. AnswerInv(c)' /\ SeenInv(c)' /\ FoundInv(c)'
    BY <2>1, <2>2 DEF AnswerInv, SeenInv, FoundInv, Done, InProgress
  <2>4. QED
    BY <2>3 DEF CallInv
<1>5. QED
  BY <1>2, <1>3, <1>4

\* A write that arrives late has been answered with an error.
LEMMA LateCall ==
  ASSUME TypeInv, NEW c \in Calls, Late(c), CallInv(c)
  PROVE  CallInv(c)'
<1>1. /\ at'[c] = "done" /\ out'[c].code = "error" /\ out'[c].n = 0
  BY DEF Late, TypeInv, PlaceInv
<1>2. AnswerInv(c)' /\ SeenInv(c)' /\ FoundInv(c)'
  BY <1>1 DEF AnswerInv, SeenInv, FoundInv, Done, InProgress
<1>3. QED
  BY <1>2 DEF CallInv

LEMMA Invariance == Spec => []Inv
<1>1. Init => \A c \in Calls : CallInv(c)
  BY NoAnswerType DEF Init, CallInv, AnswerInv, SeenInv, FoundInv, Done, InProgress
<1>2. TypeInv /\ (\A c \in Calls : CallInv(c)) /\ [Next]_vars => (\A c \in Calls : CallInv(c))'
  <2> SUFFICES ASSUME TypeInv, \A c \in Calls : CallInv(c), [Next]_vars, NEW d \in Calls
               PROVE  CallInv(d)'
    OBVIOUS
  <2>1. ASSUME NEW c \in Calls, Act(c), c # d PROVE CallInv(d)'
    BY <2>1, OthersUntouched, ActWatched, UntouchedCall
  <2>2. CASE Act(d)
    BY <2>2, EnteredCall, SentCall, CursorCall, LateCall DEF Act
  <2>3. CASE UNCHANGED vars
    BY <2>3, UntouchedCall DEF vars, Untouched, Watched
  <2>4. QED
    BY <2>1, <2>2, <2>3 DEF Next, Act, Quiet
<1>3. TypeInv /\ StoreInv /\ (\A c \in Calls : CallInv(c)) => Inv
  BY DEF Inv, StoreInv, CallInv
<1>4. QED
  BY <1>1, <1>2, <1>3, TypeInvariance, StoreInvariance, PTL DEF Spec

-----------------------------------------------------------------------------
(* The properties.                                                         *)

\* An acknowledged insert is in the collection until somebody asks for its deletion,
\* a count of one is this call's own effect, no document is deleted twice, and a
\* refused call does nothing, then or later (mongo.go:43-55 and 86-125).
THEOREM EffectMatchesReplyHolds == Spec => []EffectMatchesReply
<1>1. Inv => EffectMatchesReply
  <2> SUFFICES ASSUME Inv PROVE EffectMatchesReply
    OBVIOUS
  <2>1. \A c \in Calls : AnswerInv(c) /\ out[c].n \in {0, 1}
    BY DEF Inv, TypeInv, TypeOK, Answers
  <2>2. ASSUME NEW c \in Calls, Done(c, "InsertDocument", "ok")
        PROVE  took[c] = 1 /\ (key[c] \in DOMAIN docs
                 \/ \E d \in Calls : Is(d, "DeleteDocument") /\ key[d] = key[c])
    <3>1. took[c] = 1 /\ Is(c, "InsertDocument")
      BY <2>1, <2>2 DEF AnswerInv, Done
    <3>2. QED
      BY <3>1 DEF Inv, EffectInv
  <2>3. ASSUME NEW c \in Calls, NEW d \in Calls \ {c}, Done(c, "DeleteDocument", "ok"),
               Done(d, "DeleteDocument", "ok"), key[c] = key[d]
        PROVE  out[c].n + out[d].n <= 1
    <3>1. ~(took[c] = 1 /\ took[d] = 1)
      BY <2>3 DEF Inv, EffectInv, Done
    <3>2. out[c].n = 0 \/ out[d].n = 0
      BY <2>1, <2>3, <3>1 DEF AnswerInv
    <3>3. QED
      BY <2>1, <2>3, <3>2
  <2>4. QED
    BY <2>1, <2>2, <2>3 DEF EffectMatchesReply, AnswerInv
<1>2. QED
  BY <1>1, Invariance, PTL

\* A count of zero is given only for a document, or a change, that was absent at some
\* moment of the call (mongo.go:99-104 and 120-124).
THEOREM CountsExplainedHolds == Spec => []CountsExplained
<1>1. Inv => CountsExplained
  BY DEF Inv, SeenInv, CountsExplained
<1>2. QED
  BY <1>1, Invariance, PTL

\* FindDocuments answers nothing that was not there at some moment of the call, and
\* misses nothing that was there all the time (mongo.go:64-73).
THEOREM FindExplainedHolds == Spec => []FindExplained
<1>1. Inv => FindExplained
  <2> SUFFICES ASSUME Inv, NEW c \in Calls, Done(c, "FindDocuments", "ok")
               PROVE  FindExplained!(c)!2
    BY DEF FindExplained
  <2>1. FoundInv(c) /\ Is(c, "FindDocuments") /\ at[c] = "done" /\ out[c].code = "ok"
    BY DEF Inv, Done
  <2>2. QED
    BY <2>1 DEF FoundInv
<1>2. QED
  BY <1>1, Invariance, PTL

\* Every field that an answered insert or update wrote is there for as long as its
\* document is (mongo.go:100).
THEOREM FieldsKeptHolds == Spec => []FieldsKept
<1>1. Inv => FieldsKept
  <2> SUFFICES ASSUME Inv, NEW c \in Calls, key[c] \in DOMAIN docs,
                      \/ Done(c, "InsertDocument", "ok")
                      \/ Done(c, "UpdateDocument", "ok") /\ out[c].n = 1
               PROVE  DOMAIN req[c].body \subseteq DOMAIN docs[key[c]]
    BY DEF FieldsKept
  <2>1. took[c] = 1 /\ req[c].op \in {"InsertDocument", "UpdateDocument"}
    BY DEF Inv, AnswerInv, Done, Is
  <2>2. QED
    BY <2>1 DEF Inv, EffectInv
<1>2. QED
  BY <1>1, Invariance, PTL

\* A document whose "_id" is a text never changes and never goes: updates and
\* deletions name ObjectIDs (mongo.go:91 and 112), and an insertion finds it there.
THEOREM CustomIdsPermanentHolds == Spec => CustomIdsPermanent
<1> DEFINE Kept == \A i \in DOMAIN docs :
                     i[1] = "string" => i \in DOMAIN docs' /\ docs'[i] = docs[i]
<1>1. TypeInv /\ [Next]_vars => [Kept]_vars
  <2> SUFFICES ASSUME TypeInv, [Next]_vars, docs' # docs,
                      NEW i \in DOMAIN docs, i[1] = "string"
               PROVE  i \in DOMAIN docs' /\ docs'[i] = docs[i]
    OBVIOUS
  <2>1. PICK c \in Calls : Act(c)
    BY DEF Next, Act, Quiet, vars
  <2>2. ~Arrive(c) /\ ~Send(c)
    BY DEF Arrive, Send
  <2>3. Applied(c)
    BY <2>1, <2>2, StepKinds, ExecuteStep
  <2>4. i # key[c]
    <3>1. key[c] # NoId /\ i \notin Generated
      BY <2>3, IdKinds DEF Applied, TypeInv, KeyInv
    <3>2. QED
      BY <2>3, <3>1, KeyKinds DEF Applied, Inserted, Updated, Removed, Is, ById
  <2>5. QED
    BY <2>3, <2>4 DEF Applied, Others
<1>2. QED
  BY <1>1, TypeInvariance, PTL DEF Spec, CustomIdsPermanent

-----------------------------------------------------------------------------
(* Ids that are given out.                                                 *)

\* mongo_ids shows one id that InsertDocument gives and UpdateDocument refuses; in
\* fact no id of the driver's is ever taken back in the form in which the router gave
\* it (mongo.go:54 and 86-91, 107-112): whoever sends it is refused.
GivenIdsRefused ==
  \A c, d \in Calls :
    /\ Done(d, "InsertDocument", "ok") /\ req[d].id = NoId
    /\ req[c].op \in ById /\ req[c].id = out[d].id
    => at[c] = "entered" \/ (at[c] = "done" /\ out[c].code = "invalid")

\* What becomes of an id on its way through a call.
IdInv(c) ==
  /\ Is(c, "InsertDocument") /\ req[c].id = NoId /\ key[c] # NoId => key[c] \in Generated
  /\ Done(c, "InsertDocument", "ok") => out[c].id = Shown(key[c]) /\ key[c] # NoId
  /\ req[c].op \in ById /\ at[c] \notin {"entered", "done"} => IsHex(req[c].id)
  /\ req[c].op \in ById /\ at[c] = "done" => out[c].code = "invalid" \/ IsHex(req[c].id)

LEMMA EnteredId ==
  ASSUME TypeInv, NEW c \in Calls, IdInv(c), Arrive(c) \/ Refuse(c) \/ Send(c)
  PROVE  IdInv(c)'
<1>1. CASE Arrive(c)
  <2>1. at'[c] = "entered" /\ key'[c] = NoId
    BY <1>1 DEF Arrive, TypeInv, TypeOK, PlaceInv
  <2>2. QED
    BY <2>1 DEF IdInv, Done
<1>2. CASE Refuse(c)
  <2>1. /\ at'[c] = "done" /\ out'[c] = [NoAnswer EXCEPT !.code = "invalid"]
        /\ req' = req /\ key'[c] = NoId
    BY <1>2 DEF Refuse, Finish, TypeInv, TypeOK, PlaceInv
  <2>2. out'[c].code = "invalid"
    BY <2>1 DEF NoAnswer
  <2>3. QED
    BY <2>1, <2>2 DEF IdInv, Done
<1>3. CASE Send(c)
  <2>1. at'[c] = "sent" /\ req' = req /\ key \in [Calls -> Ids \union {NoId}]
    BY <1>3 DEF Send, TypeInv, TypeOK
  <2>2. req[c].op \in ById => IsHex(req[c].id)
    BY <1>3 DEF Send, ById, Writing, Is
  <2>3. ASSUME Is(c, "InsertDocument"), req[c].id = NoId
        PROVE  key'[c] \in Generated
    <3>1. PICK o \in Oids \ used : key' = [key EXCEPT ![c] = ObjectID(o)]
      BY <1>3, <2>3 DEF Send, ById, Writing, Is
    <3>2. QED
      BY <2>1, <3>1 DEF Generated
  <2>4. QED
    BY <2>1, <2>2, <2>3 DEF IdInv, Done, Is
<1>4. QED
  BY <1>1, <1>2, <1>3

LEMMA LaterId ==
  ASSUME TypeInv, NEW c \in Calls, IdInv(c), Act(c), ~Arrive(c), ~Refuse(c), ~Send(c)
  PROVE  IdInv(c)'
<1>1. CASE Deliver(c) \/ LoseReply(c) \/ NoReply(c)
  <2>1. PICK a \in Answers : Finish(c, a) /\ Told(c, a)
    BY <1>1, SentStep
  <2>2. /\ at[c] = "sent" /\ at'[c] = "done" /\ out'[c] = a /\ UNCHANGED <<req, key>>
    BY <1>1, <2>1, SentStep DEF Finish, TypeInv, TypeOK
  <2>3. Is(c, "InsertDocument") => key[c] # NoId
    BY <2>2 DEF TypeInv, KeyInv, Pending, Is, Writing
  <2>4. QED
    BY <2>1, <2>2, <2>3 DEF IdInv, Done, Told, Is
<1>2. CASE OpenCursor(c) \/ NextBatch(c) \/ CursorFails(c)
  <2>1. Is(c, "FindDocuments") /\ UNCHANGED <<req, key>>
    BY <1>2 DEF OpenCursor, NextBatch, CursorFails, TypeInv, PlaceInv
  <2>2. QED
    BY <2>1 DEF IdInv, Done, Is, ById
<1>3. CASE Late(c)
  BY <1>3 DEF Late, IdInv, Done, Is
<1>4. QED
  BY <1>1, <1>2, <1>3 DEF Act

LEMMA IdInvariance == Spec => [](\A c \in Calls : IdInv(c))
<1>1. Init => \A c \in Calls : IdInv(c)
  BY NoRequestType DEF Init, IdInv, Done, Is, ById, Writing
<1>2. TypeInv /\ (\A c \in Calls : IdInv(c)) /\ [Next]_vars => (\A c \in Calls : IdInv(c))'
  <2> SUFFICES ASSUME TypeInv, \A c \in Calls : IdInv(c), [Next]_vars, NEW d \in Calls
               PROVE  IdInv(d)'
    OBVIOUS
  <2>1. ASSUME UNCHANGED <<at[d], req[d], key[d], out[d]>> PROVE IdInv(d)'
    BY <2>1 DEF IdInv, Done, Is, Shown
  <2>2. ASSUME NEW c \in Calls, Act(c), c # d PROVE IdInv(d)'
    BY <2>1, <2>2, OthersUntouched DEF Untouched
  <2>3. CASE Act(d)
    BY <2>3, EnteredId, LaterId
  <2>4. CASE UNCHANGED vars
    BY <2>1, <2>4 DEF vars
  <2>5. QED
    BY <2>2, <2>3, <2>4 DEF Next, Act, Quiet
<1>3. QED
  BY <1>1, <1>2, TypeInvariance, PTL DEF Spec

\* No call that sends a generated id back as it was given gets past ObjectIDFromHex.
THEOREM GivenIdsRefusedHolds == Spec => []GivenIdsRefused
<1>1. TypeInv /\ (\A c \in Calls : IdInv(c)) => GivenIdsRefused
  <2> SUFFICES ASSUME TypeInv, \A c \in Calls : IdInv(c), NEW c \in Calls, NEW d \in Calls,
                      Done(d, "InsertDocument", "ok"), req[d].id = NoId,
                      req[c].op \in ById, req[c].id = out[d].id
               PROVE  at[c] = "entered" \/ (at[c] = "done" /\ out[c].code = "invalid")
    BY DEF GivenIdsRefused
  <2>1. key[d] \in Generated /\ out[d].id = Shown(key[d])
    BY DEF IdInv, Done
  <2>2. ~IsHex(req[c].id)
    BY <2>1 DEF Generated, ObjectID, Shown, Wrapped, IsHex
  <2>3. QED
    BY <2>2 DEF IdInv
<1>2. QED
  BY <1>1, TypeInvariance, IdInvariance, PTL
=============================================================================
