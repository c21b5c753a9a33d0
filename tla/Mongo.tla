-------------------------------- MODULE Mongo --------------------------------
(***************************************************************************)
(* internal/service/mongo.go over one collection of a MongoDB server.      *)
(* InsertDocument, UpdateDocument and DeleteDocument send one write each,  *)
(* FindDocuments drains a cursor whose batches see the collection at       *)
(* different moments, and every method gives up after five or ten seconds. *)
(* A write the driver has given up may still take effect; it never does so *)
(* twice (a standalone server's writes are not sent again, a replica set   *)
(* recognises the second one).  Ids change form on the way: BSON ObjectIDs *)
(* and strings inside, text on the wire.  The nil check that precedes      *)
(* every method is Router.tla's NotEnabled.                                *)
(***************************************************************************)
EXTENDS Integers, FiniteSets, Functions

CONSTANTS
  Calls,      \* the RPCs that may arrive
  Ops,        \* the methods they are for
  Oids,       \* bound: the ObjectIDs that exist or may be generated
  Names,      \* texts that are no ObjectID in any form
  CustomIds,  \* the texts callers put into a document's own "_id" field
  Fields,     \* the fields of a document, "_id" apart
  Vals        \* the values they take

Writing == {"InsertDocument", "UpdateDocument", "DeleteDocument"}
ById == {"UpdateDocument", "DeleteDocument"}
Methods == Writing \union {"FindDocuments", "ListDatabases", "ListCollections", "TestConnection"}

\* Texts on the wire: 65f1..., ObjectID("65f1..."), or anything else.
Hex(o) == <<"hex", o>>
Wrapped(o) == <<"wrapped", o>>
Text(n) == <<"text", n>>
Strings == {Hex(o) : o \in Oids} \union {Wrapped(o) : o \in Oids} \union {Text(n) : n \in Names}

\* BSON values of "_id".
ObjectID(o) == <<"oid", o>>
StringID(s) == <<"string", s>>
Ids == {ObjectID(o) : o \in Oids} \union {StringID(s) : s \in Strings}
NoId == <<"none">>

ASSUME OpsAssumption == Ops \subseteq Methods
ASSUME CustomAssumption == CustomIds \subseteq Strings
ASSUME FiniteAssumption == IsFiniteSet(Calls) /\ IsFiniteSet(Oids)

\* A document, and a $set document: the fields it has, and their values.
Documents == UNION {[F -> Vals] : F \in SUBSET Fields}
Collection(D) == DOMAIN D \subseteq Ids /\ \A i \in DOMAIN D : D[i] \in Documents
Empty == [f \in {} |-> f]

VARIABLES
  docs,   \* the collection: its documents by _id
  used,   \* ObjectIDs that have been generated
  req,    \* what each call asks for
  at,     \* where its handler is
  key,    \* the _id its command names
  todo,   \* what its cursor has not returned yet
  out,    \* what it answered
  stray,  \* writes given up by the driver and still on their way
  \* History, for the properties only:
  seen,   \* the collections there were since the call began
  took    \* how often each call's write took effect

vars == <<docs, used, req, at, key, todo, out, stray, seen, took>>

Requests ==
  [op : Ops \ Writing, id : {NoId}, body : {Empty}]
    \union [op : Ops \intersect {"InsertDocument"}, id : CustomIds \union {NoId}, body : Documents]
    \union [op : Ops \intersect {"UpdateDocument"}, id : Strings, body : Documents]
    \union [op : Ops \intersect {"DeleteDocument"}, id : Strings, body : {Empty}]
NoRequest == [op |-> "none", id |-> NoId, body |-> Empty]

\* n is matchedCount or deletedCount, m is modifiedCount.
NoAnswer == [code |-> "none", id |-> NoId, n |-> 0, m |-> 0, found |-> {}]
Answers == [code : {"none", "ok", "invalid", "error"}, id : Strings \union {NoId},
            n : {0, 1}, m : {0, 1}, found : SUBSET (Ids \X Documents)]

Is(c, o) == req[c].op = o

TypeOK ==
  /\ Collection(docs)
  /\ used \subseteq Oids
  /\ req \in [Calls -> Requests \union {NoRequest}]
  /\ at \in [Calls -> {"idle", "entered", "sent", "cursor", "done"}]
  /\ key \in [Calls -> Ids \union {NoId}]
  /\ todo \in [Calls -> SUBSET Ids]
  /\ out \in [Calls -> Answers]
  /\ stray \subseteq {c \in Calls : req[c].op \in Writing}
  /\ DOMAIN seen = Calls /\ \A c \in Calls : \A D \in seen[c] : Collection(D)
  /\ took \in [Calls -> {0, 1}]

Init ==
  /\ \E O \in SUBSET Oids :
       /\ docs \in [{ObjectID(o) : o \in O} -> Documents]
       /\ used = O
  /\ req = [c \in Calls |-> NoRequest]
  /\ at = [c \in Calls |-> "idle"]
  /\ key = [c \in Calls |-> NoId]
  /\ todo = [c \in Calls |-> {}]
  /\ out = [c \in Calls |-> NoAnswer]
  /\ stray = {}
  /\ seen = [c \in Calls |-> {}]
  /\ took = [c \in Calls |-> 0]

-----------------------------------------------------------------------------
(* Ids.                                                                    *)

\* fmt.Sprintf("%v", id), and the default case of toProtoValue.
Shown(i) == IF i[1] = "oid" THEN Wrapped(i[2]) ELSE i[2]

\* primitive.ObjectIDFromHex: twenty-four hexadecimal digits and nothing else.
IsHex(s) == s[1] = "hex"

\* Mutant of Target: an id is looked up as the string it is, if there is one.
TargetByType(s) == IF StringID(s) \in DOMAIN docs THEN StringID(s) ELSE ObjectID(s[2])

\* The _id that UpdateDocument and DeleteDocument look for.
Target(s) == ObjectID(s[2])

-----------------------------------------------------------------------------
(* The server.                                                             *)

\* Mutant of Set: the update document replaces the old one.
Replace(d, u) == u

\* $set: the fields of u are written over those of d.
Set(d, u) == [f \in DOMAIN d \union DOMAIN u |-> IF f \in DOMAIN u THEN u[f] ELSE d[f]]

\* Insertion, update and removal, on a collection D.
Insert(D, i, d) == [j \in DOMAIN D \union {i} |-> IF j = i THEN d ELSE D[j]]
Update(D, i, u) == [D EXCEPT ![i] = Set(@, u)]
Remove(D, i) == Restrict(D, DOMAIN D \ {i})

\* Whether a call's write finds what it needs.
Takes(c) == IF Is(c, "InsertDocument") THEN key[c] \notin DOMAIN docs ELSE key[c] \in DOMAIN docs

\* What the write of a call makes of the collection.
Written(c) ==
  CASE Is(c, "InsertDocument") -> Insert(docs, key[c], req[c].body)
    [] Is(c, "UpdateDocument") -> Update(docs, key[c], req[c].body)
    [] OTHER -> Remove(docs, key[c])

InProgress(c) == at[c] \in {"entered", "sent", "cursor"}

\* The server executes the command of a call; the calls in progress witness it.
Execute(c) ==
  IF req[c].op \in Writing /\ Takes(c)
    THEN /\ docs' = Written(c)
         /\ took' = [took EXCEPT ![c] = @ + 1]
         /\ seen' = [d \in Calls |-> IF InProgress(d) THEN seen[d] \union {docs'} ELSE seen[d]]
    ELSE UNCHANGED <<docs, took, seen>>

\* A write the driver had given up reaches the server after all, or never does.
Late(c) ==
  /\ c \in stray
  /\ stray' = stray \ {c}
  /\ Execute(c) \/ UNCHANGED <<docs, took, seen>>
  /\ UNCHANGED <<used, req, at, key, todo, out>>

-----------------------------------------------------------------------------
(* The methods.                                                            *)

Arrive(c) ==
  /\ at[c] = "idle"
  /\ \E r \in Requests : req' = [req EXCEPT ![c] = r]
  /\ at' = [at EXCEPT ![c] = "entered"]
  /\ seen' = [seen EXCEPT ![c] = {docs}]
  /\ UNCHANGED <<docs, used, key, todo, out, stray, took>>

Finish(c, a) ==
  /\ at' = [at EXCEPT ![c] = "done"]
  /\ out' = [out EXCEPT ![c] = a]

Succeed(c, a) == Finish(c, [a EXCEPT !.code = "ok"])
Fail(c) == Finish(c, [NoAnswer EXCEPT !.code = "error"])

\* "invalid ID format", before anything is sent.
Refuse(c) ==
  /\ at[c] = "entered"
  /\ req[c].op \in ById
  /\ ~IsHex(req[c].id)
  /\ Finish(c, [NoAnswer EXCEPT !.code = "invalid"])
  /\ UNCHANGED <<docs, used, req, key, todo, stray, seen, took>>

\* The driver sends the command.  It gives a document without "_id" a new ObjectID;
\* an "_id" that came over the wire is a string.
Send(c) ==
  /\ at[c] = "entered"
  /\ at' = [at EXCEPT ![c] = "sent"]
  /\ \/ /\ req[c].op \in ById /\ IsHex(req[c].id)
        /\ key' = [key EXCEPT ![c] = Target(req[c].id)]
        /\ UNCHANGED used
     \/ /\ Is(c, "InsertDocument") /\ req[c].id # NoId
        /\ key' = [key EXCEPT ![c] = StringID(req[c].id)]
        /\ UNCHANGED used
     \/ /\ Is(c, "InsertDocument") /\ req[c].id = NoId
        /\ \E o \in Oids \ used :
             /\ key' = [key EXCEPT ![c] = ObjectID(o)]
             /\ used' = used \union {o}
     \/ req[c].op \notin Writing /\ UNCHANGED <<key, used>>
  /\ UNCHANGED <<docs, req, todo, out, stray, seen, took>>

\* Mutant of Counts: the two counts of an UpdateResult in the wrong order.
CountsSwapped(c) ==
  LET here == key[c] \in DOMAIN docs
      n == IF here THEN 1 ELSE 0
      m == IF here /\ Is(c, "UpdateDocument") /\ Written(c) # docs THEN 1 ELSE 0
  IN  IF Is(c, "UpdateDocument") THEN <<m, n>> ELSE <<n, m>>

\* matchedCount and modifiedCount, or deletedCount.
Counts(c) ==
  LET here == key[c] \in DOMAIN docs IN
    << IF here THEN 1 ELSE 0,
       IF here /\ Is(c, "UpdateDocument") /\ Written(c) # docs THEN 1 ELSE 0 >>

\* The reply to a command arrives.
Reply(c) ==
  /\ CASE Is(c, "InsertDocument") /\ Takes(c) -> Succeed(c, [NoAnswer EXCEPT !.id = Shown(key[c])])
       [] Is(c, "InsertDocument") /\ ~Takes(c) -> Fail(c)   \* duplicate _id
       [] req[c].op \in ById -> Succeed(c, [NoAnswer EXCEPT !.n = Counts(c)[1], !.m = Counts(c)[2]])
       [] OTHER -> Succeed(c, NoAnswer)

Deliver(c) ==
  /\ at[c] = "sent"
  /\ ~Is(c, "FindDocuments")
  /\ Execute(c)
  /\ Reply(c)
  /\ UNCHANGED <<used, req, key, todo, stray>>

\* Mutant of CommandFails: an error of InsertOne is logged, not returned.
CommandFailsQuietly(c) ==
  IF Is(c, "InsertDocument") THEN Succeed(c, [NoAnswer EXCEPT !.id = Shown(key[c])]) ELSE Fail(c)

\* Every method returns the driver's error.
CommandFails(c) == Fail(c)

\* The server executes the command, and its reply is lost.
LoseReply(c) ==
  /\ at[c] = "sent"
  /\ Execute(c)
  /\ CommandFails(c)
  /\ UNCHANGED <<used, req, key, todo, stray>>

\* Mutant of GivenUp: reads stay on the server's list too.
GivenUpAll(c) == {stray, stray \union {c}}

\* What may still be on its way once the driver has given a command up.
GivenUp(c) == {stray, IF req[c].op \in Writing THEN stray \union {c} ELSE stray}

\* No reply: the server refuses or is gone, or the context has ended.
NoReply(c) ==
  /\ at[c] = "sent"
  /\ stray' \in GivenUp(c)
  /\ CommandFails(c)
  /\ UNCHANGED <<docs, used, req, key, todo, seen, took>>

\* Find's reply: a cursor.
OpenCursor(c) ==
  /\ at[c] = "sent"
  /\ Is(c, "FindDocuments")
  /\ at' = [at EXCEPT ![c] = "cursor"]
  /\ todo' = [todo EXCEPT ![c] = Ids]
  /\ UNCHANGED <<docs, used, req, key, out, stray, seen, took>>

\* cursor.All takes the next batch, and ends with the last one.
NextBatch(c) ==
  /\ at[c] = "cursor"
  /\ \E B \in SUBSET todo[c] \ {{}} :
       LET batch == {<<i, docs[i]>> : i \in B \intersect DOMAIN docs}
           found == out[c].found \union batch
       IN /\ todo' = [todo EXCEPT ![c] = @ \ B]
          /\ IF B = todo[c]
               THEN Succeed(c, [NoAnswer EXCEPT !.found = found])
               ELSE out' = [out EXCEPT ![c].found = found] /\ UNCHANGED at
  /\ UNCHANGED <<docs, used, req, key, stray, seen, took>>

\* Mutant of CursorFails: what the cursor has returned so far is the answer.
CursorFailsQuietly(c) ==
  /\ at[c] = "cursor"
  /\ todo' = [todo EXCEPT ![c] = {}]
  /\ Succeed(c, out[c])
  /\ UNCHANGED <<docs, used, req, key, stray, seen, took>>

\* ... or returns its error, and nothing of what it has read.
CursorFails(c) ==
  /\ at[c] = "cursor"
  /\ todo' = [todo EXCEPT ![c] = {}]
  /\ Fail(c)
  /\ UNCHANGED <<docs, used, req, key, stray, seen, took>>

\* Nothing more to do: every call is answered, or waits for an ObjectID beyond Oids.
Quiet ==
  /\ \A c \in Calls : at[c] = "done" \/ (at[c] = "entered" /\ Is(c, "InsertDocument") /\ used = Oids)
  /\ UNCHANGED vars

Next ==
  \/ \E c \in Calls : \/ Arrive(c) \/ Refuse(c) \/ Send(c) \/ Deliver(c) \/ LoseReply(c)
                      \/ NoReply(c) \/ OpenCursor(c) \/ NextBatch(c) \/ CursorFails(c) \/ Late(c)
  \/ Quiet

Spec == Init /\ [][Next]_vars

-----------------------------------------------------------------------------
(* Properties.                                                             *)

Done(c, o, code) == Is(c, o) /\ at[c] = "done" /\ out[c].code = code

\* What an answer says of the collection: an acknowledged insert is there until
\* somebody asks for its deletion, a count of one means that this very call took
\* effect, no document is deleted twice, and a refused call does nothing, then or
\* later (mongo.go:43-55 and 86-125).
EffectMatchesReply ==
  \A c \in Calls :
    /\ Done(c, "InsertDocument", "ok") =>
         /\ took[c] = 1
         /\ key[c] \in DOMAIN docs \/ \E d \in Calls : Is(d, "DeleteDocument") /\ key[d] = key[c]
    /\ at[c] = "done" /\ out[c].n = 1 => took[c] = 1
    /\ out[c].code = "invalid" => took[c] = 0 /\ c \notin stray
    /\ \A d \in Calls \ {c} :
         Done(c, "DeleteDocument", "ok") /\ Done(d, "DeleteDocument", "ok")
           /\ key[c] = key[d] => out[c].n + out[d].n <= 1

\* matchedCount or deletedCount zero is given only for a document that was absent at
\* some moment of the call, modifiedCount zero with a match only for an update that
\* changed nothing at some moment of it (mongo.go:99-104 and 120-124).
CountsExplained ==
  \A c \in Calls :
    (\E o \in ById : Done(c, o, "ok")) =>
      /\ out[c].n = 0 => \E D \in seen[c] : key[c] \notin DOMAIN D
      /\ out[c].n = 1 /\ out[c].m = 0 /\ Is(c, "UpdateDocument") =>
           \E D \in seen[c] : key[c] \in DOMAIN D /\ Update(D, key[c], req[c].body) = D

\* FindDocuments answers no document that was not there at some moment of the call,
\* and leaves none out that was there all the time: an error of the cursor is an
\* error of the call, unlike the rows of PostgreSQL (mongo.go:64-73).
FindExplained ==
  \A c \in Calls :
    Done(c, "FindDocuments", "ok") =>
      /\ \A p \in out[c].found : \E D \in seen[c] : p[1] \in DOMAIN D /\ D[p[1]] = p[2]
      /\ \A i \in Ids : (\A D \in seen[c] : i \in DOMAIN D) => \E p \in out[c].found : p[1] = i

\* Updates of different fields do not undo each other: every field that an answered
\* insert or update wrote is there for as long as its document is (mongo.go:100).
FieldsKept ==
  \A c \in Calls :
    /\ Done(c, "InsertDocument", "ok") \/ (Done(c, "UpdateDocument", "ok") /\ out[c].n = 1)
    /\ key[c] \in DOMAIN docs
    => DOMAIN req[c].body \subseteq DOMAIN docs[key[c]]

\* A document inserted with an "_id" of its own, even one that reads like an
\* ObjectID, is out of reach of UpdateDocument and DeleteDocument, which look for
\* ObjectIDs only (mongo.go:91 and 112): it never changes and never goes.
CustomIdsPermanent ==
  [][\A i \in DOMAIN docs : i[1] = "string" => i \in DOMAIN docs' /\ docs'[i] = docs[i]]_vars

\* docs/api.md:284 shows InsertDocument's insertedId as the hexadecimal digits that
\* UpdateDocument and DeleteDocument take (docs/api.md:321 and 342): the id of a
\* document that was there before the call began is not "invalid" in the form in
\* which the router gave it.  The code breaks it: see the run mongo_ids.
InsertedIdIsAnId ==
  \A c, d \in Calls :
    /\ Done(d, "InsertDocument", "ok") /\ req[d].id = NoId
    /\ req[c].id = out[d].id
    /\ \A D \in seen[c] : key[d] \in DOMAIN D
    => out[c].code # "invalid"
=============================================================================
