----------------------------- MODULE Workspace -----------------------------
(***************************************************************************)
(* Several replicas of one application start together: core/go New and     *)
(* InitWorkspace, then PgInsert and PgQuery, against a router that is      *)
(* being started (Config), over a channel (Transport), on one PostgreSQL   *)
(* server.  The router answers an RPC only while it serves, to clients the *)
(* handshake lets in; either end, or the channel, may go away at any time. *)
(***************************************************************************)
EXTENDS Config, Transport, Convert, FiniteSets

CONSTANTS
  Replicas,   \* the processes of the application
  Options,    \* the connection options they may be given
  Inputs,     \* the values PgInsert may be given
  PgPort      \* where PostgreSQL listens

ASSUME InputsAssumption ==
  Inputs \subseteq {"string", "int", "int64", "float64", "nil"} \X Int

VARIABLES
  pg,       \* dbManager.PostgresDB is set
  end,      \* the application's end of the channel: all replicas have the same
  at,       \* where each replica is
  via,      \* which start of the router its creation goes through
  said,     \* what InitWorkspace printed
  base,     \* the application's database exists, with its table
  stray,    \* a creation is under way whose caller is gone
  valid,    \* its name is an identifier
  column,   \* the type of the table's column
  row,      \* the value last stored in it, or Nothing
  \* History, for the properties only:
  given,    \* the value that row was made from
  got,      \* what PgQuery last returned, and the value it should stand for
  admitted, \* clients served: whether the operator had asked for certificates, and
            \* whose they presented
  trouble   \* replicas that lost their answer, that PostgreSQL or their own name was
            \* denied, whose creation met another one, or failed in PostgreSQL

seenVars == <<given, got, admitted, trouble>>
fixed == <<end, valid, column>>
vars == <<configVars, pg, at, via, said, base, stray, row, seenVars, fixed>>

Nothing == <<"nothing", 0>>

WorkspaceTypeOK ==
  /\ ConfigTypeOK
  /\ {pg, base, stray, valid} \subseteq BOOLEAN
  /\ at \in [Replicas -> {"new", "connected", "creating", "ready", "failed"}]
  /\ via \in [Replicas -> 0..MaxStarts]
  /\ said \in [Replicas -> {"nothing", "ok", "quiet", "warn"}]
  /\ row[1] \in {"nothing", IF column = "text" THEN "string" ELSE "int64"}
  /\ pg => proc = "serving" /\ cfg.enabled = "true"

Init ==
  /\ ConfigInit
  /\ pg = FALSE /\ valid \in BOOLEAN /\ column \in {"text", "bigint"}
  /\ base \in {FALSE, valid} /\ stray = FALSE
  /\ end \in {Connect(o) : o \in Options}
  /\ at = [r \in Replicas |-> "new"]
  /\ via = [r \in Replicas |-> 0]
  /\ said = [r \in Replicas |-> "nothing"]
  /\ row = Nothing /\ given = Nothing /\ got = [in |-> Nothing, out |-> Nothing]
  /\ admitted = {} /\ trouble = {}

-----------------------------------------------------------------------------
(* The router.                                                             *)

\* Mutant of Open: PostgreSQL is opened whatever its section says.
OpenAlways ==
  /\ proc = "loaded"
  /\ IF Build(cfg).kind = "error" THEN proc' = "down" /\ UNCHANGED pg
     ELSE proc' = "serving" /\ pg' \in {FALSE, cfg.port = PgPort}
  /\ UNCHANGED <<disk, env, cfg, starts, placed, configHistory, at, via, said, base, stray,
                 row, seenVars, fixed>>

\* db.New, then Loader.Build, then Serve: PostgreSQL is there if it is enabled, the
\* port is right and the one ping succeeds; a broken TLS section ends the process.
Open ==
  /\ proc = "loaded"
  /\ IF Build(cfg).kind = "error" THEN proc' = "down" /\ UNCHANGED pg
     ELSE /\ proc' = "serving"
          /\ pg' \in {FALSE, cfg.enabled = "true" /\ cfg.port = PgPort}
  /\ UNCHANGED <<disk, env, cfg, starts, placed, configHistory, at, via, said, base, stray,
                 row, seenVars, fixed>>

\* The operator has asked for verified clients, as docs/config.md:69-124 describes it:
\* TLS is on and a CA named, in the file or by a variable that replaces it, and
\* client_auth is given there and names no weaker policy.  A CA alone does not ask
\* ("omit for server-only TLS"), nor does a file whose TLS a variable has replaced by
\* a word that neither the docs nor config.go:144 takes for "on".
Asked ==
  /\ env.tls = "true" \/ env.tls = "1" \/ (env.tls = "" /\ from.tls)
  /\ {env.ca, from.ca} # {""}
  /\ \/ env.auth \notin {"", "none", "request"}
     \/ env.auth = "" /\ from.auth \notin {"", "none", "request"}

\* The router takes an RPC of the application.
Serves == proc = "serving" /\ Handshake(Build(cfg), end)
Admit ==
  /\ Serves
  /\ admitted' = admitted \union
       {[asked |-> Asked, cert |-> IF end.kind = "tls" THEN end.cert ELSE "no"]}

-----------------------------------------------------------------------------
(* core/go.                                                                *)

\* New: Vault hands out the certificate and the channel is made, or New fails.  (core/go
\* itself gives Connect a certificate and its key only; Options may hold what other
\* users of the connector choose.)
New(r) ==
  /\ at[r] = "new"
  /\ at' = [at EXCEPT ![r] = IF end = Failed THEN "failed" ELSE "connected"]
  /\ UNCHANGED <<configVars, pg, via, said, base, stray, row, seenVars, fixed>>

\* Mutant of Verdict: a router without PostgreSQL is passed over in silence.
VerdictSilent(phrases) ==
  IF phrases \cap {"already exists", "PostgreSQL not enabled"} # {} THEN "quiet" ELSE "warn"

\* Mutant of Verdict: the text is searched for the name of the PostgreSQL error.
VerdictByCode(phrases) == IF "duplicate_database" \in phrases THEN "quiet" ELSE "warn"

\* What InitWorkspace makes of an error, of whose text only a few phrases matter:
\* strings.Contains(..., "already exists").
Verdict(phrases) == IF "already exists" \in phrases THEN "quiet" ELSE "warn"

Say(r, what) ==
  /\ said' = [said EXCEPT ![r] = what]
  /\ at' = [at EXCEPT ![r] = "ready"]

\* The router has no PostgreSQL, or refuses the name.
Denied(r) ==
  /\ \/ ~pg /\ Say(r, Verdict({"PostgreSQL not enabled"}))
     \/ pg /\ ~valid /\ Say(r, Verdict({"invalid database name"}))
  /\ trouble' = trouble \union {r}
  /\ UNCHANGED <<via, base>>

\* CREATE DATABASE fails before it has begun, because the name is taken or for
\* any other reason: PostgreSQL is gone, has no connection or no permission to give.
Rejected(r) ==
  /\ pg /\ valid
  /\ \/ base /\ Say(r, Verdict({"already exists"})) /\ UNCHANGED trouble
     \/ Say(r, Verdict({"permission denied"})) /\ trouble' = trouble \union {r}
  /\ UNCHANGED <<via, base>>

\* It begins to create the database, perhaps while others are at it.
Begins(r) ==
  /\ pg /\ valid /\ ~base
  /\ at' = [at EXCEPT ![r] = "creating"]
  /\ via' = [via EXCEPT ![r] = starts]
  /\ LET others == {q \in Replicas : at[q] = "creating"} IN
     trouble' = trouble \union others \union IF others # {} \/ stray THEN {r} ELSE {}
  /\ UNCHANGED <<said, base>>

InitWorkspace(r) ==
  /\ at[r] = "connected" /\ Admit
  /\ Denied(r) \/ Rejected(r) \/ Begins(r)
  /\ UNCHANGED <<configVars, pg, stray, row, given, got, fixed>>

\* A creation ends: the first to finish wins; one overtaken by it gets "duplicate key
\* value violates unique constraint", which does not say "already exists".  Any other
\* error may come before or after the commit; and after it the driver may start the
\* statement over (Postgres.StartOver), which then finds the name taken.
Created(r) ==
  /\ at[r] = "creating" /\ proc = "serving" /\ via[r] = starts
  /\ \/ ~base /\ base' = TRUE /\ Say(r, "ok") /\ UNCHANGED trouble
     \/ base /\ Say(r, Verdict({"duplicate key"})) /\ UNCHANGED <<base, trouble>>
     \/ base' \in {base, TRUE} /\ Say(r, Verdict({"bad connection"})) /\ trouble' = trouble \union {r}
     \/ base' = TRUE /\ Say(r, Verdict({"already exists"})) /\ UNCHANGED trouble
  /\ UNCHANGED <<configVars, pg, via, stray, row, given, got, admitted, fixed>>

\* The RPC gets no answer: no router, no handshake, a broken channel; a creation
\* that was under way goes on without its caller ...
Unanswered(r) ==
  /\ at[r] \in {"connected", "creating"}
  /\ stray' = (stray \/ at[r] = "creating")
  /\ Say(r, "warn")
  /\ trouble' = trouble \union {r}
  /\ UNCHANGED <<configVars, pg, via, base, row, given, got, admitted, fixed>>

\* ... and is finished some time, or given up.
StrayEnds ==
  /\ stray /\ stray' = FALSE
  /\ base' \in {base, TRUE}
  /\ UNCHANGED <<configVars, pg, at, via, said, row, seenVars, fixed>>

\* PgInsert: the value is packed, unpacked by the router, and stored if there is a
\* PostgreSQL and a database with the table, and its column can read the value; or the
\* call fails without having done so.
PgInsert ==
  /\ \E r \in Replicas : at[r] = "ready"
  /\ Admit
  /\ \/ /\ pg /\ base
        /\ \E v \in Inputs :
             LET w == fromProtoValue(Pack(v)) IN
             Fits(column, w) /\ row' = Stored(column, w) /\ given' = v
     \/ UNCHANGED <<row, given>>
  /\ UNCHANGED <<configVars, pg, at, via, said, base, stray, got, trouble, fixed>>

\* PgQuery reads the row back, or fails.
PgQuery ==
  /\ \E r \in Replicas : at[r] = "ready"
  /\ Admit
  /\ \/ pg /\ row # Nothing /\ got' = [in |-> given, out |-> Unpack(toProtoValue(row))]
     \/ UNCHANGED got
  /\ UNCHANGED <<configVars, pg, at, via, said, base, stray, row, given, trouble, fixed>>

\* The steps of Config; a router that stops takes its client of PostgreSQL along.
Router ==
  /\ ConfigNext
  /\ pg' = (pg /\ proc' = "serving")
  /\ UNCHANGED <<at, via, said, base, stray, row, seenVars, fixed>>

Next ==
  \/ Router \/ Open \/ StrayEnds \/ PgInsert \/ PgQuery
  \/ \E r \in Replicas : New(r) \/ InitWorkspace(r) \/ Created(r) \/ Unanswered(r)

Spec == Init /\ [][Next]_vars

-----------------------------------------------------------------------------
(* Properties.                                                             *)

\* A replica that starts without a warning has its database (client.go:95-105,
\* "Safe for startup"), whatever the other replicas and the router did meanwhile;
\* and no two replicas both claim to have provisioned it.
QuietMeansReady ==
  /\ \A r \in Replicas : said[r] \in {"ok", "quiet"} => base
  /\ Cardinality({r \in Replicas : said[r] = "ok"}) <= 1

\* A warning is given for a reason: the answer was lost, two creations met (one of
\* them perhaps left behind by a caller that is gone), the name is no identifier,
\* PostgreSQL was not enabled in the router, or it failed the statement.  A replica
\* that only finds the database there stays silent, whoever made it and whether or not
\* its maker was told.
WarnExplained == \A r \in Replicas : said[r] = "warn" => r \in trouble

\* Where the operator has asked for verified clients, in the file, the environment
\* or one half in each, only clients with a certificate of his CA are served, through
\* restarts, rewritten files and however he has misspelt client_auth (loader.go:86-99,
\* config.go:143-157).
VerifiedOnly == \A a \in admitted : a.asked => a.cert = "ours"

\* A number comes back from a bigint column as the number PgInsert was given, up to
\* the precision of a double (client.go:150, convert.go:46); beyond it an int64 still
\* reaches the column exactly, since it travels as text, unlike an int
\* (client.go:149-152).
NumbersKept ==
  column = "bigint" =>
    /\ got.in # Nothing /\ got.in[2] <= 2 ^ Mantissa => got.out = <<"float64", got.in[2]>>
    /\ given[1] = "int64" => row = <<"int64", given[2]>>
=============================================================================
