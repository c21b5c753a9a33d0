------------------------------ MODULE Postgres ------------------------------
(***************************************************************************)
(* internal/service/postgres.go and db.GetPostgresConnection: how each     *)
(* PostgreSQL method gets a connection, what its statements do to the      *)
(* database, and how it gives everything back.  The default *sql.DB is a   *)
(* pool of at most MaxOpen connections shared by all calls; a method aimed *)
(* at another database opens a *sql.DB of its own and closes it when it    *)
(* returns.  The nil check that precedes every method is Router.tla's      *)
(* NotEnabled: here the client exists.                                     *)
(*                                                                         *)
(* The methods hand each statement to database/sql once, but database/sql  *)
(* may send it several times: lib/pq reports a session that ended under a  *)
(* statement (EOF, or a FATAL from the server) as driver.ErrBadConn, and   *)
(* database/sql then takes another connection and starts over, whether the *)
(* server had committed or not.                                            *)
(***************************************************************************)
EXTENDS Integers, FiniteSets

CONSTANTS
  Calls,        \* the RPCs that may arrive
  Ops,          \* the methods they may be for
  MaxOpen,      \* SetMaxOpenConns: 25 in the code
  MaxIdle,      \* SetMaxIdleConns: 5 in the code
  MaxRetries,   \* how often database/sql starts a statement over: 2
  HasDeadline   \* the RPCs whose context may end while they run

\* The methods of postgresService; ExecuteQuery is two, by the verb of its text.
Methods == {"ListDatabases", "CreateDatabase", "ListTables", "Query", "Exec",
            "SelectData", "InsertData", "UpdateData", "DeleteData", "TestConnection"}

\* Methods that always use the default pool.
DefaultOnly == {"ListDatabases", "CreateDatabase", "TestConnection"}
\* Methods that check their arguments before they take a connection.
Validating == {"CreateDatabase", "SelectData", "InsertData", "UpdateData", "DeleteData"}
\* Methods that iterate over rows.
Reading == {"ListDatabases", "ListTables", "Query", "SelectData"}
\* Methods that change the database.
Writing == {"CreateDatabase", "Exec", "InsertData", "UpdateData", "DeleteData"}

ASSUME CallsAssumption == IsFiniteSet(Calls)
ASSUME OpsAssumption == Ops \subseteq Methods
ASSUME PoolAssumption == MaxOpen \in Nat \ {0} /\ MaxIdle \in Nat
ASSUME RetriesAssumption == MaxRetries \in Nat
ASSUME DeadlineAssumption == HasDeadline \subseteq Calls

VARIABLES
  op,       \* the method each call is for
  at,       \* where its handler is
  expired,  \* the calls whose context has ended
  held,     \* the calls that hold a connection of the default pool
  temp,     \* its temporary pool: none, or one with a live or a lost session
  open,     \* numOpen of the default pool
  idle,     \* connections on the default pool's free list
  applied,  \* how many times its write took effect in the database
  bad,      \* how often database/sql has started its statement over
  broken,   \* history: how many connections broke under its statements
  partial,  \* the calls whose rows were cut short
  out       \* what it answered

vars == <<op, at, expired, held, temp, open, idle, applied, bad, broken, partial, out>>

Places == {"idle", "entered", "dial", "acquire", "run", "rows",
           "reacquire", "rerun", "leave", "done"}
Outcomes == {"none", "ok", "id", "invalid", "error"}

TypeOK ==
  /\ op \in [Calls -> Methods \union {"none"}]
  /\ at \in [Calls -> Places]
  /\ expired \subseteq Calls
  /\ held \subseteq Calls
  /\ temp \in [Calls -> {"none", "live", "lost"}]
  /\ open \in Nat
  /\ idle \in Nat
  /\ applied \in [Calls -> 0..2 * (MaxRetries + 1)]
  /\ bad \in [Calls -> 0..MaxRetries]
  /\ broken \in [Calls -> 0..2 * (MaxRetries + 1)]
  /\ partial \subseteq Calls
  /\ out \in [Calls -> Outcomes]

Init ==
  /\ op = [c \in Calls |-> "none"]
  /\ at = [c \in Calls |-> "idle"]
  /\ expired = {}
  /\ held = {}
  /\ temp = [c \in Calls |-> "none"]
  /\ idle \in {0, 1} \cap (0..MaxIdle)   \* initPostgres's ping leaves one behind
  /\ open = idle
  /\ applied = [c \in Calls |-> 0]
  /\ bad = [c \in Calls |-> 0]
  /\ broken = [c \in Calls |-> 0]
  /\ partial = {}
  /\ out = [c \in Calls |-> "none"]

-----------------------------------------------------------------------------
(* database/sql, as the methods use it.                                    *)

retries == <<bad, broken>>

GoTo(c, p) == at' = [at EXCEPT ![c] = p]

\* A healthy connection goes back: to the free list, or closed when that is full.
Release(c) ==
  /\ held' = held \ {c}
  /\ IF c \notin held THEN UNCHANGED <<open, idle>>
     ELSE IF idle < MaxIdle THEN idle' = idle + 1 /\ UNCHANGED open
     ELSE open' = open - 1 /\ UNCHANGED idle
  /\ UNCHANGED temp

\* A broken connection is dropped.
Discard(c) ==
  /\ held' = held \ {c}
  /\ open' = IF c \in held THEN open - 1 ELSE open
  /\ temp' = IF temp[c] = "live" THEN [temp EXCEPT ![c] = "lost"] ELSE temp
  /\ UNCHANGED idle

Finish(c, p, r) ==
  /\ GoTo(c, p)
  /\ out' = [out EXCEPT ![c] = r]

-----------------------------------------------------------------------------
(* The methods.                                                            *)

Arrive(c) ==
  /\ at[c] = "idle"
  /\ \E o \in Ops : op' = [op EXCEPT ![c] = o]
  /\ GoTo(c, "entered")
  /\ UNCHANGED <<expired, held, temp, open, idle, applied, retries, partial, out>>

\* isValidIdentifier, the limit's range, an empty update: refused before any
\* connection is taken.
Refuse(c) ==
  /\ at[c] = "entered"
  /\ op[c] \in Validating
  /\ Finish(c, "done", "invalid")
  /\ UNCHANGED <<op, expired, held, temp, open, idle, applied, retries, partial>>

\* GetPostgresConnection: the default pool, or a *sql.DB for another database.
Route(c) ==
  /\ at[c] = "entered"
  /\ \/ GoTo(c, "acquire")
     \/ op[c] \notin DefaultOnly /\ GoTo(c, "dial")
  /\ UNCHANGED <<op, expired, held, temp, open, idle, applied, retries, partial, out>>

\* Its five-second ping opens the session that the method then uses; when the
\* ping fails the *sql.DB is closed at once.
Dial(c) ==
  /\ at[c] = "dial"
  /\ \/ GoTo(c, "acquire") /\ temp' = [temp EXCEPT ![c] = "live"] /\ UNCHANGED out
     \/ Finish(c, "done", "error") /\ UNCHANGED temp
  /\ UNCHANGED <<op, expired, held, open, idle, applied, retries, partial>>

Acquiring(c) == at[c] \in {"acquire", "reacquire"}

\* Mutant of OpensNew: one connection more than SetMaxOpenConns allows.
OpensOneMore(c) == open <= MaxOpen /\ (idle = 0 \/ bad[c] = MaxRetries)

\* What database/sql may take: an idle connection, or a new one while fewer than
\* MaxOpen exist.  The last of its attempts at a statement asks for a new one, and
\* takes another only when that comes free while it waits.
TakesIdle(c) == idle > 0 /\ (bad[c] < MaxRetries \/ open = MaxOpen)
OpensNew(c) == open < MaxOpen /\ (idle = 0 \/ bad[c] = MaxRetries)

\* A statement needs a connection; while there is none the call waits.  A temporary
\* pool has its own, and opens another session when that one is lost.
Acquire(c) ==
  /\ Acquiring(c)
  /\ c \notin expired
  /\ IF temp[c] # "none"
       THEN temp' = [temp EXCEPT ![c] = "live"] /\ UNCHANGED <<held, open, idle>>
       ELSE /\ held' = held \union {c}
            /\ \/ TakesIdle(c) /\ idle' = idle - 1 /\ UNCHANGED open
               \/ OpensNew(c) /\ open' = open + 1 /\ UNCHANGED idle
            /\ UNCHANGED temp
  /\ GoTo(c, IF at[c] = "acquire" THEN "run" ELSE "rerun")
  /\ UNCHANGED <<op, expired, applied, retries, partial, out>>

\* Mutant of AfterError: the second INSERT is repeated like the first.
AfterErrorAgain(c) ==
  /\ bad' = [bad EXCEPT ![c] = 0]
  /\ IF op[c] = "InsertData" THEN GoTo(c, "reacquire") /\ UNCHANGED out
                             ELSE Finish(c, "leave", "error")

\* Where a failed statement leaves the method: InsertData answers any error of
\* INSERT ... RETURNING id with a second INSERT; the others return the error.
AfterError(c) ==
  /\ bad' = [bad EXCEPT ![c] = 0]
  /\ IF op[c] = "InsertData" /\ at[c] \in {"acquire", "run"}
       THEN GoTo(c, "reacquire") /\ UNCHANGED out
       ELSE Finish(c, "leave", "error")

\* The context has ended, or no session can be opened.
AcquireFails(c) ==
  /\ Acquiring(c)
  /\ \/ c \in expired
     \/ temp[c] = "lost"
     \/ temp[c] = "none" /\ OpensNew(c)
  /\ AfterError(c)
  /\ UNCHANGED <<op, expired, held, temp, open, idle, applied, broken, partial>>

Executing(c) == at[c] \in {"run", "rerun"}

\* The statement succeeds.
Complete(c) ==
  /\ Executing(c)
  /\ c \notin expired
  /\ applied' = [applied EXCEPT ![c] = IF op[c] \in Writing THEN @ + 1 ELSE @]
  /\ IF op[c] \in Reading
       THEN GoTo(c, "rows") /\ UNCHANGED <<held, temp, open, idle, out>>
       ELSE /\ Release(c)
            /\ Finish(c, "leave",
                      IF op[c] = "InsertData" /\ at[c] = "run" THEN "id" ELSE "ok")
  /\ UNCHANGED <<op, expired, retries, partial>>

\* Mutants of Reject: InsertData repeats its second INSERT until it succeeds ...
RejectAndRepeat(c) ==
  /\ Executing(c)
  /\ Release(c)
  /\ IF op[c] = "InsertData" THEN GoTo(c, "reacquire") /\ UNCHANGED <<bad, out>> ELSE AfterError(c)
  /\ UNCHANGED <<op, expired, applied, broken, partial>>

\* ... or asks for its connection before it has given back the first one.
RejectHolding(c) ==
  /\ Executing(c)
  /\ IF op[c] = "InsertData" THEN UNCHANGED <<held, temp, open, idle>> ELSE Release(c)
  /\ AfterError(c)
  /\ UNCHANGED <<op, expired, applied, broken, partial>>

\* The server rejects the statement: no such table, a constraint, no id column.
Reject(c) ==
  /\ Executing(c)
  /\ Release(c)
  /\ AfterError(c)
  /\ UNCHANGED <<op, expired, applied, broken, partial>>

\* The connection is lost under a statement, which the server may have committed.
Breaks(c) ==
  /\ Executing(c)
  /\ Discard(c)
  /\ broken' = [broken EXCEPT ![c] = @ + 1]
  /\ \/ UNCHANGED applied
     \/ op[c] \in Writing /\ applied' = [applied EXCEPT ![c] = @ + 1]
  /\ UNCHANGED <<op, expired, partial>>

\* Mutant of Cut: the error of the first INSERT is passed over, and an id that was
\* never read is what the caller gets.
CutAsId(c) ==
  /\ Breaks(c)
  /\ IF op[c] = "InsertData" THEN Finish(c, "leave", "id") /\ UNCHANGED bad ELSE AfterError(c)

\* The connection breaks, or the context ends, in a way that lib/pq reports as it
\* is (a reset, a cancellation), or once too often: the method sees an error.
Cut(c) == Breaks(c) /\ AfterError(c)

\* lib/pq reports driver.ErrBadConn: database/sql starts the statement over, on
\* another connection, and the method knows nothing of it.
StartOver(c) ==
  /\ bad[c] < MaxRetries
  /\ Breaks(c)
  /\ bad' = [bad EXCEPT ![c] = @ + 1]
  /\ GoTo(c, IF at[c] = "run" THEN "acquire" ELSE "reacquire")
  /\ UNCHANGED out

\* rows.Next returns false at the end of the rows ...
RowsEnd(c) ==
  /\ at[c] = "rows"
  /\ Release(c)
  /\ Finish(c, "leave", "ok")
  /\ UNCHANGED <<op, expired, applied, retries, partial>>

\* ... and also when the connection breaks or the context ends between two rows;
\* rows.Err is not consulted.
RowsCut(c) ==
  /\ at[c] = "rows"
  /\ Discard(c)
  /\ partial' = partial \union {c}
  /\ Finish(c, "leave", "ok")
  /\ UNCHANGED <<op, expired, applied, retries>>

\* Mutant of Leave: without "if isTemp { defer conn.Close() }".
LeaveOpen(c) ==
  /\ at[c] = "leave"
  /\ GoTo(c, "done")
  /\ UNCHANGED <<op, expired, held, temp, open, idle, applied, retries, partial, out>>

\* The deferred conn.Close of a temporary *sql.DB; the method returns.
Leave(c) ==
  /\ at[c] = "leave"
  /\ temp' = [temp EXCEPT ![c] = "none"]
  /\ GoTo(c, "done")
  /\ UNCHANGED <<op, expired, held, open, idle, applied, retries, partial, out>>

-----------------------------------------------------------------------------
\* The caller's deadline passes, or it cancels.
Expire(c) ==
  /\ c \in HasDeadline
  /\ at[c] \notin {"idle", "done"}
  /\ c \notin expired
  /\ expired' = expired \union {c}
  /\ UNCHANGED <<op, at, held, temp, open, idle, applied, retries, partial, out>>

\* SetConnMaxLifetime, or the server, ends an idle connection.
IdleLost ==
  /\ idle > 0
  /\ idle' = idle - 1
  /\ open' = open - 1
  /\ UNCHANGED <<op, at, expired, held, temp, applied, retries, partial, out>>

\* Every call has been answered.
AllDone == (\A c \in Calls : at[c] = "done") /\ UNCHANGED vars

StatementEnds(c) == Complete(c) \/ Reject(c) \/ Cut(c) \/ StartOver(c)
MethodStep(c) == \/ Refuse(c) \/ Route(c) \/ Dial(c) \/ AcquireFails(c)
                 \/ StatementEnds(c) \/ RowsEnd(c) \/ RowsCut(c) \/ Leave(c)

Next ==
  \/ \E c \in Calls : Arrive(c) \/ MethodStep(c) \/ Acquire(c) \/ Expire(c)
  \/ IdleLost \/ AllDone

Spec == Init /\ [][Next]_vars

(***************************************************************************)
(* Every goroutine runs, the server ends every statement one way or        *)
(* another, and database/sql picks a waiting request at random when it     *)
(* hands out a connection, so that no request is passed over for ever.     *)
(***************************************************************************)
Fairness == \A c \in Calls : WF_vars(MethodStep(c)) /\ SF_vars(Acquire(c))
FairSpec == Spec /\ Fairness

-----------------------------------------------------------------------------
(* Properties.                                                             *)

\* The default pool never exceeds SetMaxOpenConns nor keeps more than
\* SetMaxIdleConns, and every connection it counts is either idle or in the hands
\* of exactly one call (database.go:86-89).
PoolAccounting ==
  /\ open = idle + Cardinality(held)
  /\ open <= MaxOpen
  /\ idle <= MaxIdle

\* docs/api.md:60, "open a temporary connection for the duration of the call and
\* close it afterwards": on every path out of a method, early or late, nothing it
\* opened stays behind, and no call ever has connections of both kinds.
NothingLeft ==
  \A c \in Calls :
    /\ at[c] \in {"idle", "entered", "dial", "leave", "done"} => c \notin held
    /\ at[c] \in {"idle", "entered", "dial", "done"} => temp[c] = "none"
    /\ c \notin held \/ temp[c] = "none"

\* What an answer says of the database: a write that was answered with success took
\* effect at least once, one that was refused or failed possibly not at all; and
\* every effect beyond the one that was answered was made under a connection that
\* broke.  So nothing is written twice, and nothing behind an error, while
\* connections hold (postgres.go:230-239, and every ExecContext).
Succeeded(c) == op[c] \in Writing /\ out[c] \in {"ok", "id"}
EffectMatchesReply ==
  \A c \in Calls :
    LET answered == IF Succeeded(c) THEN 1 ELSE 0
    IN  applied[c] \in answered .. (answered + broken[c])

\* While a call waits for the default pool, which has no connection for it, some
\* other call has one, and that call executes a statement or reads its rows and waits
\* for nobody: InsertData gives the first connection back before it asks for a
\* second (postgres.go:230-234), so the pool cannot block on itself.
WaitersAreServed ==
  \A c \in Calls :
    Acquiring(c) /\ temp[c] = "none" /\ idle = 0 /\ open = MaxOpen =>
      \E d \in Calls \ {c} : d \in held /\ at[d] \in {"run", "rerun", "rows"}

\* Every PostgreSQL call returns if the server ends its statements, however often
\* they were started over.
CallsEnd ==
  \A c \in Calls : at[c] = "entered" ~> at[c] = "done"

\* docs/api.md:182, "Inserts a row": a successful InsertData inserted one row.
\* The code breaks it when the first INSERT commits and its answer is lost.
InsertsOneRow ==
  \A c \in Calls :
    op[c] = "InsertData" /\ out[c] \in {"ok", "id"} => applied[c] = 1

\* docs/api.md:64, "Lists all non-template databases", and so ListTables and the
\* two SELECT methods: an answer with status OK is complete.  The code breaks it
\* when the rows end with an error that nothing reads.
CompleteOrError ==
  \A c \in Calls : out[c] = "ok" => c \notin partial
=============================================================================
