------------------------------- MODULE Router -------------------------------
(***************************************************************************)
(* One router process from exec to exit: the main goroutine (cmd/main.go), *)
(* the signal goroutine it spawns, the database clients of db.Manager      *)
(* (internal/db/database.go), and one handler goroutine per RPC, reduced   *)
(* to what every handler of internal/service does: look whether the client *)
(* exists, use it, answer.  The gRPC server is modelled by what main.go    *)
(* relies on (grpc-go 1.79 of go.mod): Serve, GracefulStop and their       *)
(* handshake.  Backends go up and down, and signals come, at any time.     *)
(***************************************************************************)
EXTENDS Naturals, FiniteSets

CONSTANTS
  Calls,         \* the RPCs that may arrive
  BackendOf,     \* the backend each of them is for
  HasDeadline,   \* the RPCs whose caller set a deadline
  MaxSignals,    \* bound: SIGINT/SIGTERM deliveries
  AcceptMayFail  \* whether the listener may fail while Serve runs

Backends == {"postgres", "mongo", "redis"}

ASSUME BackendOfAssumption == BackendOf \in [Calls -> Backends]
ASSUME DeadlineAssumption == HasDeadline \subseteq Calls
ASSUME SignalAssumption == MaxSignals \in Nat
ASSUME AcceptAssumption == AcceptMayFail \in BOOLEAN

VARIABLES
  enabled,  \* config: which backends have Enabled == "true"
  up,       \* environment: which backends answer
  client,   \* Manager.PostgresDB, MongoDB, RedisClient
  main,     \* where the main goroutine is
  sig,      \* where the signal goroutine is
  inbox,    \* signals buffered in sigCh (capacity 1)
  signals,  \* signals delivered so far
  grpc,     \* state of the gRPC server
  call,     \* progress of each RPC
  reply,    \* how each RPC was answered
  exit      \* how the process ended

vars == <<enabled, up, client, main, sig, inbox, signals, grpc, call, reply, exit>>

env == <<enabled, up, inbox, signals>>
process == <<client, main, sig, grpc, exit>>
handlers == <<call, reply>>

Startup == {"init_postgres", "init_mongo", "init_redis", "tls", "listen", "spawn", "serve"}
MainStates == Startup \union {"accepting", "returning", "closing", "exited"}

\* The statement main executes after each of its start-up statements.
After == [init_postgres |-> "init_mongo", init_mongo |-> "init_redis",
          init_redis |-> "tls", tls |-> "listen", listen |-> "spawn", spawn |-> "serve"]

ClientStates == {"nil", "open", "closed"}
SigStates == {"absent", "started", "waiting", "caught", "stopping", "done"}
GrpcStates == {"new", "serving", "quit", "draining", "stopped"}
CallStates == {"idle", "entered", "waiting", "replied"}
Replies == {"none", "ok", "unavailable", "invalid", "error"}

TypeOK ==
  /\ enabled \in [Backends -> BOOLEAN]
  /\ up \in [Backends -> BOOLEAN]
  /\ client \in [Backends -> ClientStates]
  /\ main \in MainStates
  /\ sig \in SigStates
  /\ inbox \in {0, 1}
  /\ signals \in 0..MaxSignals
  /\ grpc \in GrpcStates
  /\ call \in [Calls -> CallStates]
  /\ reply \in [Calls -> Replies]
  /\ exit \in {"running", "zero", "fatal", "killed"}

Running == exit = "running"
InFlight(c) == call[c] \in {"entered", "waiting"}

\* Mutant of Bounded: the handlers drop the caller's deadline.
BoundedByMethod(c) == BackendOf[c] \in {"mongo", "redis"}

\* Mutant of Bounded: the Redis methods lose their timeout.
BoundedByCaller(c) == BackendOf[c] = "mongo" \/ c \in HasDeadline

\* The calls a handler context ends on its own: MongoDB and Redis methods wrap
\* ctx in a 5-10 s timeout, PostgreSQL methods pass the caller's ctx unchanged.
Bounded(c) == BackendOf[c] \in {"mongo", "redis"} \/ c \in HasDeadline

Init ==
  /\ enabled \in [Backends -> BOOLEAN]
  /\ up \in [Backends -> BOOLEAN]
  /\ client = [b \in Backends |-> "nil"]
  /\ main = "init_postgres"
  /\ sig = "absent"
  /\ inbox = 0
  /\ signals = 0
  /\ grpc = "new"
  /\ call = [c \in Calls |-> "idle"]
  /\ reply = [c \in Calls |-> "none"]
  /\ exit = "running"

-----------------------------------------------------------------------------
(* db.New: each enabled backend is opened and pinged once, a failure is    *)
(* logged and start-up goes on.                                            *)

\* initPostgres and initMongo store the client only once its ping succeeded.
InitPinged(b, at) ==
  /\ Running
  /\ main = at
  /\ main' = After[at]
  /\ \E ok \in BOOLEAN :
       /\ ok => up[b]
       /\ client' = IF enabled[b] /\ ok THEN [client EXCEPT ![b] = "open"] ELSE client
  /\ UNCHANGED <<env, sig, grpc, exit, handlers>>

InitPostgres == InitPinged("postgres", "init_postgres")
InitMongo == InitPinged("mongo", "init_mongo")

\* Mutant of InitRedis: the client is stored after the ping, as for the others.
InitRedisPinged == InitPinged("redis", "init_redis")

\* initRedis stores the client before it pings: a failed ping leaves it in place.
InitRedis ==
  /\ Running
  /\ main = "init_redis"
  /\ main' = After[main]
  /\ client' = IF enabled["redis"] THEN [client EXCEPT !["redis"] = "open"] ELSE client
  /\ UNCHANGED <<env, sig, grpc, exit, handlers>>

\* tlsLoader.Build and net.Listen: go on, or log.Fatalf.
TLSOrListen ==
  /\ Running
  /\ main \in {"tls", "listen"}
  /\ \/ main' = After[main] /\ UNCHANGED exit
     \/ exit' = "fatal" /\ UNCHANGED main
  /\ UNCHANGED <<env, client, sig, grpc, handlers>>

\* go func() { ... }(): main continues to Serve while the goroutine starts.
Spawn ==
  /\ Running
  /\ main = "spawn"
  /\ main' = After[main]
  /\ sig' = "started"
  /\ UNCHANGED <<env, client, grpc, exit, handlers>>

-----------------------------------------------------------------------------
(* The signal goroutine.                                                   *)

Notify ==
  /\ Running
  /\ sig = "started"
  /\ sig' = "waiting"
  /\ UNCHANGED <<env, client, main, grpc, exit, handlers>>

\* Mutant of Signal: sigCh without its capacity limit.
SignalQueued ==
  /\ Running
  /\ signals < MaxSignals
  /\ signals' = signals + 1
  /\ IF sig \in {"absent", "started"}
       THEN exit' = "killed" /\ UNCHANGED inbox
       ELSE inbox' = inbox + 1 /\ UNCHANGED exit
  /\ UNCHANGED <<enabled, up, client, main, sig, grpc, handlers>>

\* The operator sends SIGINT or SIGTERM.  Before signal.Notify it kills the
\* process; afterwards it is put into sigCh, and dropped when that is full.
Signal ==
  /\ Running
  /\ signals < MaxSignals
  /\ signals' = signals + 1
  /\ IF sig \in {"absent", "started"}
       THEN exit' = "killed" /\ UNCHANGED inbox
       ELSE inbox' = 1 /\ UNCHANGED exit
  /\ UNCHANGED <<enabled, up, client, main, sig, grpc, handlers>>

Receive ==
  /\ Running
  /\ sig = "waiting"
  /\ inbox = 1
  /\ inbox' = 0
  /\ sig' = "caught"
  /\ UNCHANGED <<enabled, up, signals, client, main, grpc, exit, handlers>>

\* GracefulStop, first part: quit fires and the listener is closed.
GracefulStop ==
  /\ Running
  /\ sig = "caught"
  /\ sig' = "stopping"
  /\ grpc' = "quit"
  /\ UNCHANGED <<env, client, main, exit, handlers>>

\* GracefulStop, second part: once no Serve is in its accept loop, every
\* connection is told to go away and no new stream is admitted.
GoAway ==
  /\ Running
  /\ sig = "stopping"
  /\ grpc = "quit"
  /\ main # "accepting"
  /\ grpc' = "draining"
  /\ UNCHANGED <<env, client, main, sig, exit, handlers>>

\* Mutant of Drained: Stop instead of GracefulStop, which waits for no handler.
NotDrained == TRUE

\* GracefulStop returns when the last handler has.
Drained == \A c \in Calls : ~InFlight(c)

StopDone ==
  /\ Running
  /\ sig = "stopping"
  /\ grpc = "draining"
  /\ Drained
  /\ grpc' = "stopped"
  /\ sig' = "done"
  /\ UNCHANGED <<env, client, main, exit, handlers>>

-----------------------------------------------------------------------------
(* The main goroutine inside and after grpcServer.Serve.                   *)

\* Serve enters its accept loop, unless the server was stopped first: then it
\* returns ErrServerStopped and log.Fatalf exits without the deferred Close.
Serve ==
  /\ Running
  /\ main = "serve"
  /\ IF grpc = "new"
       THEN main' = "accepting" /\ grpc' = "serving" /\ UNCHANGED exit
       ELSE exit' = "fatal" /\ UNCHANGED <<main, grpc>>
  /\ UNCHANGED <<env, client, sig, handlers>>

\* Accept fails for good while quit has not fired: Serve returns the error.
AcceptFails ==
  /\ Running
  /\ AcceptMayFail
  /\ main = "accepting"
  /\ grpc = "serving"
  /\ exit' = "fatal"
  /\ UNCHANGED <<env, client, main, sig, grpc, handlers>>

\* Accept fails because quit has fired: the loop ends, Serve waits for done.
LeaveAcceptLoop ==
  /\ Running
  /\ main = "accepting"
  /\ grpc = "quit"
  /\ main' = "returning"
  /\ UNCHANGED <<env, client, sig, grpc, exit, handlers>>

\* Mutant of ServeReturns: main leaves while GracefulStop is still draining.
ServeReturnsEarly ==
  /\ Running
  /\ main = "returning"
  /\ main' = "closing"
  /\ UNCHANGED <<env, client, sig, grpc, exit, handlers>>

\* Serve waits for GracefulStop to finish and returns nil.
ServeReturns ==
  /\ Running
  /\ main = "returning"
  /\ grpc = "stopped"
  /\ main' = "closing"
  /\ UNCHANGED <<env, client, sig, grpc, exit, handlers>>

\* Mutant of Close: the Redis client is forgotten.
CloseButRedis ==
  /\ Running
  /\ main = "closing"
  /\ client' = [b \in Backends |->
       IF client[b] = "nil" \/ b = "redis" THEN client[b] ELSE "closed"]
  /\ main' = "exited"
  /\ exit' = "zero"
  /\ UNCHANGED <<env, sig, grpc, handlers>>

\* The deferred dbManager.Close closes every client that exists; main returns.
Close ==
  /\ Running
  /\ main = "closing"
  /\ client' = [b \in Backends |-> IF client[b] = "nil" THEN "nil" ELSE "closed"]
  /\ main' = "exited"
  /\ exit' = "zero"
  /\ UNCHANGED <<env, sig, grpc, handlers>>

-----------------------------------------------------------------------------
(* Handlers.                                                               *)

\* A stream arrives on a live connection; grpc starts its handler goroutine.
Accept(c) ==
  /\ Running
  /\ main \in {"accepting", "returning"}
  /\ grpc \in {"serving", "quit"}
  /\ call[c] = "idle"
  /\ call' = [call EXCEPT ![c] = "entered"]
  /\ UNCHANGED <<env, process, reply>>

Finish(c, r) ==
  /\ call' = [call EXCEPT ![c] = "replied"]
  /\ reply' = [reply EXCEPT ![c] = r]
  /\ UNCHANGED <<env, process>>

\* if s.db.<client> == nil { return ErrNotEnabled(...) }: Unavailable.
NotEnabled(c) ==
  /\ Running
  /\ call[c] = "entered"
  /\ client[BackendOf[c]] = "nil"
  /\ Finish(c, "unavailable")

\* A malformed table name, limit, update or object id is refused before the
\* backend is used; no Redis method refuses its arguments.
Refuse(c) ==
  /\ Running
  /\ call[c] = "entered"
  /\ client[BackendOf[c]] # "nil"
  /\ BackendOf[c] # "redis"
  /\ Finish(c, "invalid")

\* The handler hands its command to the driver and blocks.
Dispatch(c) ==
  /\ Running
  /\ call[c] = "entered"
  /\ client[BackendOf[c]] # "nil"
  /\ call' = [call EXCEPT ![c] = "waiting"]
  /\ UNCHANGED <<env, process, reply>>

Succeed(c) ==
  /\ Running
  /\ call[c] = "waiting"
  /\ client[BackendOf[c]] = "open"
  /\ up[BackendOf[c]]
  /\ Finish(c, "ok")

\* Mutant of Fail: a handler resets the client it saw fail.
FailAndReset(c) ==
  /\ Running
  /\ call[c] = "waiting"
  /\ call' = [call EXCEPT ![c] = "replied"]
  /\ reply' = [reply EXCEPT ![c] = "error"]
  /\ client' = [client EXCEPT ![BackendOf[c]] = "nil"]
  /\ UNCHANGED <<env, main, sig, grpc, exit>>

\* The driver reports an error: any database error, or a closed client.
Fail(c) ==
  /\ Running
  /\ call[c] = "waiting"
  /\ Finish(c, "error")

\* The handler's context ends, by its own timeout or the caller's deadline.
Expire(c) ==
  /\ Running
  /\ call[c] = "waiting"
  /\ Bounded(c)
  /\ Finish(c, "error")

-----------------------------------------------------------------------------
Flap(b) ==
  /\ Running
  /\ up' = [up EXCEPT ![b] = ~@]
  /\ UNCHANGED <<enabled, inbox, signals, process, handlers>>

\* The process is gone.
Gone == ~Running /\ UNCHANGED vars

MainStep == InitPostgres \/ InitMongo \/ InitRedis \/ TLSOrListen \/ Spawn
            \/ Serve \/ LeaveAcceptLoop \/ ServeReturns \/ Close
SigStep == Notify \/ Receive \/ GracefulStop \/ GoAway \/ StopDone
HandlerStep(c) == NotEnabled(c) \/ Refuse(c) \/ Dispatch(c)

Next ==
  \/ MainStep \/ SigStep
  \/ Signal \/ AcceptFails
  \/ \E c \in Calls : \/ Accept(c) \/ HandlerStep(c)
                      \/ Succeed(c) \/ Fail(c) \/ Expire(c)
  \/ \E b \in Backends : Flap(b)
  \/ Gone

Spec == Init /\ [][Next]_vars

(***************************************************************************)
(* The Go scheduler runs every runnable goroutine, and a context with a    *)
(* timeout ends.  Nothing is assumed of the databases, of the callers, of  *)
(* the operator or of the listener.                                        *)
(***************************************************************************)
Fairness ==
  /\ WF_vars(MainStep)
  /\ WF_vars(SigStep)
  /\ \A c \in Calls : WF_vars(HandlerStep(c)) /\ WF_vars(Expire(c))

FairSpec == Spec /\ Fairness

-----------------------------------------------------------------------------
(* Properties.                                                             *)

\* A handler that is inside a driver call has its client open: Manager.Close
\* (database.go:174) never overtakes a handler, because Serve returns to main's
\* deferred Close only after GracefulStop has waited for the last handler.
NoUseAfterClose ==
  \A c \in Calls : call[c] = "waiting" => client[BackendOf[c]] = "open"

\* A process that ends with status zero answered every RPC it admitted and left
\* no database client open (main.go:24 and 64-75, database.go:173-187).
OrderlyExit ==
  exit = "zero" => Drained /\ \A b \in Backends : client[b] # "open"

\* Whether a backend counts as available is settled by start-up: two RPCs of one
\* process for the same backend never disagree, one being told "not enabled" and
\* the other reaching the driver, however the backend flaps in between.
VerdictStable ==
  \A c, d \in Calls :
    BackendOf[c] = BackendOf[d] /\ reply[c] = "unavailable"
      => reply[d] \notin {"ok", "error", "invalid"}

\* A Redis that was down during start-up is not lost for good: initRedis keeps its
\* client (database.go:161) and no Redis RPC is told "not enabled" while the
\* configuration enables Redis.
RedisRecovers ==
  \A c \in Calls :
    BackendOf[c] = "redis" /\ enabled["redis"] => reply[c] # "unavailable"

\* cmd/main.go:64, "Graceful shutdown on SIGINT / SIGTERM": once the goroutine has
\* caught a signal the process does not die through log.Fatalf.  The code breaks
\* it when the signal overtakes Serve: see the run early_signal.
ShutdownIsGraceful ==
  sig \in {"caught", "stopping", "done"} => exit # "fatal"

\* Every MongoDB and Redis RPC is answered, or the process ends, even if the
\* backend never replies: their service methods bound the driver call in time.
TimedCallsEnd ==
  \A c \in Calls :
    BackendOf[c] # "postgres" => (InFlight(c) ~> (~InFlight(c) \/ ~Running))

\* A caught signal ends the process, provided every PostgreSQL caller set a
\* deadline: GracefulStop drains, Serve returns, main closes and exits
\* (main.go:65-75).  Without deadlines a hung query blocks it for ever.
ShutdownCompletes ==
  (\A c \in Calls : BackendOf[c] = "postgres" => c \in HasDeadline)
    => (sig = "caught" ~> ~Running)

-----------------------------------------------------------------------------
(* The promise of Lifecycle.tla.                                           *)

absPhase ==
  CASE exit = "zero" -> "stopped"
    [] exit \in {"fatal", "killed"} -> "aborted"
    [] Running /\ main \in Startup -> "starting"
    [] Running /\ main \notin Startup /\ grpc \in {"serving", "quit"} -> "serving"
    [] OTHER -> "draining"

absPending == {c \in Calls : InFlight(c)}
absAnswered == {c \in Calls : call[c] = "replied"}
absHeld == {b \in Backends : client[b] = "open"}

L == INSTANCE Lifecycle WITH
       phase <- absPhase, pending <- absPending,
       answered <- absAnswered, held <- absHeld

\* The process keeps the promise of Lifecycle.tla: clients before calls, no call
\* accepted once draining, no orderly stop before the last answer.
ImplementsLifecycle == L!Spec
=============================================================================
