# Database Router: formal model

Database Router is a gRPC server, written in Go, that puts one API in front of a
PostgreSQL, a MongoDB and a Redis server. This directory holds a TLA+ model of it,
checked with TLC, and theorems about the model, checked with TLAPS. All source
references are to the repository's own paths (`cmd/`, `internal/`, ...).

Contents: [the system](#the-system) · [plan](#plan) · [modules](#modules) ·
[runs](#runs) · [what the code does not keep](#what-the-code-does-not-keep) ·
[bounds](#bounds) · [fairness](#fairness) · [proofs](#proofs) ·
[not modelled](#not-modelled) · [how to run it](#how-to-run-it)

## The system

### Components, their state and their operations

| Component | Source | State it keeps | Operations |
|---|---|---|---|
| process lifecycle | `cmd/main.go`, `internal/db/database.go` | the three clients of `db.Manager`, the gRPC server's phase, the signal channel | `db.New`, listen, serve, signal goroutine with `GracefulStop`, `Manager.Close` |
| PostgreSQL service | `internal/service/postgres.go`, `internal/server/postgres_server.go` | a pool of at most 25 connections, 5 of them idle; one temporary pool per call for another database | ListDatabases, CreateDatabase, ListTables, ExecuteQuery, SelectData, InsertData, UpdateData, DeleteData, TestConnection |
| MongoDB service | `internal/service/mongo.go`, `internal/server/mongo_server.go` | none beyond the client | ListDatabases, ListCollections, InsertDocument, FindDocuments, UpdateDocument, DeleteDocument, TestConnection |
| Redis service | `internal/service/redis.go`, `internal/server/redis_server.go` | none beyond the client | ListKeys, SetValue, GetValue, DeleteKey, Info, TestConnection |
| health service | `internal/service/health.go`, `internal/server/health_server.go` | none | Check, CheckPostgres, CheckMongo, CheckRedis |
| error classification | `internal/server/errors.go`, `internal/service/errors.go` | none | `toGRPCError`, `ErrNotEnabled` |
| value conversion | `internal/server/convert.go` | none | `toProtoValue`, `fromProtoValue` |
| configuration, TLS | `internal/config/config.go`, `internal/tlsconfig/loader.go` | `config.json` | `Load`, `createDefault`, `overrideFromEnv`, `Build` |
| core clients | `core/*` (Go, Python, Node, Java, C++, Rust, Zig) | namespace prefix, a channel | `New`, `InitWorkspace`, `Pg*`, `Mongo*`, `Redis*` |
| SDK connectors | `sdk/*` | a channel | `Connect`, `Close` |
| deployer | `deployer/entrypoint.sh`, `ansible/`, `providers/` | Terraform state, keys and certificates on disk | provision, configure, fetch certificates, destroy |

### How they interact

`main` builds the configuration, opens the clients one after the other, spawns the
signal goroutine and enters `grpcServer.Serve`. From then on grpc starts one
goroutine per RPC; a handler reads the client field of `db.Manager` without a lock
(it was written before `Serve`), calls one service method, and translates the result.
The handlers share nothing but the clients, so they meet only in the driver pools, in
the databases, and in the shutdown: the signal goroutine calls `GracefulStop`, which
waits for all handlers, `Serve` returns to `main` after that, and the deferred
`Manager.Close` closes the clients.

Around the process, `config.json` is shared by every start of the router in one
directory, the operator and the deployer; several replicas of an application share one
database name and one Redis, kept apart from other applications by a prefix; and the
runs of the deployer share a host, where each finds what the earlier ones left.

### What is hard

* **Start-up against signals.** The signal goroutine and `main` race to
  `GracefulStop` and `Serve`.
* **Shutdown against handlers.** Nothing but the order of `GracefulStop`, `Serve` and
  the deferred `Close` keeps a client open under a running handler. MongoDB and Redis
  methods end by themselves after 5-10 s; PostgreSQL methods end when the server or
  the caller ends them.
* **Availability sampled once.** PostgreSQL and MongoDB are pinged during start-up
  and given up for good when that fails; Redis is kept.
* **Answers that get lost.** A write whose answer is lost has an unknown outcome.
  `InsertData` answers any error with a second INSERT, database/sql starts a statement
  over when its session ended, go-redis repeats its commands, and a command that was
  given up may still be executed.
* **Two commands, one answer.** `GetValue`, `Info` and `Check` put one response
  together from several reads of a changing world.
* **Errors half-way.** Rows may end early, a cursor may fail, a second command may
  fail after the first.
* **Crashes and second runs.** The router writes its default `config.json` in place,
  and openssl its files; the playbook skips every certificate whose file is there, whatever is in it, and
  repeats nothing that a failed run had only announced to a handler.
* **Meaning carried by text.** Status codes, "already exists" and "not found" are
  looked for in messages that several parties write.
* **Numbers.** Doubles on the wire between integers in the program and in the column.

### What makes each component correct

* lifecycle: no handler outlives its client; an orderly exit answers everything and
  closes everything; what is available is settled by start-up; a shutdown ends.
* PostgreSQL: the pool's counters agree with who holds what; no path leaks; an answer
  tells the truth about its effect; the pool never blocks on itself.
* MongoDB: counts and found documents are true of a moment of the call; updates of
  different fields do not undo each other; an id given out is an id taken back.
* Redis: what is read was there; what is acknowledged happened; no deletion is
  claimed twice, whatever is lost or repeated.
* health: the parts of a response agree with each other, or the backends changed.
* configuration: a process runs with one whole file and its own environment; the
  operator's file is not overwritten; asking for verified clients gets verified
  clients.
* clients: applications overlap only where their namespaces are nested; an empty read has a reason, and so has a
  warning; a silent start means the database is there; numbers survive the trip.
* deployer: a run that ends well has done what it says, whatever the earlier ones left.

`PROJECT.json` lists the components with their status and, under `hazards`, each of
these difficulties at the line where it bites, with the properties that cover it.

## Plan

Done, in this order, the most important behaviour first:

1. `Lifecycle`, `Router`: the process as a whole; safety, liveness, refinement.
2. `RouterProofs`: all of Router's safety for any calls, and the refinement.
3. `Postgres`, `PostgresProofs`: the pool and the ten methods.
4. `Redis`, `Mongo`, `Health`: the other services.
5. `Core`: the applications' Redis calls over `Redis`, with namespaces and misses.
6. `Config`, `Transport`, `Convert`, composed by `Workspace`: a router that
   is started and restarted, and the replicas of an application that start with it.
7. `Deploy`: the playbook, its handlers, interrupted and repeated runs.
8. `RedisProofs`, `CoreProofs`, `HealthProofs`, `StartupProofs`, `DeployProofs`.
9. `MongoProofs`: every property of `Mongo` that holds, and more of the one that fails.
10. `WorkspaceTypeOK`; the safety half of the liveness of `Router` and `Postgres`.

Left:

11. The `Mongo*` calls of a core client over `Mongo`, as `Core` is over `Redis`.

## Modules

### Router, Lifecycle

`Lifecycle` is the promise: clients are acquired before calls are accepted, an orderly
stop waits for every accepted call and gives every client back, and anything else is
an abort. `Router` is what the code does:

| Router | Code |
|---|---|
| `client` | `Manager.PostgresDB`, `MongoDB`, `RedisClient`: `nil`, `open`, `closed` |
| `main` | the statement the main goroutine is at; `accepting` and `returning` are inside `Serve` |
| `sig`, `inbox` | the signal goroutine and its channel of capacity one |
| `grpc` | the server: `quit` once the listener is closed, `draining` once connections have been told to go away |
| `call`, `reply` | one handler goroutine per RPC and its answer |
| `InitPostgres`, `InitMongo`, `InitRedis` | `initPostgres`, `initMongo` (store the client after the ping), `initRedis` (before it) |
| `TLSOrListen`, `Spawn`, `Serve`, `ServeReturns`, `Close` | `main` from line 26 to its end |
| `Notify`, `Receive`, `GracefulStop`, `GoAway`, `StopDone` | the goroutine of lines 65-71 |
| `NotEnabled`, `Refuse`, `Dispatch`, `Succeed`, `Fail`, `Expire` | the steps common to all handlers |

The gRPC library is modelled by what `main.go` relies on: `Serve` refuses to start
after `GracefulStop`, returns only when the stop is complete, and `GracefulStop`
waits for the handlers. A signal that arrives before `signal.Notify` kills the
process. `MCRouter` gives the calls and their backends.

### Postgres

Calls of any of ten methods (`ExecuteQuery` is `Query` or `Exec`, by the first word of
its text) compete for the shared pool. A call goes `entered` -> (`dial` for another
database) -> `acquire` -> `run` -> `rows` for a reading method -> `leave` -> `done`;
`InsertData` goes back through `reacquire` and `rerun` after any error of its first
statement. `Release`, `Discard` and `IdleLost` are what database/sql does with a
connection; `Reject` is an error of the server, `Breaks` a connection that is lost under
a statement, with or without effect. Such a loss reaches the method as an error (`Cut`),
or lib/pq reports it as `driver.ErrBadConn` and database/sql takes another connection
and executes the statement again without telling the method (`StartOver`), up to
`MaxRetries` times, the last on a new connection (`TakesIdle`, `OpensNew`). `Leave` is
the deferred `conn.Close`. `applied` counts the effects in the database, `broken` the
connections that were lost under the call, and `partial` remembers answers that were
cut short; no action's guard reads them. `MCPostgres` instantiates it.

### Mongo

One collection as a function from ids to documents, documents as functions from
fields to values. Ids inside are ObjectIDs or strings; on the wire they are text in
the forms `65f1...` (`Hex`), `ObjectID("65f1...")` (`Wrapped`) or any other. `Shown` is
the `%v` of `InsertDocument` and of `toProtoValue`'s default case; `IsHex` and
`Target` are `ObjectIDFromHex`; `StringID` is what `fromProtoValue` makes of an `_id`
that a caller sends. A write is executed at most once, possibly after its call has
ended (`stray`, `Late`). A find reads its batches at different moments. `seen` keeps
the collections there were during a call, for the properties. `MCMongo` instantiates it.

### Redis

One server with a value and a remaining time per key. Each method is one command, or
two for `GetValue` and `Info`. A command is delivered, or its answer is lost, or it is
given up, and then go-redis sends it again up to `MaxTries` times; a write that was
given up may be executed later (`Stray`). `seen` keeps, per call, what a reader of its
key (or of the key count) could have seen since the call began; `faulty` the calls
that met a fault; `applied` and `made` count executed SETs and creations. They are
history: no guard reads them. `MCCore` instantiates it, under `Core`.

`Arrive` is how calls come in when the module stands alone; `Core` runs it under its
callers instead, and is shown to implement `Redis!Spec`.

### Core

EXTENDS `Redis`. `app` says whose call it is: an application with a namespace, or a
caller of the stubs, who lists, counts and deletes keys and knows nothing of
namespaces. `RedisSet` and `RedisGet` build the key with `NsKey`, `Return` hands the
router's answer to the application, `Broken` is a channel that breaks or a proxy that
answers in the router's stead. `LooksMissing` is the search for "not found" in the
message of any error. Namespaces are any texts that are not empty, as in `New`: two of
them may share a key when one continues the other with the separator (`Nested`).
`MCCore` instantiates it.

### Health

Six pings, three of `CheckAll` and three of the statuses, one after the other, while
backends change. A ping of a healthy backend may fail (`slow`), as it has five seconds.

### Config, Transport, Convert

`Config` is a module of state: `disk` is `config.json`, `proc` the place of the router's
process, and each access of `Load` to the file (`Stat`, `Truncate`, `Write`, `Read`) a
step of its own, so that a `Kill` or the operator's `Place` may come between any two.
`Override` is `overrideFromEnv`. The record has one field for each kind of treatment: a
word (`enabled`), a number (`port`), a switch (`tls`), two paths and the policy; the
other fields of the file are treated like one of these.

The other two are modules of operators: `Transport` has the two ends of a channel
(`Build` of the router's loader, `Connect` of the Go connector) and the handshake
between them, external; `Convert` a number's way from `PgInsert` into a column and back
through `PgQuery`, with doubles of `Mantissa` bits. `Convert` has integers and the
texts that spell them; Booleans do not change on the way, and no modelled caller sends
bytes, lists or nested structs.

### Workspace

EXTENDS those three and composes them: a router that starts, stops and is configured
as `Config` says, serves those that `Transport` lets in, and replicas of one
application that go through `New` and `InitWorkspace`, then insert and query.

| Workspace | Code |
|---|---|
| `Router`, `Open` | `config.Load`; `db.New` and `Loader.Build` in `main` |
| `pg` | `dbManager.PostgresDB` is set |
| `New`, `InitWorkspace`, `Created`, `Unanswered` | `core/go/client.go`, from `New` to the three branches after `CreateDatabase` |
| `Denied`, `Rejected`, `Begins` | the returns of `postgresService.CreateDatabase`: no client or no identifier, an error of PostgreSQL, or a creation under way |
| `stray`, `StrayEnds` | a creation that goes on in PostgreSQL although its caller has given up or its router is gone |
| `said` | what `InitWorkspace` printed: "provisioned", nothing, or the warning |
| `PgInsert`, `PgQuery` | the two methods, through `Convert` |

A creation has two steps, as PostgreSQL first looks for the name and fails only later
on the unique index if another one was quicker. Either may fail for another reason
(PostgreSQL gone since start-up, no permission, no connection left), before or after
the database is there. `via` ties it to the start of the
router it went through: a process that is killed answers nothing. `MCWorkspace`
instantiates it.

### Deploy

The tasks of the roles `dbrouter` and `caddy` in `Plan`, one action each, then the
handlers, then the deployer's last step. A run stops at the first task that fails;
`Interrupt` stops it anywhere, `HostDown` stops everything, and both may leave the file
that openssl was writing empty or incomplete (`CutShort`); so may an openssl that is
killed or finds the disk full (`Leaves`), which fails its task, or is passed over by the
script that makes `client.crt`. The next `Begin` starts over with other wishes.
Certificate files are there or not, and usable or damaged ("empty"); `conf` is the configuration on the host,
`box` the one the container runs, and likewise `caddyfile` and `caddy`.

## Runs

| Run | Module and configuration | Shows |
|---|---|---|
| `router` | `MCRouter`, `Router.cfg` | `TypeOK`, `NoUseAfterClose`, `OrderlyExit`, `VerdictStable`, `RedisRecovers`; `ImplementsLifecycle`; `ShutdownCompletes`: a caught signal ends the process when PostgreSQL callers set deadlines; `TimedCallsEnd`: Redis calls end even if nothing ever answers |
| `postgres` | `MCPostgres`, `Postgres.cfg` | `TypeOK`, `NothingLeft`, `EffectMatchesReply`, `PoolAccounting`, with statements that are started over; `WaitersAreServed`: the pool does not block on itself; `CallsEnd` |
| `core` | `MCCore`, `Core.cfg` | `CoreTypeOK`; `SetReported`, `ReadsExplained`, `ValueWasThere`, `DeletionsMatchCreations` of `Redis`; `Isolated`, `MissExplained` of the applications |
| `mongo_safety` | `MCMongo`, `MongoSafety.cfg` | `TypeOK`, `EffectMatchesReply`, `CountsExplained`, `FindExplained`, `FieldsKept`; `CustomIdsPermanent` |
| `health_check` | `Health`, `HealthCheck.cfg` | `QuietCheckAgrees`, `StatusesExplained` |
| `startup` | `MCWorkspace`, `Workspace.cfg` | `WorkspaceTypeOK`; `RunsOneFile`, `FileIsKept` of `Config`; `VerifiedOnly`, `QuietMeansReady`, `WarnExplained`, `NumbersKept` |
| `deploy` | `Deploy`, `Deploy.cfg` | `ProxyFollows`, `CertificatesWork`, `StaleAfterFailure` |

The runs that end in a violation state what a comment or a document of the repository
says, and the code does not do; they are the next section. Each property of the table
has a mutant, an operator just before the definition it would replace ("Mutant of
..."), that makes TLC report the property: it shows that the property depends on what
the code does. Deadlock is checked where the system goes on for ever; a process that
has ended, and calls that have all been answered, stutter (`Gone`, `AllDone`, `Quiet`).
It is not checked in `startup` and the two runs of `Deploy`: a router that was killed
may never be started again, and a host may be left alone.

## What the code does not keep

| Run | Configuration | Property | What happens |
|---|---|---|---|
| `early_signal` | `RouterEarlySignal.cfg` | `ShutdownIsGraceful` | the signal is caught and `GracefulStop` has run before `main` reaches `Serve`; `Serve` fails, `log.Fatalf` skips the deferred `Close` |
| `inserts_one_row` | `PostgresInsertsOneRow.cfg` | `InsertsOneRow` | the first INSERT commits, its answer is lost, the second one succeeds |
| `complete_or_error` | `PostgresCompleteOrError.cfg` | `CompleteOrError` | the connection breaks between two rows; the answer is short, its status OK |
| `mongo_ids` | `MongoIds.cfg` | `InsertedIdIsAnId` | `insertedId` is `ObjectID("...")`, which UpdateDocument refuses as invalid; `GivenIdsRefused` in `MongoProofs` says that no generated id is ever taken back |
| `deploy_restart` | `DeployRestart.cfg` | `RestartOnChange` | a changed `config.json` notifies a handler that looks for the compose file in the wrong directory; the run fails, the next one finds nothing changed and ends well |

The quoted lines are in `PROJECT.json`. Beside them a weaker property holds and is
checked: `OrderlyExit`, `EffectMatchesReply`, `StaleAfterFailure`, and for MongoDB's
cursor, unlike PostgreSQL's rows, `FindExplained` with completeness in it.

More surprises are in the model without a run of their own; the property named
says exactly how far they go.

* A PostgreSQL or MongoDB that is enabled but down during start-up is "not enabled"
  for the life of the process (`VerdictStable`, and `RedisRecovers` for Redis, which
  is treated otherwise).
* `GetValue` answers ttl 0, which also means "no expiry", for a key that expires
  between GET and TTL (the second disjunct of `ReadsExplained`).
* `Info` answers zero keys, with status OK, when DBSIZE fails (the third disjunct).
* `overall_healthy` and the statuses of one response may disagree, as they come from
  two rounds of pings (`QuietCheckAgrees` says when they do not).
* Every failure of GET is answered NotFound, which the core client turns into an empty
  string without an error; so does any other answer whose text holds "not found"
  (`MissExplained`). An empty string that was stored reads the same.
* `TLS_ENABLED` other than `true` or `1` turns TLS off even where the file turned it
  on (`docs/config.md:120` knows `"true"` and `"false"`), a port that is no number is
  passed over, and an empty variable overrides nothing (`Override`, `RunsOneFile`).
  `VerifiedOnly` does not count such a word as asking for TLS.
* A `ca_file` without `client_auth` requires and verifies client certificates
  (`tlsconfig/loader.go:86-99`), where `docs/config.md:77` says of `client_auth` "omit
  for server-only TLS". `VerifiedOnly` therefore asks something only where a policy is
  named; that the code verifies here too is stricter than the document, not laxer.
* The isolation that `core/go/client.go:1-4` claims ends at the separator, which `New`
  does not refuse in a namespace: key `b:x` of namespace `a` and key `x` of namespace
  `a:b` are one key of Redis. `Isolated` says that there is no other way for
  applications to meet, and `NoCollision` that it takes nested namespaces.
* An `UpdateData`, a `DeleteData`, an `ExecuteQuery` that writes, or either INSERT of
  `InsertData` may take effect more than once under one answer, since database/sql
  starts a statement over when its session has ended, committed or not.
  `EffectMatchesReply` counts each such effect against a connection that broke.
* A default file torn by a crash stops every later start until somebody removes it:
  `RunsOneFile` says that at least nothing runs with it.
* "invalid database name" is none of the phrases of `toGRPCError` and becomes
  Internal, as does a refused connection; `docs/api.md:429` and `431` list
  InvalidArgument and Unavailable. No property is about it: the code of an error is one
  branch of one function.
* Two replicas that create the database at once get different answers, and the loser's
  "duplicate key" is a warning, whether the winner is a replica or what a replica that
  has given up left behind (the meeting creations of `WarnExplained`).
* `PgInsert` writes the text `<nil>` for a nil, sends an int64 exactly, as text, and an
  int as a double (`NumbersKept`).
* The first deployment always fails in its handler, and so fetches no certificates.
  A damaged `server.crt` or `client.crt` is skipped by its `creates`, is never made
  again, and every later run ends well with it; an openssl that is cut short on
  `client.crt` does not even fail the run it happens in. A damaged `ca.key` stops every
  later run. `CertificatesWork` says that these two files, and only after openssl was
  cut short on them, are the exceptions.

## Bounds

* **Router.** Three calls, two of them on PostgreSQL: enough for two handlers of one
  backend to disagree, and for one to drain while another runs. The backends not
  called still start and close. Two signals: one that is taken and one that finds
  the goroutine busy. The PostgreSQL calls need a deadline to end, the Redis call does
  not have one.
* **Postgres.** A pool of one with one idle place and two calls force every wait.
  `SelectData`, `InsertData`, `UpdateData` and `TestConnection` are, of each kind of
  method, the one that may do most (reads rows, has two statements, writes once, uses
  the default pool only). `MaxRetries` = 1 in place of database/sql's 2: a repetition,
  which is at once the last that asks for a new connection; the runs that end in a
  violation need none. A connection that finds no idle place needs a larger pool than the
  run has; the theorems are for every size, 25 and 5 among them.
* **Core, Redis.** Two calls, two keys, and the namespaces `a`, `ab` and `a:b`, with key
  names that make up the differences: `a` and `a:b` share a key, and `a` and `ab` would
  if the prefix had no separator. The first two have a value of their own each, the
  third only reads. `MaxTTL` is one second, since
  only "has an expiry" and "expires now" matter to the properties, and -1 stands for
  the negative ones. Two attempts are one retry; the default of go-redis is three.
* **Mongo.** Two calls, two ObjectIDs, and one text id that reads like the first of
  them; two fields with one value, since only which fields are there is told apart.
  When the ObjectIDs are used up an insert waits for ever, a bound and not a
  behaviour of the code (`Quiet`).
* **Health.** Three changes during one check: one per backend, or there and back.
* **Workspace.** `MaxStarts` = 2: a start and a restart, in the same environment or
  another. `MaxPlaced` = 1: the operator's file, before, between or after. Two replicas
  are enough for two creations to meet. Five environments and five ways to connect,
  named in `MCWorkspace`, have one case of each treatment: a word, a switch that is on
  or off, a number that is none, a path that is not there; plain, verified, foreign,
  absent and broken credentials. `Mantissa` = 3 makes 9 the first integer that is not a
  double, in place of 2^53 + 1, and the inputs are one number below and one above.
* **Deploy.** `MaxRuns` = 4 with `MaxFaults` = 2, which counts crashes, interruptions and
  failures of openssl on good inputs together: a run that leaves something, two that are
  hit, and one that ends well. Two configurations, with and without mTLS.

## Fairness

`Router!Fairness` gives weak fairness to the main goroutine, to the signal goroutine,
to each handler up to its driver call, and to the end of each bounded context: the Go
scheduler runs every runnable goroutine, and a `context.WithTimeout` fires. Databases,
callers, the operator and the listener owe nothing, so a query may hang for ever;
`ShutdownCompletes` therefore asks for a deadline on each PostgreSQL call, and
`TimedCallsEnd` says nothing of PostgreSQL.

`Postgres!Fairness` also lets every statement end (`MethodStep`), because there the
question is whether the pool blocks on itself and not whether the server hangs, and is
strong for `Acquire`: database/sql hands a free connection to a request chosen at
random among those that wait, so one that is enabled again and again is served.

The other modules have no liveness property and state no fairness: a replica, a
deployer or an operator may stop anywhere.

## Proofs

Every theorem is about the module's whole specification and holds for every value of
its constants that the named assumptions allow.

| Module | Theorems about | For any |
|---|---|---|
| `RouterProofs` | `TypeOK`, `NoUseAfterClose`, `OrderlyExit`, `VerdictStable`, `RedisRecovers`; `ShutdownProgress`, `ShutdownNeverStuck`; refinement of `Lifecycle` | calls, backends and deadlines of theirs, number of signals |
| `PostgresProofs` | `TypeOK`, `PoolAccounting`, `NothingLeft`, `EffectMatchesReply`, `WaitersAreServed` | finite set of calls, methods, sizes of the pool, number of repetitions |
| `MongoProofs` | `TypeOK`, `EffectMatchesReply`, `CountsExplained`, `FindExplained`, `FieldsKept`, `CustomIdsPermanent`; `GivenIdsRefused` | finite sets of calls and ObjectIDs, texts, ids of the callers' own, fields, values |
| `RedisProofs` | `TypeOK`, `SetReported`, `ReadsExplained`, `ValueWasThere`, `DeletionsMatchCreations` | finite sets of calls and keys, values, longest expiry, number of attempts |
| `CoreProofs` | refinement of `Redis`; `CoreTypeOK`, `Isolated`, `MissExplained`; `NoCollision` | namespaces that are not empty, names of keys, values of each |
| `HealthProofs` | `TypeOK`, `StatusesExplained`, `QuietCheckAgrees` | number of changes during a check |
| `StartupProofs` | `WorkspaceTypeOK`, `RunsOneFile`, `FileIsKept`, `VerifiedOnly`, `QuietMeansReady`, `WarnExplained`, `NumbersKept` | files, environments, options, replicas, inputs, number of starts, bits of a double |
| `DeployProofs` | `ProxyFollows`, `CertificatesWork`, `StaleAfterFailure` | configurations, number of runs and of faults |

The assumptions are types and finiteness (a file of the operator's has a value for
every field, as json.Unmarshal gives it one: `ContentsAssumption`), but for one: in
`Core` nobody stores the empty string, which reads like a miss (`MissAssumption`).
`Isolated` says the more, the fewer values two applications have in common; in its run
they have none.

**Router.** `TypeCorrect` is proved first. The safety invariants are not inductive:
that a waiting handler has an open client depends on `Close` not having run, which
depends on how far the handshake between `GracefulStop` and `Serve` has come.
`Inductive` is the conjunction of

* `StartupInv`: during start-up there are no handlers, and a client not yet
  initialised is nil;
* `HandshakeInv`: which states of `main`, `sig` and `grpc` go together, and that a
  stopped server has no handler in flight;
* `CloseInv`: a client is closed only once `main` has exited, and then none is open;
* `ReplyInv` and `RedisInv`: an "unavailable" answer was given over a nil client, any
  other over one that is not nil, and an enabled Redis has a client after start-up.

`StartupStep`, `ServerStep`, `HandlerLemma` and `QuietStep` show that each group of
actions keeps it; `Refinement` maps every step to a step of `Lifecycle` or a stutter,
with the same invariant.

**Postgres.** `IInv` adds to the type invariant and the pool's accounting where a call
may hold a connection or a temporary pool (`PlaceInv`) and how its effects compare with
the connections it has lost (`EffectInv`: every effect but the one answered cost a
connection; how many have been lost at each place of the handler is bounded by the
repetitions of the statement). `WaitersAreServed` follows by counting: a full pool
without an idle connection is all in hand, and `PlaceInv` says where its holders are.
The cardinality of `held` is counted with `FS_AddElement` and `FS_RemoveElement`.

The liveness of both modules stays with TLC, but what it rests on is proved.
`ShutdownProgress` counts the steps that main and the signal goroutine have left once a
signal is caught, at most seven: their steps lower the count and no other step raises
it. `ShutdownNeverStuck` says that one of the two can go on unless a handler is in
flight. `WaitersAreServed` says of the pool that a call only ever waits for one that
waits for nobody. What is missing to `ShutdownCompletes` and `CallsEnd` is that handlers
and statements end and that every goroutine goes on, which is fairness.

**Mongo.** `Inv` has three layers. `TypeInv` adds to the types what a call is made of at
each place of its handler (`PlaceInv`: a write that was given up and is still on
its way has been answered with an error and has not taken effect) and which ids a write can name
(`KeyInv`: updates and deletions only ObjectIDs). `StoreInv` is about the collection:
`OnceInv` says that a generated ObjectID enters it at most once, since it belongs to one
insert; with it `EffectInv` holds, that a document deleted stays deleted, that two
deletions of it cannot both have counted it, and that what a write put there is there
while the document is. The late writes are why both speak of what is `Pending` and of
`took`, and not of answers. `CallInv` is about one call: its answer agrees with `took`
(`AnswerInv`), it has seen the collection as it is (`SeenInv`), and its cursor has found
what was there all the time among the ids it has gone over (`FoundInv`). `ExecuteStep`
says once what an execution does, `StepKinds` which steps execute, `OthersUntouched`
what they leave alone. `IdInv` follows an id from the request to the answer and back:
what `Shown` makes of an ObjectID is never what `IsHex` takes.

**Redis.** `CallInv` is about one call at a time: while in progress it has seen the
store as it is now, and at its second command it keeps what the first one saw, so
that two answers that disagree mean two stores seen. `WitnessStep` shows that the
steps of other calls only add to what is seen, `Unmoved` that they disturb nothing
else, and `DeliverStep`, `FailStep` and `AskStep` are the call's own.
`DeletionsMatchCreations` counts: for each key, the calls that were told they deleted
it, plus one if it is there, are no more than its creations. A repeated or a stray DEL
only makes the sum smaller.

**Core.** `CoreImplementsRedis` maps every step to a step of `Redis` or a stutter, so
the invariants of `Redis` are at hand. `NoCollision` is about sequences:
of two namespaces that share a key, the longer one has the separator where the shorter
one ends. `OwnInv` then says that a key holds, and that every answer and result carries,
only values within the reach of the application, and that every request would store a
value of its own; a stray SET, which arrives after its call has
ended, is the reason that it has to speak of requests as well as of the store.

**Health.** `PingInv` ties each status to the set of backends that were up at some
moment of the check, `OrderInv` says how far the two rounds have come.

**Workspace.** `ConfigInv` adds to `RunsOneFile` what the file may be, and that a
process about to write it has found none. `VerifiedOnly` follows from it: what the
operator asked for is read off file and environment, `AskedMeansVerified` is the
property of `Override`, `Build` and `parseClientAuth` together. `SaidInv` relates what
was printed to the state of the other replicas: a replica whose creation meets another
one, a stray one included, or finds the database made, is in `trouble`, and only one can
have said "ok".
`RestTypeOK` and `RouterPg` add that PostgreSQL is connected only while the process
serves, under the configuration it was opened with.
`NumberStored` follows a value through `Pack`, the column and `Unpack`, by cases of its
kind.

**Deploy.** `CertInv` is what makes the skipped tasks harmless: a file that is there,
usable or damaged, had what it needs, and no later step takes that away. `RestartInv`
says that a router that differs from its file has been promised a restart or left by
a failure; `ProxyInv` and `ModesInv` how far the present run has come.

**Checked by TLC only.** Every invariant and every action property that a run checks and
that holds is a theorem. What is left to TLC are the liveness properties
(`ShutdownCompletes`, `TimedCallsEnd`, `CallsEnd`), as fairness and ENABLED are beyond the
prover; and, naturally, the violations. `Health!TypeOK`, `Redis!TypeOK`,
`ShutdownProgress`, `ShutdownNeverStuck` and `GivenIdsRefused` are
proved and stated by no run of their own.

## Not modelled

* Data: rows, column types, key patterns, INFO's text, names of databases, tables and
  collections, except where a property is about them (the forms of an id). An `_id`
  that a caller sends is a text; an `_id` in an update, which the server refuses or
  ignores, is left out.
* SQL: what a statement does beyond "takes effect or not". A text that begins like a
  SELECT and changes data counts as a read.
* Databases' internals: durability, replication, isolation. A backend is up or down,
  and executes one command at a time.
* The other RPC of the server, reflection, which has no state.
* Terraform modules, workflows, examples: no behaviour of their own. Of the generated
  code, the handlers and the stubs are the first and last steps of a call; accessors,
  registration and descriptors (`dbrouter.pb.go`) are left out.
* The clients and connectors of the other languages, which repeat the Go ones.
* A bound on the sessions that calls for other databases open: the code has none
  (`database.go:127`), so there is nothing to state.
* The status codes of `toGRPCError` other than NotFound, and the phrases it looks for:
  no modelled caller acts on them. The core client looks at the message only.
* In the playbook: packages, the role `docker`, the firewall, which are idempotent and
  which nothing modelled reads; before it: the SSH key, Terraform, waiting for SSH,
  which only decide whether a run reaches the host.

## How to run it

```
tlc -workers 2 -config Router.cfg MCRouter.tla
tlc -workers 2 -config HealthCheck.cfg Health.tla
tlapm RouterProofs.tla
```

Each configuration names its bounds; `PROJECT.json` says which module it belongs to.
`mongo_safety`, `core`, `postgres` and `startup` take one to two minutes, the others less.
