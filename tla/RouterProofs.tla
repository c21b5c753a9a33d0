---------------------------- MODULE RouterProofs ----------------------------
(***************************************************************************)
(* Router.tla for every set of calls, every assignment of calls to         *)
(* backends and every number of signals: its safety properties, and that   *)
(* it implements Lifecycle.tla.  Everything follows from the inductive     *)
(* invariant Inductive.                                                       *)
(***************************************************************************)
EXTENDS Router, TLAPS

\* Before Serve there are no handlers, and nothing has been closed.
StartupInv ==
  main \in Startup =>
    /\ \A c \in Calls : call[c] = "idle"
    /\ \A b \in Backends : client[b] # "closed"

\* The handshake between main in Serve and the goroutine in GracefulStop.
HandshakeInv ==
  /\ main \in Startup \ {"serve"} => sig = "absent" /\ grpc = "new"
  /\ grpc = "new" => main \in Startup
  /\ grpc = "serving" => main = "accepting"
  /\ sig \notin {"stopping", "done"} => grpc \in {"new", "serving"}
  /\ main = "accepting" => grpc \in {"serving", "quit"}
  /\ main = "returning" => grpc \in {"quit", "draining", "stopped"}
  /\ main \in {"closing", "exited"} => grpc = "stopped"
  /\ grpc = "stopped" => Drained

\* Clients are closed by main's last statement only.
CloseInv ==
  /\ exit = "zero" <=> main = "exited"
  /\ main = "exited" => \A b \in Backends : client[b] # "open"
  /\ \A b \in Backends : client[b] = "closed" => main = "exited"

\* A handler's verdict agrees with the client it was given.
ReplyInv ==
  \A c \in Calls :
    /\ reply[c] # "none" => call[c] = "replied"
    /\ reply[c] = "unavailable" => client[BackendOf[c]] = "nil"
    /\ reply[c] \in {"ok", "error", "invalid"} \/ call[c] = "waiting"
         => client[BackendOf[c]] # "nil"

\* Once initRedis has run, an enabled Redis has a client.
RedisInv ==
  enabled["redis"] /\ main \notin {"init_postgres", "init_mongo", "init_redis"}
    => client["redis"] # "nil"

Inductive == StartupInv /\ HandshakeInv /\ CloseInv /\ ReplyInv /\ RedisInv

-----------------------------------------------------------------------------
(* Type correctness.                                                       *)

LEMMA BackendType == \A c \in Calls : BackendOf[c] \in Backends
  BY BackendOfAssumption

LEMMA FinishType ==
  ASSUME TypeOK, NEW c \in Calls, NEW r \in Replies, Finish(c, r)
  PROVE  TypeOK'
  BY DEF TypeOK, Finish, CallStates, env, process

\* Every variable keeps to its domain; in particular sigCh never holds more than
\* the one signal it was made for.
THEOREM TypeCorrect == Spec => []TypeOK
<1>1. Init => TypeOK
  BY SignalAssumption DEF Init, TypeOK, ClientStates, MainStates, Startup,
     SigStates, GrpcStates, CallStates, Replies
<1>2. TypeOK /\ [Next]_vars => TypeOK'
  <2> SUFFICES ASSUME TypeOK, [Next]_vars PROVE TypeOK'
    OBVIOUS
  <2> USE DEF env, process, handlers
  <2>1. CASE InitPostgres
    BY <2>1 DEF InitPostgres, InitPinged, TypeOK, After, MainStates, Startup, ClientStates
  <2>2. CASE InitMongo
    BY <2>2 DEF InitMongo, InitPinged, TypeOK, After, MainStates, Startup, ClientStates
  <2>3. CASE InitRedis
    BY <2>3 DEF InitRedis, TypeOK, After, MainStates, Startup, ClientStates
  <2>4. CASE TLSOrListen
    BY <2>4 DEF TLSOrListen, TypeOK, After, MainStates, Startup
  <2>5. CASE Spawn
    BY <2>5 DEF Spawn, TypeOK, After, MainStates, Startup, SigStates
  <2>6. CASE Serve
    BY <2>6 DEF Serve, TypeOK, MainStates, GrpcStates
  <2>7. CASE LeaveAcceptLoop \/ ServeReturns
    BY <2>7 DEF LeaveAcceptLoop, ServeReturns, TypeOK, MainStates
  <2>8. CASE Close
    BY <2>8 DEF Close, TypeOK, MainStates, ClientStates
  <2>9. CASE SigStep
    BY <2>9 DEF SigStep, Notify, Receive, GracefulStop, GoAway, StopDone,
       TypeOK, SigStates, GrpcStates
  <2>10. CASE Signal
    BY <2>10, SignalAssumption DEF Signal, TypeOK
  <2>11. CASE AcceptFails
    BY <2>11 DEF AcceptFails, TypeOK
  <2>12. ASSUME NEW c \in Calls, Accept(c) \/ Dispatch(c)
         PROVE  TypeOK'
    BY <2>12 DEF Accept, Dispatch, TypeOK, CallStates
  <2>13. ASSUME NEW c \in Calls,
                NotEnabled(c) \/ Refuse(c) \/ Succeed(c) \/ Fail(c) \/ Expire(c)
         PROVE  TypeOK'
    BY <2>13, FinishType DEF NotEnabled, Refuse, Succeed, Fail, Expire, Replies
  <2>14. ASSUME NEW b \in Backends, Flap(b)
         PROVE  TypeOK'
    BY <2>14 DEF Flap, TypeOK
  <2>15. CASE Gone \/ UNCHANGED vars
    BY <2>15 DEF Gone, vars, TypeOK
  <2>16. QED
    BY <2>1, <2>2, <2>3, <2>4, <2>5, <2>6, <2>7, <2>8, <2>9, <2>10, <2>11,
       <2>12, <2>13, <2>14, <2>15 DEF Next, MainStep, HandlerStep
<1>3. QED
  BY <1>1, <1>2, PTL DEF Spec

-----------------------------------------------------------------------------
(* The inductive invariant.  Each lemma takes one group of actions.        *)

LEMMA InitInductive == Init => Inductive
  BY DEF Init, Inductive, StartupInv, HandshakeInv, CloseInv, ReplyInv, RedisInv,
     Drained, InFlight, Startup, Backends

\* db.New and the rest of main's start-up.
LEMMA StartupStep ==
  ASSUME TypeOK, Inductive,
         InitPostgres \/ InitMongo \/ InitRedis \/ TLSOrListen \/ Spawn
  PROVE  Inductive'
<1> USE BackendType DEF env, handlers, Running
<1>1. CASE InitPostgres
  BY <1>1 DEF InitPostgres, InitPinged, After, Startup, Backends, TypeOK, Inductive,
     StartupInv, HandshakeInv, CloseInv, ReplyInv, RedisInv, Drained, InFlight
<1>2. CASE InitMongo
  BY <1>2 DEF InitMongo, InitPinged, After, Startup, Backends, TypeOK, Inductive,
     StartupInv, HandshakeInv, CloseInv, ReplyInv, RedisInv, Drained, InFlight
<1>3. CASE InitRedis
  BY <1>3 DEF InitRedis, After, Startup, Backends, TypeOK, Inductive,
     StartupInv, HandshakeInv, CloseInv, ReplyInv, RedisInv, Drained, InFlight
<1>4. CASE TLSOrListen
  BY <1>4 DEF TLSOrListen, After, Startup, TypeOK, Inductive,
     StartupInv, HandshakeInv, CloseInv, ReplyInv, RedisInv, Drained, InFlight
<1>5. CASE Spawn
  BY <1>5 DEF Spawn, After, Startup, TypeOK, Inductive,
     StartupInv, HandshakeInv, CloseInv, ReplyInv, RedisInv, Drained, InFlight
<1>6. QED
  BY <1>1, <1>2, <1>3, <1>4, <1>5

\* Serve, GracefulStop and the exit of the process.
LEMMA ServerStep ==
  ASSUME TypeOK, Inductive,
         Serve \/ LeaveAcceptLoop \/ ServeReturns \/ Close \/ SigStep
           \/ Signal \/ AcceptFails
  PROVE  Inductive'
<1> USE BackendType DEF env, handlers, Running, Inductive, StartupInv, HandshakeInv,
        CloseInv, ReplyInv, RedisInv, Drained, InFlight, Startup, TypeOK
<1>1. CASE Serve
  BY <1>1 DEF Serve
<1>2. CASE LeaveAcceptLoop
  BY <1>2 DEF LeaveAcceptLoop
<1>3. CASE ServeReturns
  BY <1>3 DEF ServeReturns
<1>4. CASE Close
  BY <1>4 DEF Close, Backends
<1>5. CASE SigStep
  BY <1>5 DEF SigStep, Notify, Receive, GracefulStop, GoAway, StopDone
<1>6. CASE Signal
  BY <1>6 DEF Signal
<1>7. CASE AcceptFails
  BY <1>7 DEF AcceptFails
<1>8. QED
  BY <1>1, <1>2, <1>3, <1>4, <1>5, <1>6, <1>7

\* The handlers and the world outside.
LEMMA HandlerLemma ==
  ASSUME TypeOK, Inductive, NEW c \in Calls,
         Accept(c) \/ HandlerStep(c) \/ Succeed(c) \/ Fail(c) \/ Expire(c)
  PROVE  Inductive'
<1> USE BackendType DEF env, process, Running, Inductive, StartupInv, HandshakeInv,
        CloseInv, ReplyInv, RedisInv, Drained, InFlight, Startup, TypeOK
<1>1. CASE Accept(c)
  BY <1>1 DEF Accept
<1>2. CASE Dispatch(c)
  BY <1>2 DEF Dispatch
<1>3. CASE NotEnabled(c)
  BY <1>3 DEF NotEnabled, Finish
<1>4. CASE Refuse(c)
  BY <1>4 DEF Refuse, Finish
<1>5. CASE Succeed(c) \/ Fail(c) \/ Expire(c)
  BY <1>5 DEF Succeed, Fail, Expire, Finish
<1>6. QED
  BY <1>1, <1>2, <1>3, <1>4, <1>5 DEF HandlerStep

LEMMA QuietStep ==
  ASSUME Inductive, (\E b \in Backends : Flap(b)) \/ Gone \/ UNCHANGED vars
  PROVE  Inductive'
  BY DEF Flap, Gone, vars, process, handlers, Inductive, StartupInv, HandshakeInv,
     CloseInv, ReplyInv, RedisInv, Drained, InFlight

THEOREM Invariance == Spec => []Inductive
<1>1. TypeOK /\ Inductive /\ [Next]_vars => Inductive'
  BY StartupStep, ServerStep, HandlerLemma, QuietStep DEF Next, MainStep
<1>2. QED
  BY <1>1, InitInductive, TypeCorrect, PTL DEF Spec

-----------------------------------------------------------------------------
(* The safety properties.                                                  *)

\* No handler is inside a driver call on a client that Manager.Close has closed,
\* for any number of handlers, signals and backend failures.
THEOREM NoUseAfterCloseHolds == Spec => []NoUseAfterClose
<1>1. TypeOK /\ Inductive => NoUseAfterClose
  <2> SUFFICES ASSUME TypeOK, Inductive, NEW c \in Calls, call[c] = "waiting"
               PROVE  client[BackendOf[c]] = "open"
    BY DEF NoUseAfterClose
  <2>1. main # "exited"
    BY DEF Inductive, HandshakeInv, Drained, InFlight
  <2>2. client[BackendOf[c]] \notin {"nil", "closed"}
    BY <2>1, BackendType DEF Inductive, CloseInv, ReplyInv
  <2>3. QED
    BY <2>2, BackendType DEF TypeOK, ClientStates
<1>2. QED
  BY <1>1, TypeCorrect, Invariance, PTL

\* A process that exits with status zero has answered every RPC it admitted and
\* holds no open client.
THEOREM OrderlyExitHolds == Spec => []OrderlyExit
<1>1. Inductive => OrderlyExit
  BY DEF Inductive, HandshakeInv, CloseInv, OrderlyExit
<1>2. QED
  BY <1>1, Invariance, PTL

\* Two RPCs of one process never disagree on whether their backend is enabled.
THEOREM VerdictStableHolds == Spec => []VerdictStable
<1>1. Inductive => VerdictStable
  BY DEF Inductive, ReplyInv, VerdictStable
<1>2. QED
  BY <1>1, Invariance, PTL

\* An enabled Redis is never reported as not enabled.
THEOREM RedisRecoversHolds == Spec => []RedisRecovers
<1>1. Inductive => RedisRecovers
  BY DEF Inductive, StartupInv, ReplyInv, RedisInv, RedisRecovers, Startup
<1>2. QED
  BY <1>1, Invariance, PTL

-----------------------------------------------------------------------------
(* What ShutdownCompletes rests on.                                        *)

\* A signal has been caught, and the process is still there.
Stopping == Running /\ sig \in {"caught", "stopping", "done"}

\* How many steps the signal goroutine and main have left.
StepsOfSig ==
  CASE sig = "caught" -> 3
    [] sig = "stopping" /\ grpc = "quit" -> 2
    [] sig = "stopping" /\ grpc = "draining" -> 1
    [] OTHER -> 0
StepsOfMain ==
  CASE main = "serve" -> 4 [] main = "accepting" -> 3 [] main = "returning" -> 2
    [] main = "closing" -> 1 [] OTHER -> 0
StepsLeft == StepsOfSig + StepsOfMain

\* How far GracefulStop has come is known to the server and its goroutine alike.
StopInv ==
  /\ sig = "stopping" <=> grpc \in {"quit", "draining"}
  /\ sig = "done" <=> grpc = "stopped"

\* Once a signal is caught, every step of main or of the signal goroutine brings the
\* end nearer, and no other step takes it away again (main.go:64-75).
ShutdownProgress ==
  [][Stopping => \/ ~Running'
                 \/ /\ Stopping' /\ StepsLeft' <= StepsLeft
                    /\ MainStep \/ SigStep => StepsLeft' < StepsLeft]_vars

\* Without a handler in flight one of the two can go on: GracefulStop begins, the
\* accept loop ends or connections are told to go away, the stop is done, or main
\* leaves Serve or closes.  So a shutdown waits for handlers and for nothing else.
ShutdownNeverStuck ==
  Stopping /\ Drained =>
    \/ sig = "caught"
    \/ sig = "stopping" /\ grpc \in {"quit", "draining"}
    \/ grpc = "stopped" /\ main \in {"serve", "returning", "closing"}

LEMMA StopInvariance == Spec => []StopInv
<1>1. Init => StopInv
  BY DEF Init, StopInv
<1>2. StopInv /\ Inductive /\ [Next]_vars => StopInv'
  <2> SUFFICES ASSUME StopInv, Inductive, [Next]_vars PROVE StopInv'
    OBVIOUS
  <2>1. ASSUME UNCHANGED <<sig, grpc>> PROVE StopInv'
    BY <2>1 DEF StopInv
  <2>2. CASE InitPostgres \/ InitMongo \/ InitRedis \/ TLSOrListen \/ LeaveAcceptLoop
             \/ ServeReturns \/ Close \/ Signal \/ AcceptFails
    BY <2>1, <2>2 DEF InitPostgres, InitMongo, InitRedis, InitPinged, TLSOrListen,
       LeaveAcceptLoop, ServeReturns, Close, Signal, AcceptFails
  <2>3. CASE Spawn \/ SigStep
    BY <2>3 DEF Spawn, SigStep, Notify, Receive, GracefulStop, GoAway, StopDone, StopInv,
       Inductive, HandshakeInv, Startup
  <2>4. CASE Serve
    BY <2>4 DEF Serve, StopInv
  <2>5. ASSUME NEW c \in Calls,
               Accept(c) \/ HandlerStep(c) \/ Succeed(c) \/ Fail(c) \/ Expire(c)
        PROVE  StopInv'
    BY <2>1, <2>5 DEF Accept, HandlerStep, NotEnabled, Refuse, Dispatch, Succeed, Fail,
       Expire, Finish, process
  <2>6. CASE (\E b \in Backends : Flap(b)) \/ Gone \/ UNCHANGED vars
    BY <2>1, <2>6 DEF Flap, Gone, vars, process
  <2>7. QED
    BY <2>2, <2>3, <2>4, <2>5, <2>6 DEF Next, MainStep
<1>3. QED
  BY <1>1, <1>2, Invariance, PTL DEF Spec

\* A caught signal leaves main and its goroutine at most seven steps in all, and none
\* of the other goroutines, callers or signals gives them more.
THEOREM ShutdownProgressHolds == Spec => ShutdownProgress
<1> DEFINE Progress ==
      Stopping => \/ ~Running'
                  \/ /\ Stopping' /\ StepsLeft' <= StepsLeft
                     /\ MainStep \/ SigStep => StepsLeft' < StepsLeft
<1>1. TypeOK /\ Inductive /\ StopInv /\ [Next]_vars => [Progress]_vars
  <2> SUFFICES ASSUME TypeOK, Inductive, StopInv, [Next]_vars, Stopping, Running', vars' # vars
               PROVE  /\ Stopping' /\ StepsLeft' <= StepsLeft
                      /\ MainStep \/ SigStep => StepsLeft' < StepsLeft
    OBVIOUS
  <2>1. main \in {"serve", "accepting", "returning", "closing", "exited"}
    BY DEF Stopping, Inductive, HandshakeInv, Startup, TypeOK, MainStates
  <2>2. StepsOfSig \in Nat /\ StepsOfMain \in Nat
    BY DEF StepsOfSig, StepsOfMain
  <2>3. ASSUME UNCHANGED <<sig, grpc, main>> PROVE Stopping' /\ StepsLeft' = StepsLeft
    BY <2>3 DEF Stopping, StepsLeft, StepsOfSig, StepsOfMain
  <2>4. CASE Serve \/ LeaveAcceptLoop \/ ServeReturns \/ Close
    <3>1. UNCHANGED sig /\ StepsOfSig' = StepsOfSig
      BY <2>4 DEF Serve, LeaveAcceptLoop, ServeReturns, Close, Stopping, StepsOfSig, StopInv,
         Running
    <3>2. StepsOfMain' = StepsOfMain - 1
      BY <2>4 DEF Serve, LeaveAcceptLoop, ServeReturns, Close, Running, StepsOfMain
    <3>3. QED
      BY <2>2, <3>1, <3>2 DEF Stopping, StepsLeft
  <2>5. CASE SigStep
    <3>1. UNCHANGED main /\ StepsOfMain' = StepsOfMain
      BY <2>5 DEF SigStep, Notify, Receive, GracefulStop, GoAway, StopDone, StepsOfMain
    <3>2. Stopping' /\ StepsOfSig' = StepsOfSig - 1
      BY <2>5 DEF SigStep, Notify, Receive, GracefulStop, GoAway, StopDone, Stopping,
         StepsOfSig, Running
    <3>3. QED
      BY <2>2, <3>1, <3>2 DEF StepsLeft
  <2>6. CASE InitPostgres \/ InitMongo \/ InitRedis \/ TLSOrListen \/ Spawn
    BY <2>1, <2>6 DEF InitPostgres, InitMongo, InitRedis, InitPinged, TLSOrListen, Spawn
  <2>7. ASSUME ~MainStep, ~SigStep PROVE UNCHANGED <<sig, grpc, main>>
    <3>1. CASE Signal \/ AcceptFails
      BY <3>1 DEF Signal, AcceptFails
    <3>2. ASSUME NEW c \in Calls,
                 Accept(c) \/ HandlerStep(c) \/ Succeed(c) \/ Fail(c) \/ Expire(c)
          PROVE  UNCHANGED <<sig, grpc, main>>
      BY <3>2 DEF Accept, HandlerStep, NotEnabled, Refuse, Dispatch, Succeed, Fail, Expire,
         Finish, process
    <3>3. CASE (\E b \in Backends : Flap(b)) \/ Gone
      BY <3>3 DEF Flap, Gone, vars, process
    <3>4. QED
      BY <2>7, <3>1, <3>2, <3>3 DEF Next
  <2>8. StepsLeft \in Nat
    BY <2>2 DEF StepsLeft
  <2>9. QED
    BY <2>3, <2>4, <2>5, <2>6, <2>7, <2>8 DEF MainStep
<1>2. QED
  BY <1>1, TypeCorrect, Invariance, StopInvariance, PTL DEF ShutdownProgress, Spec

\* A shutdown that stands still waits for a handler.
THEOREM ShutdownNeverStuckHolds == Spec => []ShutdownNeverStuck
<1>1. TypeOK /\ Inductive /\ StopInv => ShutdownNeverStuck
  BY DEF ShutdownNeverStuck, Stopping, Running, StopInv, Inductive, HandshakeInv, CloseInv,
     Startup, TypeOK, MainStates
<1>2. QED
  BY <1>1, TypeCorrect, Invariance, StopInvariance, PTL

-----------------------------------------------------------------------------
(* The refinement of Lifecycle.tla.                                        *)

LEMMA RefinesInit == Init => L!Init
  BY DEF Init, L!Init, absPhase, absPending, absAnswered, absHeld, Running,
     InFlight, Startup

LEMMA RefinesStartup ==
  ASSUME TypeOK, Inductive, InitPostgres \/ InitMongo \/ InitRedis
  PROVE  (\E b \in Backends : L!Acquire(b)) \/ UNCHANGED L!vars
<1> USE DEF env, handlers, Running, Startup, After, TypeOK, absPhase, absPending,
        absAnswered, absHeld, InFlight
<1>1. ASSUME NEW b \in Backends, client' = [client EXCEPT ![b] = "open"],
             main \in Startup, main' \in Startup, Running, UNCHANGED <<exit, call>>
      PROVE  L!Acquire(b)
  BY <1>1 DEF L!Acquire
<1>2. ASSUME client' = client, main \in Startup, main' \in Startup, Running,
             UNCHANGED <<exit, call>>
      PROVE  UNCHANGED L!vars
  BY <1>2 DEF L!vars
<1>3. CASE InitPostgres
  BY <1>1, <1>2, <1>3 DEF InitPostgres, InitPinged, Backends
<1>4. CASE InitMongo
  BY <1>1, <1>2, <1>4 DEF InitMongo, InitPinged, Backends
<1>5. CASE InitRedis
  BY <1>1, <1>2, <1>5 DEF InitRedis, Backends
<1>6. QED
  BY <1>3, <1>4, <1>5

LEMMA RefinesServer ==
  ASSUME TypeOK, Inductive,
         TLSOrListen \/ Spawn \/ Serve \/ LeaveAcceptLoop \/ ServeReturns
           \/ Close \/ SigStep \/ Signal \/ AcceptFails
  PROVE  L!Open \/ L!Drain \/ L!Stop \/ L!Abort \/ UNCHANGED L!vars
<1> USE DEF env, handlers, Running, Startup, absPhase, absPending, absAnswered, absHeld,
        InFlight, Inductive, HandshakeInv, CloseInv, Drained
<1>1. CASE TLSOrListen
  BY <1>1 DEF TLSOrListen, After, L!Abort, L!vars
<1>2. CASE Spawn
  BY <1>2 DEF Spawn, After, L!vars
<1>3. CASE Serve
  BY <1>3 DEF Serve, L!Open, L!Abort
<1>4. CASE LeaveAcceptLoop \/ ServeReturns
  BY <1>4 DEF LeaveAcceptLoop, ServeReturns, L!vars
<1>5. CASE Close
  <2>1. absPhase = "draining" /\ absPhase' = "stopped"
    BY <1>5 DEF Close
  <2>2. absPending = {} /\ absHeld' = {}
    BY <1>5 DEF Close
  <2>3. UNCHANGED <<absPending, absAnswered>>
    BY <1>5 DEF Close
  <2>4. QED
    BY <2>1, <2>2, <2>3 DEF L!Stop
<1>6. CASE SigStep
  BY <1>6 DEF SigStep, Notify, Receive, GracefulStop, GoAway, StopDone, L!Drain, L!vars
<1>7. CASE Signal
  BY <1>7 DEF Signal, L!Abort, L!vars
<1>8. CASE AcceptFails
  BY <1>8 DEF AcceptFails, L!Abort
<1>9. QED
  BY <1>1, <1>2, <1>3, <1>4, <1>5, <1>6, <1>7, <1>8

LEMMA RefinesHandler ==
  ASSUME TypeOK, Inductive, NEW c \in Calls,
         Accept(c) \/ HandlerStep(c) \/ Succeed(c) \/ Fail(c) \/ Expire(c)
  PROVE  L!Accept(c) \/ L!Answer(c) \/ UNCHANGED L!vars
<1> USE DEF env, process, Running, Startup, absPhase, absPending, absAnswered, absHeld,
        InFlight
<1>1. CASE Accept(c)
  BY <1>1 DEF Accept, TypeOK, L!Accept
<1>2. CASE Dispatch(c)
  BY <1>2 DEF Dispatch, TypeOK, L!vars
<1>3. ASSUME NEW r \in Replies, Running, InFlight(c), Finish(c, r)
      PROVE  L!Answer(c)
  <2>1. absPhase \in {"serving", "draining"} /\ UNCHANGED <<absPhase, absHeld>>
    BY <1>3 DEF Finish, Inductive, StartupInv
  <2>2. c \in absPending /\ absPending' = absPending \ {c}
    BY <1>3 DEF Finish, TypeOK
  <2>3. absAnswered' = absAnswered \union {c}
    BY <1>3 DEF Finish, TypeOK
  <2>4. QED
    BY <2>1, <2>2, <2>3 DEF L!Answer
<1>4. CASE NotEnabled(c) \/ Refuse(c) \/ Succeed(c) \/ Fail(c) \/ Expire(c)
  BY <1>3, <1>4 DEF NotEnabled, Refuse, Succeed, Fail, Expire, Replies
<1>5. QED
  BY <1>1, <1>2, <1>4 DEF HandlerStep

\* The router implements Lifecycle: clients come before calls, no call is accepted
\* once it drains, and an orderly stop follows the last answer and gives every
\* client back.
THEOREM Refinement == Spec => ImplementsLifecycle
<1>1. TypeOK /\ Inductive /\ [Next]_vars => [L!Next]_(L!vars)
  <2> SUFFICES ASSUME TypeOK, Inductive, [Next]_vars PROVE [L!Next]_(L!vars)
    OBVIOUS
  <2>1. CASE (\E b \in Backends : Flap(b)) \/ Gone \/ UNCHANGED vars
    BY <2>1 DEF Flap, Gone, vars, process, handlers, L!vars, absPhase, absPending,
       absAnswered, absHeld, Running, InFlight
  <2>2. QED
    BY <2>1, RefinesStartup, RefinesServer, RefinesHandler DEF Next, MainStep, L!Next
<1>2. QED
  BY <1>1, RefinesInit, TypeCorrect, Invariance, PTL
     DEF Spec, ImplementsLifecycle, L!Spec
=============================================================================
