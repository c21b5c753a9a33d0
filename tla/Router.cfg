\* Two PostgreSQL calls with deadlines and a Redis call without one, two signals, a
\* listener that may fail.
SPECIFICATION FairSpec
CONSTANTS
  c1 = c1
  c2 = c2
  c3 = c3
  Calls <- SharedCalls
  BackendOf <- SharedBackend
  HasDeadline = {c1, c2}
  MaxSignals = 2
  AcceptMayFail = TRUE
INVARIANTS TypeOK NoUseAfterClose OrderlyExit VerdictStable RedisRecovers
PROPERTIES ImplementsLifecycle ShutdownCompletes TimedCallsEnd
