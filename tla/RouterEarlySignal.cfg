\* A signal caught before Serve has started.
SPECIFICATION Spec
CONSTANTS
  c1 = c1
  c2 = c2
  c3 = c3
  Calls <- SharedCalls
  BackendOf <- OneEach
  HasDeadline = {}
  MaxSignals = 1
  AcceptMayFail = FALSE
INVARIANT ShutdownIsGraceful
