\* Two calls, and a connection that breaks between two rows of ListDatabases.
SPECIFICATION Spec
CONSTANTS
  c1 = c1
  c2 = c2
  Calls = {c1, c2}
  Ops = {"ListDatabases"}
  MaxOpen = 2
  MaxIdle = 1
  MaxRetries = 0
  HasDeadline = {}
INVARIANT CompleteOrError
