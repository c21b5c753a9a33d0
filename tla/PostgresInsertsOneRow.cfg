\* Two calls, and a lost answer to the first INSERT.
SPECIFICATION Spec
CONSTANTS
  c1 = c1
  c2 = c2
  Calls = {c1, c2}
  Ops = {"InsertData"}
  MaxOpen = 2
  MaxIdle = 1
  MaxRetries = 0
  HasDeadline = {}
INVARIANT InsertsOneRow
