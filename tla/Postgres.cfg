\* Two calls, one of them with a deadline, over a pool of one connection.  Of each
\* kind of method the one that may do most: the other six do what SelectData (the
\* readers) or UpdateData (the writers) do, or less.
SPECIFICATION FairSpec
CONSTANTS
  c1 = c1
  c2 = c2
  Calls = {c1, c2}
  Ops = {"SelectData", "InsertData", "UpdateData", "TestConnection"}
  MaxOpen = 1
  MaxIdle = 1
  MaxRetries = 1
  HasDeadline = {c1}
INVARIANTS TypeOK NothingLeft EffectMatchesReply PoolAccounting WaitersAreServed
PROPERTY CallsEnd
