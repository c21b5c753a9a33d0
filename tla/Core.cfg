\* Two calls, of three applications or of a caller of the stubs; one namespace is a
\* prefix of the others, and one of these continues it with the separator; two
\* attempts per command.
SPECIFICATION CoreSpec
CONSTANTS
  c1 = c1
  c2 = c2
  v1 = v1
  v2 = v2
  Calls = {c1, c2}
  Keys <- PrefixedKeys
  Vals = {v1, v2}
  Ops <- Methods
  MaxTTL = 1
  MaxTries = 2
  Namespaces <- Prefixed
  Uses <- PrefixedUses
  Owned <- OwnValues
SYMMETRY CallSymmetry
INVARIANTS CoreTypeOK SetReported ReadsExplained ValueWasThere DeletionsMatchCreations Isolated MissExplained
