\* Every set of clients; backends change up to three times during a check.
SPECIFICATION Spec
CONSTANT Flaps = 3
INVARIANTS QuietCheckAgrees StatusesExplained
