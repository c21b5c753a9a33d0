\* Two replicas of an application, a router that is started twice.
SPECIFICATION Spec
CONSTANTS
  Contents <- TwoContents
  Envs <- FiveEnvs
  MaxStarts = 2
  MaxPlaced = 1
  Readable = {"server.crt", "ca.crt"}
  Mantissa = 3
  Replicas = {"r1", "r2"}
  Options <- FiveOptions
  Inputs <- ThreeInputs
  PgPort = 5433
\* A router that was killed may never be started again: then nothing happens any more.
CHECK_DEADLOCK FALSE
INVARIANTS WorkspaceTypeOK RunsOneFile FileIsKept QuietMeansReady WarnExplained VerifiedOnly NumbersKept
