\* Up to four runs of two configurations, with and without mTLS, two faults.
SPECIFICATION Spec
CONSTANTS
  Configs = {1, 2}
  MaxRuns = 4
  MaxFaults = 2
\* After the last run the host is left alone.
CHECK_DEADLOCK FALSE
INVARIANTS ProxyFollows CertificatesWork StaleAfterFailure
