\* A deployment, a changed configuration, and the runs after each that end well.
SPECIFICATION Spec
CONSTANTS
  Configs = {1, 2}
  MaxRuns = 4
  MaxFaults = 0
CHECK_DEADLOCK FALSE
INVARIANT RestartOnChange
