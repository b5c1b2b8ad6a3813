CONSTANTS
  ProxyEnabled = TRUE
  MaxRuns = 1
  MaxFaults = 0
SPECIFICATION Spec
CHECK_DEADLOCK FALSE
INVARIANTS
  CleanUpLeavesNothing
