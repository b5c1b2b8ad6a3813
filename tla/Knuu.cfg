CONSTANTS
  ProxyEnabled = TRUE
  MaxRuns = 3
  MaxFaults = 2
SPECIFICATION Spec
CHECK_DEADLOCK FALSE
INVARIANTS
  WorkIsGuarded
PROPERTIES
  TimeoutCleansUp
