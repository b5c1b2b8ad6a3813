CONSTANTS
  Goroutines = {g1, g2}
  g1 = g1
  g2 = g2
  Buckets = {b1}
  b1 = b1
  None = None
  MaxRuns = 3
  MaxFaults = 2
SPECIFICATION Spec
CHECK_DEADLOCK FALSE
INVARIANTS
  DeploymentHasClaim
  PanicsOnce
  ConflictNeedsRace
  GhostNeedsRace
PROPERTIES
  NewReturns
  CallsEnd
