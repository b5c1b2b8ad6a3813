CONSTANTS
  Goroutines = {g1}
  g1 = g1
  MaxInstances = 4
  MaxRawLen = 2
  MaxRenames = 0
  MaxNameLen = 4
SPECIFICATION Spec
CHECK_DEADLOCK FALSE
INVARIANTS
  SidecarsUseParentsService
