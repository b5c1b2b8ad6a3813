CONSTANTS
  Goroutines = {g1, g2}
  g1 = g1
  g2 = g2
  MaxInstances = 4
  MaxRawLen = 2
  MaxRenames = 1
  MaxNameLen = 4
SPECIFICATION Spec
SYMMETRY GoroutineSymmetry
CHECK_DEADLOCK FALSE
INVARIANTS
  RegisteredNamesAreValid
  NamesAreUnique
  NamesAreReclaimed
  PodsHaveOwners
  StartedMeansDeployed
