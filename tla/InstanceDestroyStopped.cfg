CONSTANTS
  Mains = {m1}
  Sidecars = {}
  Shapers = {}
  Ports = {p1, p2}
  MaxTotalFiles = 1
  MaxEdits = 0
  MaxFaults = 0
  m1 = m1
  p1 = p1
  p2 = p2
SPECIFICATION Spec
CHECK_DEADLOCK FALSE
INVARIANTS
  DestroySkipsDestroyedPod
SYMMETRY PortSymmetry
