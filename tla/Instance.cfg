CONSTANTS
  Mains = {m1}
  Sidecars = {s1, s2}
  Shapers = {s1}
  Ports = {p1, p2}
  MaxTotalFiles = 2
  MaxEdits = 2
  MaxFaults = 1
  m1 = m1
  s1 = s1
  s2 = s2
  p1 = p1
  p2 = p2
SPECIFICATION Spec
CHECK_DEADLOCK FALSE
INVARIANTS
  TypeOK
  CleanAfterDestroy
  PodReflectsSettings
  PodIsAuthorized
  NetworkRestored
  NoLeftovers
  StoppedHasNoPod
  SidecarsFollowParent
  RestartsWork
PROPERTIES
  StartDeploysAll
  OnlyDestroyLosesData
  ImplementsLifecycle
SYMMETRY PortSymmetry
