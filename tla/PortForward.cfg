CONSTANTS
  Callers = {c1, c2}
  c1 = c1
  c2 = c2
  LocalPorts = {p1, p2}
  p1 = p1
  p2 = p2
  MaxRetries = 2
SPECIFICATION Spec
CHECK_DEADLOCK FALSE
INVARIANTS
  TypeOK
  ReturnedPortsDiffer
  LeakNeedsTimeout
PROPERTIES
  ForwardReturns
