CONSTANTS
  Images = {a, b, c}
  a = a
  b = b
  c = c
  None = None
SPECIFICATION Spec
INVARIANTS
  WantedIsPreloaded
PROPERTIES
  FailuresHeal
