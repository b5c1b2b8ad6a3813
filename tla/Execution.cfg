CONSTANTS
  MaxStarts = 2
  MaxFlaps = 1
  MaxFaults = 1
SPECIFICATION Spec
CHECK_DEADLOCK FALSE
INVARIANTS
  CallbackMeansReady
  PanicNeedsFailure
  StalePodNeedsOverlap
  StoppedPodWillEnd
PROPERTIES
  CallsReturn
