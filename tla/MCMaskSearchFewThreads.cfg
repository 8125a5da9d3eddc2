SPECIFICATION Spec
CONSTANTS
  NCandidates = 5
  NThreads = 2
  Stride = 3
  Valid = {0, 1, 2, 4}
INVARIANT ThreadOptionLosesNothing
CHECK_DEADLOCK FALSE
