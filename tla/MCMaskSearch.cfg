SPECIFICATION Spec
CONSTANTS
  NCandidates = 10
  NThreads = 3
  Stride = 3
  Valid = {0, 1, 2, 3, 10}
INVARIANTS TypeOK NothingLost ReportedOnce
PROPERTIES PushesAreKept QuietAfterJoin SearchEnds ImplementsHarvest
CHECK_DEADLOCK FALSE
