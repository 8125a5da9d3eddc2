SPECIFICATION Spec
CONSTANTS
  PagesPerTHP = 10
  MaxBin = 6
  MaxMeasurements = 4
  Setups <- AllSetups
  Histograms <- HistogramsOf
INVARIANTS TypeOK SpreadHitsSeparated MedianShields FailureNeedsMajority
CHECK_DEADLOCK FALSE
