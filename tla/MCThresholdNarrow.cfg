SPECIFICATION Spec
CONSTANTS
  PagesPerTHP = 10
  MaxBin = 6
  MaxMeasurements = 4
  Setups <- AllSetups
  Histograms <- HistogramsOf
INVARIANT HitsSeparated
CHECK_DEADLOCK FALSE
