SPECIFICATION Spec
CONSTANTS
  NCompare = 1
  MaxGroupSize = 17
  NInitialTHPs = 2
  NAdditionalTHPs = 1
  PageSize = 4
  PagesPerTHP = 2
  Base = 96
  InitialSizes = {1}
  OddSizes = {}
  WantedSizes = {0}
  MinimumSizes = {1}
  StartOffsets = {1}
  EndOffsets = {2}
  InterleavedSizes = {1}
  XorBits = {}
  Memories <- AllMemories
  Mappings <- SecondFirst
  Options <- AllOptions
INVARIANT StartOffsetSkipsPages
CHECK_DEADLOCK FALSE
