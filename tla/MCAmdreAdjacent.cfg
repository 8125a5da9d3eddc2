SPECIFICATION Spec
CONSTANTS
  NCompare = 1
  MaxGroupSize = 17
  NInitialTHPs = 2
  NAdditionalTHPs = 1
  PageSize = 4
  PagesPerTHP = 2
  Base = 96
  InitialSizes = {1}
  OddSizes = {}
  WantedSizes = {0}
  MinimumSizes = {1}
  StartOffsets = {0}
  EndOffsets = {2}
  InterleavedSizes = {}
  XorBits = {0}
  Memories <- AllMemories
  Mappings <- SecondFirst
  Options <- AllOptions
INVARIANT DetectedBlocksInOneBank
CHECK_DEADLOCK FALSE
