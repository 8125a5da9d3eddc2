SPECIFICATION Spec
CONSTANTS
  NCompare = 1
  MaxGroupSize = 17
  NInitialTHPs = 2
  NAdditionalTHPs = 1
  PageSize = 4
  PagesPerTHP = 2
  Base = 96
  InitialSizes = {1, 2, 4}
  OddSizes = {3}
  WantedSizes = {0, 1, 4, 6, 8}
  MinimumSizes = {1, 2}
  StartOffsets = {0, 1}
  EndOffsets = {1, 2}
  InterleavedSizes = {1, 2, 4, 8, 16}
  XorBits = {0}
  Memories <- AllMemories
  Mappings <- SecondFirst
  Options <- AllOptions
INVARIANTS TypeOK HeadsOnly ExpansionComplete AdditionsComplete GroupsStayFilled MinimumRespected
PROPERTIES StepsMeetSize DetectionFindsBlocks
CHECK_DEADLOCK FALSE
