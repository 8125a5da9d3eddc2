SPECIFICATION Spec
CONSTANTS
  Bits = {0, 1, 2}
  NGroups = 2
  Trials <- CleanAndNoisy
  CleanSize = 2
  CleanPercentages = {1}
  NoisySize = 5
  NoisyPercentages = {1, 25, 40}
INVARIANTS LoopDecidesAccepts AcceptedNeedsEveryBit CleanFunctionAccepted
           AcceptedSplitsByMajority ZeroMaskRejected
CHECK_DEADLOCK FALSE
