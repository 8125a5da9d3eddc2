SPECIFICATION Spec
CONSTANTS
  Bits = {0}
  NGroups = 2
  Trials <- Noisy
  CleanSize = 0
  CleanPercentages = {}
  NoisySize = 6
  NoisyPercentages = {40}
INVARIANT FirstAddressMayBeWrong
CHECK_DEADLOCK FALSE
