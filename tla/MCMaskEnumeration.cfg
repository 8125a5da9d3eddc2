SPECIFICATION Spec
CONSTANTS
  WordBits = 10
  SkipLastNBits = 2
  MaxMaskBits = 4
  NThreads = 5
  Stride = 3
PROPERTY WalksTheOrder
CHECK_DEADLOCK FALSE
