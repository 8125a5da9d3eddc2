SPECIFICATION Spec
CONSTANTS
  NInitialTHPs = 1
  NAdditionalTHPs = 1
  StartBlock = 1
  EndBlock = 4
  NCompare = 2
  Banks = {0, 1, 2}
  Rows = {0, 1}
  Layouts <- AllLayouts
INVARIANTS TypeOK EveryAddressAccounted NoAddressTwice NoEmptyGroup Homogeneous NoBankMissed OneGroupPerBank
PROPERTIES MedianHolds GroupingEnds
CHECK_DEADLOCK FALSE
