SPECIFICATION Spec
CONSTANTS
  Bits = {0, 1, 2, 3}
  IntBits = 3
  Trials <- AllTrials
  FewBits = {0, 1, 2}
  NAddresses = {2, 3, 4, 5, 6, 7, 8}
  MaxFunctions = 3
  MaxMaskBits = 3
  Percentages = {1, 40}
INVARIANTS KeptIndependent KeptSpansFound KeptIsScheduleIndependent
           RightSuccessIsOrthogonal OrthogonalSuccessTellsApart
PROPERTY CompleteMeasurementSucceeds
CHECK_DEADLOCK FALSE
