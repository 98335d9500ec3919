SPECIFICATION FairSpec
CONSTANTS
  Runs = {u1}
  NumBatches = 2
  MaxAttempts = 2
  RoundMarks <- MCRoundMarks
  MaxStrays = 1
  MaxCrashes = 1
INVARIANTS
  DeliveredInOrder
  CompletedRunIsWhole
PROPERTIES
  PromiseKept
  EveryRunEnds
CHECK_DEADLOCK FALSE
