SPECIFICATION Spec
CONSTANTS
  Runs = {u1}
  NumBatches = 1
  MaxAttempts = 1
  RoundMarks <- MCNoRounds
  MaxStrays = 0
  MaxCrashes = 0
INVARIANT
  CompletedMeansDelivered
CHECK_DEADLOCK FALSE
