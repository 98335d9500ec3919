SPECIFICATION Spec
CONSTANTS
  Runs = {u1, u2}
  NumBatches = 1
  MaxAttempts = 1
  RoundMarks <- MCNoRounds
  MaxStrays = 1
  MaxCrashes = 0
SYMMETRY RunSymmetry
INVARIANTS
  CountedOnce
PROPERTIES
  ReopenedByOthers
CHECK_DEADLOCK FALSE
