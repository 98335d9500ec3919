SPECIFICATION FairSpec
CONSTANTS
  d1 = d1
  d2 = d2
  d3 = d3
  d4 = d4
  w1 = w1
  w2 = w2
  w3 = w3
  NoTask = NoTask
  Jobs = {d1, d2}
  Known = {d1}
  Workers = {w1, w2}
  MaxConcurrent = 2
  Tries = 2
  MaxKills = 1
INVARIANTS
  UsageCoversHolders
  UploadsBounded
  ParsesAreRecorded
PROPERTIES
  EveryJobSettles
CHECK_DEADLOCK FALSE
