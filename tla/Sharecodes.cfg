SPECIFICATION FairSpec
CONSTANTS
  u1 = u1
  u2 = u2
  c1 = c1
  c2 = c2
  c3 = c3
  Users = {u1, u2}
  Editors = {u2}
  Codes = {c1, c2}
  Chain <- MCChain
  MaxPerJob = 1
  Tries = 2
  MaxQueued = 1
  MaxEdits = 1
  MaxKills = 1
INVARIANTS
  NoCodeSkipped
  ParsedOnce
PROPERTIES
  CatchesUp
CHECK_DEADLOCK FALSE
