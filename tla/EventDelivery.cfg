SPECIFICATION Spec
CONSTANTS
  j1 = j1
  j2 = j2
  h1 = h1
  h2 = h2
  Jobs = {j1, j2}
  Hosts = {h1}
  HostOf <- OneHost
  Loads <- MCLoads
  SizeOf <- MCSizeOf
  MaxRetries = 1
  Known = {2, 3}
  Ranked = {1, 3}
INVARIANTS
  DoneMeansAllStored
  EventsInOrder
CHECK_DEADLOCK FALSE
