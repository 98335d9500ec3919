SPECIFICATION Spec
CONSTANTS
  u1 = u1
  u2 = u2
  u3 = u3
  m1 = m1
  r1 = r1
  r2 = r2
  Users = {u1, u2, u3}
  NoOne = NoOne
  Founder = u1
  LinkedSets = {{u1, u2, u3}, {u1, u3}, {u2, u3}}
  Matches = {m1}
  TeamOf <- MCTeamOf
  Requests = {r1, r2}
  MaxRequests = 3
  MaxJobs = 1
  MaxLinks = 1
SYMMETRY RequestSymmetry
INVARIANTS
  SharedMatchesFound
  MatchesEarned
  OwnerStays
CHECK_DEADLOCK FALSE
