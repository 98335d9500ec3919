SPECIFICATION SteamSpec
CONSTANTS
  q1 = q1
  q2 = q2
  q3 = q3
  c1 = c1
  c2 = c2
  Requests = {q1, q2, q3}
  Codes = {c1, c2}
  CodeOf <- MCCodeOf
  RateMax = 3
  MaxDrops = 0
  w1 = w1
  w2 = w2
  w3 = w3
  Workers = {w1, w2, w3}
  MaxRequests = 2
  MaxKills = 1
INVARIANT
  OwnMatch
