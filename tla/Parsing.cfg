SPECIFICATION ParsingSpec
CONSTANTS
  h1 = h1
  h2 = h2
  a1 = a1
  Players = {h1, a1}
  Roster <- HomeAway
  Known = {h1}
  FullTeams = 10
  Half = 12
  OTHalf = 3
  MaxRounds = 31
  Servers = {"valve", "faceit"}
  KnifeSwap = TRUE
  MidRound = TRUE
  QuietRounds = FALSE
  DrawnRounds = {5, 20}
  BreakJoins = FALSE
  p1 = p1
  p2 = p2
  p3 = p3
  Fighters = {p1, p2, p3}
  Nobody = Nobody
  Hits = {41, 59}
  Threshold = 41
  MaxHits = 5
  LastRound = 2
  y1 = y1
  Entered = {p1, p2, p3, y1}
  AssignedTeam <- MCTeams
  Spots = {1, 2}
  Gaps = {1, 200}
  Window = 192
  MaxDeaths = 3
  MaxQuiet = 1
  MaxGone = 1
INVARIANTS
  RightTeamCredited
  AssistsAreEarned
  LastRoundAggregated
  ClutchesTrue
  TradesAgree
PROPERTIES
  SidesTrueLater
SYMMETRY FighterSymmetry
CHECK_DEADLOCK FALSE
