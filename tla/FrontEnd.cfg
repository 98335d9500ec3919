SPECIFICATION MCSpec
CONSTANTS
  ma = ma
  mb = mb
  me = me
  you = you
  r1 = r1
  ak = ak
  week = week
  mirage = mirage
  dust = dust
  g1 = g1
  g2 = g2
  MaxAsked = 3
  Nothing = Nothing
  Periods = {week}
  Maps = {mirage, dust}
  Chosen = {mirage}
  Weapons = {ak}
  Matches = {ma, mb}
  Players = {me, you}
  Me = me
  Rounds = {r1}
  Guns = {ak}
  Members = {me, you}
  User = me
  LastPage = 2
  Boards = {"impact", "opener"}
  Lineups = {g1, g2}
  OtherMaps = {"b"}
  Kinds = {"fire", "smoke"}
  Throwers = {"T"}
  Lowest <- MCLowest
  Highest = 1000
  Rival = 400
  Rows = 3
  Team <- MCTeam
  Columns = {"kd", "rank"}
  Nullable = {"rank"}
  Null = Null
  Default = "kd"
  Values = {0, 1}
  Markers <- MCMarkers
  MaxZoom = 12
  SliderWidth = 512
INVARIANTS
  PagesShowSelection
  LoadingEnds
  StarsRemovable
  ArrowTellsOrder
PROPERTIES
  BetterLooksBetter
CHECK_DEADLOCK FALSE
