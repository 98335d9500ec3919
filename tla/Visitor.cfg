SPECIFICATION VisitorSpec
CONSTANTS
  MaxAsked = 3
  Nothing = Nothing
  MaxSignIns = 3
  MaxVisits = 5
  Demos <- MCDemos
  Shown = {"a", "b"}
INVARIANTS
  ReturnsToPage
  OnlyCurrentToken
  SetupShownTrue
PROPERTIES
  AuthLoadingEnds
  ListCatchesUp
  CardFollowsPointer
CHECK_DEADLOCK FALSE
