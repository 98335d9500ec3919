---------------------------- MODULE Views_proofs ----------------------------
(***************************************************************************)
(* Proofs about what the pages show: the sorted tables, for any number of  *)
(* rows, columns and values; the ratings, for every range of values and    *)
(* every rival; the visitor's session and settings; and the pages that ask *)
(* the API, for any number of requests whose answers come in any order.    *)
(***************************************************************************)
EXTENDS FrontEnd, Tables, Ratings, Session, AccountSettings, FiniteSetTheorems, TLAPS

-----------------------------------------------------------------------------
(* Tables.  A table that is shown is settled: no two rows are in the wrong *)
(* order by the column it is sorted by, if every row has a value there.    *)
(* The comparator is consistent then, so that the sort leaves the list so, *)
(* from whatever list it starts.                                           *)

Directions == {"asc", "desc", "none", "unset"}
InOrder == Whole(ShownSort.col) =>
    \A i, j \in 1..Rows : i < j =>
        ~Before(cell[order[j]][ShownSort.col], cell[order[i]][ShownSort.col], ShownSort.dir)
TablesInv == /\ kind \in {"match", "list", "maps"}
             /\ cell \in [1..Rows -> [Columns -> Values \cup {Null}]]
             /\ sort \in [col : Columns, dir : Directions]
             /\ order \in [1..Rows -> 1..Rows]
             /\ sort.dir = "unset" => kind = "list"
             /\ visible => InOrder

\* A sorted column of numbers has no two in the wrong order.
LEMMA SortSettles ==
  ASSUME NEW rows \in [1..Rows -> [Columns -> Values \cup {Null}]],
         NEW s \in [col : Columns, dir : Directions], NEW prior, NEW p \in Sorted(prior, rows, s),
         \A r \in 1..Rows : rows[r][s.col] # Null,
         NEW i \in 1..Rows, NEW j \in 1..Rows, i < j
  PROVE  ~Before(rows[p[j]][s.col], rows[p[i]][s.col], s.dir)
<1> DEFINE First(r, q) == Before(rows[r][s.col], rows[q][s.col], s.dir)
<1>1. \A r \in 1..Rows : rows[r][s.col] \in Values /\ rows[r][s.col] \in Int
  <2> TAKE r \in 1..Rows
  <2>1. rows[r] \in [Columns -> Values \cup {Null}] /\ s.col \in Columns
    OBVIOUS
  <2>2. rows[r][s.col] \in Values
    BY <2>1
  <2> QED
    BY <2>2, TableAssumption
<1>2. \A x, y, z \in Int : x \in Values /\ y \in Values /\ z \in Values /\
        ~Before(x, y, s.dir) /\ ~Before(y, z, s.dir) => ~Before(x, z, s.dir)
  BY DEF Before
<1>3. \A r, q, t \in 1..Rows : ~First(r, q) /\ ~First(q, t) => ~First(r, t)
  BY <1>1, <1>2
<1>4. \A k, l \in 1..Rows : k < l => ~First(p[l], p[k])
  <2> HIDE DEF First
  <2>1. p \in {o \in Orders : IF \A r, q, t \in 1..Rows : ~First(r, q) /\ ~First(q, t) => ~First(r, t)
            THEN \A k, l \in 1..Rows : k < l =>
              ~First(o[l], o[k]) /\ (First(o[k], o[l]) \/ Earlier(prior, o[k], o[l]))
            ELSE \A k \in 1..Rows - 1 : ~First(o[k + 1], o[k])}
    BY DEF Sorted, First
  <2> QED
    BY <1>3, <2>1
<1> QED
  BY <1>4

LEMMA SortOrders ==
  ASSUME NEW prior, NEW rows, NEW s, NEW p \in Sorted(prior, rows, s)
  PROVE  p \in [1..Rows -> 1..Rows]
  BY DEF Sorted, Orders

LEMMA EffectiveType ==
  ASSUME NEW s \in [col : Columns, dir : Directions]
  PROVE  Effective(s) \in [col : Columns, dir : Directions]
  BY TableAssumption DEF Effective, DefaultSort, Directions

LEMMA InitTables == TablesInit => TablesInv
<1> SUFFICES ASSUME TablesInit PROVE TablesInv
  OBVIOUS
<1>1. /\ kind \in {"match", "list", "maps"}
      /\ cell \in [1..Rows -> [Columns -> Values \cup {Null}]]
  BY DEF TablesInit, RowsOf
<1>2. sort \in [col : Columns, dir : Directions] /\ (sort.dir = "unset" => kind = "list")
  BY TableAssumption DEF TablesInit, Unsorted, DefaultSort, Directions
<1>3. order \in [1..Rows -> 1..Rows]
  BY SortOrders DEF TablesInit, Answered
<1>4. ASSUME visible PROVE InOrder
  <2>1. kind # "list" /\ sort = DefaultSort
    BY <1>4, Zenon DEF TablesInit
  <2>2. ShownSort = sort /\ order \in Sorted(Answered, cell, sort)
    BY <1>4, <2>1 DEF TablesInit, ShownSort, Effective, DefaultSort
  <2> QED
    BY <1>1, <1>2, <2>2, SortSettles DEF InOrder, Whole
<1> QED
  BY <1>1, <1>2, <1>3, <1>4 DEF TablesInv

\* What is rendered of any list is settled.
LEMMA RenderSettles ==
  ASSUME NEW prior \in [1..Rows -> 1..Rows], Render(prior),
         cell' \in [1..Rows -> [Columns -> Values \cup {Null}]],
         sort' \in [col : Columns, dir : Directions]
  PROVE  order' \in [1..Rows -> 1..Rows] /\ (visible' => InOrder')
<1>1. order' \in [1..Rows -> 1..Rows]
  BY SortOrders DEF Render
<1>2. ASSUME visible' PROVE InOrder'
  <2> DEFINE s == Effective(sort')
  <2>1. s \in [col : Columns, dir : Directions] /\ ShownSort' = s
    BY EffectiveType DEF ShownSort
  <2>2. order' \in Sorted(prior, cell', s)
    BY <1>2 DEF Render
  <2> HIDE DEF s
  <2> QED
    BY <2>1, <2>2, SortSettles DEF InOrder, Whole
<1> QED
  BY <1>1, <1>2

LEMMA NextTables == TablesInv /\ [TablesNext]_tableVars => TablesInv'
<1> SUFFICES ASSUME TablesInv, [TablesNext]_tableVars PROVE TablesInv'
  OBVIOUS
<1>0. Listed \in [1..Rows -> 1..Rows] /\ Answered \in [1..Rows -> 1..Rows]
  BY DEF Listed, Answered, TablesInv
<1>1. ASSUME /\ kind' = kind /\ cell' \in [1..Rows -> [Columns -> Values \cup {Null}]]
             /\ sort' \in [col : Columns, dir : Directions] /\ (sort'.dir = "unset" => kind = "list")
             /\ Render(Listed) \/ Render(Answered)
      PROVE  TablesInv'
  <2>1. order' \in [1..Rows -> 1..Rows] /\ (visible' => InOrder')
    BY <1>0, <1>1, RenderSettles
  <2> QED
    BY <1>1, <2>1 DEF TablesInv
<1> USE TableAssumption DEF Directions
<1>2. ASSUME NEW c \in Columns, Click(c) PROVE TablesInv'
  BY <1>1, <1>2 DEF Click, FullHandleSort, MatchHandleSort, MapsHandleSort, TablesInv
<1>3. CASE ToggleRow \/ handleTabChange
  <2>1. /\ kind' = kind /\ cell' = cell /\ Render(Listed)
        /\ sort' = sort \/ (sort' = DefaultSort /\ kind = "match")
    BY <1>3 DEF ToggleRow, handleTabChange
  <2>2. sort' \in [col : Columns, dir : Directions] /\ (sort'.dir = "unset" => kind = "list")
    BY <2>1 DEF DefaultSort, TablesInv
  <2>3. cell' \in [1..Rows -> [Columns -> Values \cup {Null}]]
    BY <2>1 DEF TablesInv
  <2> QED
    BY <1>1, <2>1, <2>2, <2>3
<1>4. ASSUME NEW r \in 1..Rows, NewRows(r) PROVE TablesInv'
  <2>1. cell' \in [1..Rows -> [Columns -> Values \cup {Null}]]
    BY <1>4 DEF NewRows, RowsOf, TablesInv
  <2> QED
    BY <1>1, <1>4, <2>1 DEF NewRows, DefaultSort, TablesInv
<1>5. CASE UNCHANGED tableVars
  BY <1>5 DEF tableVars, TablesInv, InOrder, Whole, ShownSort
<1> QED
  BY <1>2, <1>3, <1>4, <1>5 DEF TablesNext, Click

\* The column with the arrow is the one the rows are sorted by.
LEMMA SortedByArrow == TablesInv => ArrowTellsOrder
<1> SUFFICES ASSUME TablesInv, visible, NEW c \in Columns, Whole(c),
                    NEW i \in 1..Rows, NEW j \in 1..Rows, i < j
             PROVE  /\ SortIcon(c) = "desc" => cell[order[i]][c] >= cell[order[j]][c]
                    /\ SortIcon(c) = "asc"  => cell[order[i]][c] <= cell[order[j]][c]
  BY DEF ArrowTellsOrder
<1>1. ASSUME NEW k \in 1..Rows
      PROVE  cell[order[k]][c] \in Values /\ cell[order[k]][c] \in Int
  <2>1. order[k] \in 1..Rows /\ cell[order[k]] \in [Columns -> Values \cup {Null}]
    BY DEF TablesInv
  <2>2. cell[order[k]][c] \in Values
    BY <2>1 DEF Whole
  <2> QED
    BY <2>2, TableAssumption
<1>2. ASSUME SortIcon(c) \in {"asc", "desc"}
      PROVE  ~Before(cell[order[j]][c], cell[order[i]][c], SortIcon(c))
  <2>1. ShownSort.col = c /\ ShownSort.dir = SortIcon(c)
    BY <1>2 DEF SortIcon
  <2> QED
    BY <2>1 DEF TablesInv, InOrder
<1> QED
  BY <1>1, <1>2 DEF Before

\* The arrow over a column in which every row has a value tells the order of the
\* rows under it, whatever was clicked, answered or folded before (scoreboard.tsx,
\* map-stats-tab.tsx).
THEOREM ArrowsTell == TablesSpec => []ArrowTellsOrder
<1>1. TablesSpec => []TablesInv
  BY InitTables, NextTables, PTL DEF TablesSpec
<1> QED
  BY <1>1, SortedByArrow, PTL

-----------------------------------------------------------------------------
(* Ratings.  The run reads a column upwards a tenth at a time; the lemmas  *)
(* say the same of any two values.                                         *)

\* Of a statistic of which more is better, more never has the worse colour.
LEMMA GradeRises ==
  ASSUME NEW s \in HigherIsBetter, NEW x \in Int, NEW y \in Int, x <= y,
         s = "adr" => ~AdrGap(x) /\ ~AdrGap(y)
  PROVE  Grade(s, x) <= Grade(s, y)
<1>1. CASE s = "kd"
  BY <1>1 DEF Grade, KdColor, Rising
<1>2. CASE s = "win_rate"
  BY <1>2 DEF Grade, WinRateColor, Rising
<1>3. CASE s = "avg_kills"
  BY <1>3 DEF Grade, AvgKillsColor, Rising
<1>4. CASE s = "impact"
  BY <1>4 DEF Grade, ImpactColor, Signed, Rising
<1>5. CASE s = "impact_percentage"
  BY <1>5 DEF Grade, ImpactPercentageColor, Signed, Rising
<1>6. CASE s = "round_swing"
  BY <1>6 DEF Grade, RoundSwingColor, Signed, Rising
<1>7. CASE s = "opening_kills"
  BY <1>7 DEF Grade, OpeningKillsColor, Rising
<1>8. CASE s = "avg_assists"
  BY <1>8 DEF Grade, AvgAssistsColor, Rising
<1>9. CASE s = "complexion"
  BY <1>9 DEF Grade, ComplexionScoreColor, Rising
<1>10. CASE s = "aim_rating"
  BY <1>10 DEF Grade, AimRatingColor, Rising
<1>11. CASE s = "adr"
  BY <1>11 DEF Grade, AdrColor, AdrGap
<1>12. CASE s = "headshot"
  BY <1>12 DEF Grade, HeadshotPercentageColor, Rising
<1>13. CASE s = "spray"
  BY <1>13 DEF Grade, SprayAccuracyColor, Rising
<1>14. CASE s = "effectiveness"
  BY <1>14 DEF Grade, GrenadeEffectivenessColor, Rising
<1>15. CASE s = "usage"
  BY <1>15 DEF Grade, GrenadeUsageColor, Rising
<1>16. CASE s = "enemy_flash"
  BY <1>16 DEF Grade, FlashDurationColor, CustomRatingColor, Rising
<1>17. CASE s = "enemy_blinded"
  BY <1>17 DEF Grade, PlayersBlindedColor, CustomRatingColor, Rising
<1>18. CASE s = "he_molotov"
  BY <1>18 DEF Grade, HeMolotovDamageColor, CustomRatingColor, Rising
<1>19. CASE s = "rating"
  BY <1>19 DEF Grade, QualityLevel, Rising
<1>20. CASE s = "page_flash"
  BY <1>20 DEF Grade, UtilityFlashDurationColor, CustomRatingColor, Rising
<1>21. CASE s = "page_blinded"
  BY <1>21 DEF Grade, UtilityBlindedColor, CustomRatingColor, Rising
<1>22. CASE s = "page_he"
  BY <1>22 DEF Grade, UtilityHeDamageColor, CustomRatingColor, Rising
<1>23. CASE s = "smoke_blocking"
  BY <1>23 DEF Grade, SmokeBlockingColor, CustomRatingColor, Rising
<1>24. CASE s = "per_smoke"
  BY <1>24 DEF Grade, AvgPerSmokeBlockingColor, CustomRatingColor, Rising
<1>25. CASE s = "card_accuracy"
  BY <1>25 DEF Grade, CardAccuracyColor, Rising
<1>26. CASE s = "chart_accuracy"
  BY <1>26 DEF Grade, ChartAccuracyColor, Rising
<1>27. CASE s = "gauge"
  BY <1>27 DEF Grade, GaugeColor, Rising
<1>28. CASE s = "premier"
  BY <1>28 DEF Grade, PremierRankTier
<1>29. CASE s = "compared"
  BY <1>29, RivalAssumption DEF Grade, BasicComparison, Compared
<1>30. CASE s = "role_compared"
  BY <1>30, RivalAssumption DEF Grade, RoleComparison, Compared
<1>31. CASE s = "trend"
  BY <1>31, RivalAssumption DEF Grade, AimTrendColor, TrendColor, TrendFrom
<1>32. CASE s = "card_trend"
  BY <1>32, RivalAssumption DEF Grade, StatCardTrendColor, TrendColor, TrendFrom
<1> QED
  BY <1>1, <1>2, <1>3, <1>4, <1>5, <1>6, <1>7, <1>8, <1>9, <1>10, <1>11, <1>12, <1>13, <1>14, <1>15, <1>16, <1>17, <1>18, <1>19, <1>20, <1>21, <1>22, <1>23, <1>24, <1>25, <1>26, <1>27, <1>28, <1>29, <1>30, <1>31, <1>32 DEF HigherIsBetter

\* Of a statistic of which less is better, less never has the worse colour;
\* positions are counted from one.
LEMMA GradeFalls ==
  ASSUME NEW s \in LowerIsBetter, NEW x \in Int, NEW y \in Int, x <= y,
         s = "position" => 1 <= x
  PROVE  Grade(s, x) >= Grade(s, y)
<1>1. CASE s = "opening_deaths"
  BY <1>1 DEF Grade, OpeningDeathsColor, FallingFrom
<1>2. CASE s = "avg_deaths"
  BY <1>2 DEF Grade, AvgDeathsColor, FallingFrom
<1>3. CASE s = "crosshair"
  BY <1>3 DEF Grade, CrosshairPlacementColor, FallingTo
<1>4. CASE s = "time_to_damage"
  BY <1>4 DEF Grade, TimeToDamageColor, FallingTo
<1>5. CASE s = "friendly_flash"
  BY <1>5 DEF Grade, FlashDurationColor, CustomRatingColor, Rising
<1>6. CASE s = "friendly_blinded"
  BY <1>6 DEF Grade, PlayersBlindedColor, CustomRatingColor, Rising
<1>7. CASE s = "page_friendly_flash"
  BY <1>7 DEF Grade, UtilityFlashDurationColor, CustomRatingColor, Rising
<1>8. CASE s = "page_friendly_blinded"
  BY <1>8 DEF Grade, UtilityBlindedColor, CustomRatingColor, Rising
<1>9. CASE s = "card_x"
  BY <1>9 DEF Grade, CardCrosshairXColor, FallingTo
<1>10. CASE s = "card_y"
  BY <1>10 DEF Grade, CardCrosshairYColor, FallingTo
<1>11. CASE s = "card_time"
  BY <1>11 DEF Grade, CardTimeToDamageColor, FallingTo
<1>12. CASE s = "deaths_compared"
  BY <1>12, RivalAssumption DEF Grade, BasicComparison, Compared
<1>13. CASE s = "role_deaths_compared"
  BY <1>13, RivalAssumption DEF Grade, RoleComparison, Compared
<1>14. CASE s = "deaths_trend"
  BY <1>14, RivalAssumption DEF Grade, AimTrendColor, TrendColor, TrendFrom
<1>15. CASE s = "deaths_card_trend"
  BY <1>15, RivalAssumption DEF Grade, StatCardTrendColor, TrendColor, TrendFrom
<1>16. CASE s = "position"
  BY <1>16 DEF Grade, PositionPoints
<1> QED
  BY <1>1, <1>2, <1>3, <1>4, <1>5, <1>6, <1>7, <1>8, <1>9, <1>10, <1>11, <1>12, <1>13, <1>14, <1>15, <1>16 DEF LowerIsBetter
-----------------------------------------------------------------------------
RatingsInv == /\ stat \in Stats /\ value \in Int
              /\ stat = "position" => 1 <= value
              /\ colour = Grade(stat, value)

LEMMA InitRatings == RatingsInit => RatingsInv
  BY RangeAssumption DEF RatingsInit, RatingsInv

LEMMA NextRatings == RatingsInv /\ [RatingsNext]_ratingVars => RatingsInv'
<1> SUFFICES ASSUME RatingsInv, [RatingsNext]_ratingVars PROVE RatingsInv'
  OBVIOUS
<1>1. CASE NextRow
  BY <1>1 DEF NextRow, RatingsInv
<1>2. CASE UNCHANGED ratingVars
  BY <1>2 DEF ratingVars, RatingsInv
<1> QED
  BY <1>1, <1>2 DEF RatingsNext

\* Of two neighbouring values of any statistic the better one never has the
\* worse colour, but in the gaps of getAdrColor (lib/utils.ts,
\* constants/colors.ts and the copies in the cards).
THEOREM ColoursFollowValues == RatingsSpec => BetterLooksBetter
<1> DEFINE Better == \/ stat = "adr" /\ (AdrGap(value) \/ AdrGap(value'))
                     \/ stat \in HigherIsBetter /\ colour' >= colour
                     \/ stat \in LowerIsBetter /\ colour' <= colour
<1>1. ASSUME RatingsInv, NextRow PROVE Better
  <2>1. /\ value \in Int /\ value' = value + 1 /\ value' \in Int /\ value <= value'
        /\ stat = "position" => 1 <= value
        /\ colour = Grade(stat, value) /\ colour' = Grade(stat, value')
    BY <1>1 DEF RatingsInv, NextRow
  <2>2. CASE stat \in HigherIsBetter /\ (stat = "adr" => ~AdrGap(value) /\ ~AdrGap(value'))
    <3>1. Grade(stat, value) <= Grade(stat, value')
      BY <2>1, <2>2, GradeRises
    <3> QED
      BY <2>1, <2>2, <3>1
  <2>3. CASE stat \in LowerIsBetter
    <3>1. Grade(stat, value) >= Grade(stat, value')
      BY <2>1, <2>3, GradeFalls
    <3> QED
      BY <2>1, <2>3, <3>1
  <2> QED
    BY <1>1, <2>2, <2>3 DEF RatingsInv, Stats
<1>2. RatingsInv /\ [RatingsNext]_ratingVars => [Better]_ratingVars
  BY <1>1 DEF RatingsNext
<1> QED
  BY <1>2, InitRatings, NextRatings, PTL DEF RatingsSpec, BetterLooksBetter

-----------------------------------------------------------------------------
(* Signing in.  Both facts are about what the provider, the client and the *)
(* router keep of each other, whatever else is under way.                  *)

IsRoute(r) == r = [path |-> r.path, from |-> r.from, outcome |-> r.outcome]
IsAuth(a) == a = [token |-> a.token, user |-> a.user, loading |-> a.loading]

\* What the provider sends on is what the client sends, or that has been refused
\* and the store is empty: only a page that Steam comes back to stores ahead.
TokensAgree(t, c, s) == t # Nothing => c = t \/ (c = Nothing /\ s = Nothing)

\* Route r is page w, or keeps it for after signing in.
LeadsTo(r, w) ==
  /\ r.path \in Protected => r.path = w
  /\ r.path \in Public => w = IF r.from = Nothing THEN "matches" ELSE r.from
  /\ r.path \notin Protected \cup Public => w = "matches"

SessionInv == /\ IsAuth(auth) /\ IsRoute(route) /\ wanted \in Protected
              /\ TokensAgree(auth.token, client, stored) /\ LeadsTo(route, wanted)

LEMMA PlaceIsRoute ==
  ASSUME NEW p
  PROVE  /\ IsRoute(Place(p)) /\ Place(p).path = p /\ Place(p).from = Nothing
         /\ \A x : /\ IsRoute([Place(p) EXCEPT !.from = x])
                   /\ [Place(p) EXCEPT !.from = x].path = p
                   /\ [Place(p) EXCEPT !.from = x].from = x
                   /\ IsRoute([Place(p) EXCEPT !.outcome = x])
                   /\ [Place(p) EXCEPT !.outcome = x].path = p
  BY DEF Place, IsRoute

\* The guards of the routes lose no page that was asked for.
LEMMA RoutedLeads ==
  ASSUME NEW r, NEW a, NEW w \in Protected, IsRoute(r), LeadsTo(r, w)
  PROVE  IsRoute(Routed(r, a)) /\ LeadsTo(Routed(r, a), w)
<1> DEFINE Good(x) == IsRoute(x) /\ LeadsTo(x, w)
<1>1. Good(Known(r))
  BY PlaceIsRoute DEF Known, LeadsTo, Routes, Protected, Public
<1>2. ASSUME NEW x, Good(x) PROVE Good(Onboarded(x, a))
  BY <1>2, PlaceIsRoute DEF Onboarded, LeadsTo, Protected, Public
<1>3. ASSUME NEW x, Good(x) PROVE Good(Guarded(x, a))
  <2>1. CASE ~a.loading /\ x.path \in Protected /\ a.user = Nothing
    <3>1. Guarded(x, a) = [Place("login") EXCEPT !.from = x.path]
      BY <2>1 DEF Guarded
    <3>2. x.path # Nothing /\ x.path = w
      BY <1>3, <2>1, NothingAssumption DEF LeadsTo, Routes
    <3>3. /\ IsRoute(Guarded(x, a))
          /\ Guarded(x, a).path = "login" /\ Guarded(x, a).from = x.path
      BY <3>1 DEF Place, IsRoute
    <3> QED
      BY <3>2, <3>3 DEF LeadsTo, Protected, Public
  <2>2. CASE /\ ~(~a.loading /\ x.path \in Protected /\ a.user = Nothing)
             /\ ~a.loading /\ x.path \in Public /\ a.user # Nothing
    <3>1. Guarded(x, a) = Place(w)
      BY <1>3, <2>2 DEF Guarded, LeadsTo
    <3> QED
      BY <3>1, PlaceIsRoute DEF LeadsTo, Protected, Public
  <2>3. CASE /\ ~(~a.loading /\ x.path \in Protected /\ a.user = Nothing)
             /\ ~(~a.loading /\ x.path \in Public /\ a.user # Nothing)
    BY <1>3, <2>3 DEF Guarded
  <2> QED
    BY <2>1, <2>2, <2>3
<1> HIDE DEF Good
<1>4. Good(Routed(r, a))
  BY <1>1, <1>2, <1>3 DEF Routed
<1> QED
  BY <1>4 DEF Good
LEMMA AuthIsAuth ==
  ASSUME NEW a, IsAuth(a), NEW x
  PROVE  /\ IsAuth([a EXCEPT !.loading = x]) /\ [a EXCEPT !.loading = x].token = a.token
         /\ IsAuth([a EXCEPT !.user = x]) /\ [a EXCEPT !.user = x].token = a.token
<1>1. PICK t, u, l : a = [token |-> t, user |-> u, loading |-> l]
  BY DEF IsAuth
<1>2. /\ [a EXCEPT !.loading = x] = [token |-> t, user |-> u, loading |-> x]
      /\ [a EXCEPT !.user = x] = [token |-> t, user |-> x, loading |-> l]
  BY <1>1
<1>3. a.token = t
  BY <1>1
<1>4. \A b, c, d : IsAuth([token |-> b, user |-> c, loading |-> d])
  BY DEF IsAuth
<1> QED
  BY <1>2, <1>3, <1>4

LEMMA SignedOutIsAuth ==
  ASSUME NEW t PROVE IsAuth(SignedOut(t)) /\ SignedOut(t).token = t
  BY DEF SignedOut, IsAuth

\* The provider and the router change together.
LEMMA BecomeKeeps ==
  ASSUME NEW a, NEW r, Become(a, r), IsAuth(a), IsRoute(r), wanted' \in Protected,
         TokensAgree(a.token, client', stored'), LeadsTo(r, wanted')
  PROVE  SessionInv'
<1>1. auth' = a /\ route' = Routed(r, a)
  BY DEF Become
<1>2. IsRoute(Routed(r, a)) /\ LeadsTo(Routed(r, a), wanted')
  BY RoutedLeads
<1> QED
  BY <1>1, <1>2, Zenon DEF SessionInv

\* A reload starts the provider and the client with the same token.
LEMMA LoadKeeps ==
  ASSUME NEW r, NEW told, Load(r, told), IsRoute(r), wanted' \in Protected, LeadsTo(r, wanted')
  PROVE  SessionInv'
<1>1. auth' = SignedOut(stored) /\ route' = Routed(r, SignedOut(stored)) /\ client' = stored
  BY DEF Load
<1>2. IsRoute(Routed(r, SignedOut(stored))) /\ LeadsTo(Routed(r, SignedOut(stored)), wanted')
  BY RoutedLeads
<1>3. TokensAgree(SignedOut(stored).token, stored, stored')
  BY SignedOutIsAuth DEF TokensAgree
<1> QED
  BY <1>1, <1>2, <1>3, SignedOutIsAuth, Zenon DEF SessionInv

\* The page the provider of SessionInv goes on with.
LEMMA StaysKeeps ==
  ASSUME SessionInv, UNCHANGED <<auth, route, wanted>>,
         TokensAgree(auth.token, client', stored')
  PROVE  SessionInv'
  BY Zenon DEF SessionInv

LEMMA SessionInit_Inv == SessionInit => SessionInv
<1> SUFFICES ASSUME SessionInit PROVE SessionInv
  OBVIOUS
<1>1. /\ client = stored /\ auth = SignedOut(stored) /\ wanted \in Protected
      /\ route = Routed(Place(wanted), auth)
  BY DEF SessionInit
<1>2. IsRoute(Place(wanted)) /\ LeadsTo(Place(wanted), wanted)
  BY <1>1, PlaceIsRoute DEF LeadsTo, Protected, Public
<1>3. IsRoute(route) /\ LeadsTo(route, wanted)
  BY <1>1, <1>2, RoutedLeads
<1>4. IsAuth(auth) /\ auth.token = stored
  BY <1>1, SignedOutIsAuth
<1> QED
  BY <1>1, <1>3, <1>4 DEF SessionInv, TokensAgree

LEMMA PlaceLeads ==
  ASSUME NEW p, NEW w, p \in Protected => w = p, p \notin Protected => w = "matches"
  PROVE  /\ w \in Protected
         /\ IsRoute(Place(p)) /\ LeadsTo(Place(p), w)
         /\ \A x : /\ IsRoute([Place(p) EXCEPT !.outcome = x])
                   /\ p \notin Public => LeadsTo([Place(p) EXCEPT !.outcome = x], w)
<1>1. w \in Protected
  BY DEF Protected
<1>2. IsRoute(Place(p)) /\ LeadsTo(Place(p), w)
  BY PlaceIsRoute DEF LeadsTo, Protected, Public
<1>3. ASSUME NEW x
      PROVE  /\ IsRoute([Place(p) EXCEPT !.outcome = x])
             /\ p \notin Public => LeadsTo([Place(p) EXCEPT !.outcome = x], w)
  <2>1. IsRoute([Place(p) EXCEPT !.outcome = x]) /\ [Place(p) EXCEPT !.outcome = x].path = p
    BY PlaceIsRoute, Zenon
  <2> QED
    BY <2>1 DEF LeadsTo
<1> QED
  BY <1>1, <1>2, <1>3

\* The router is sent to page p, and the tokens stay where they are.
LEMMA GoKeeps ==
  ASSUME SessionInv, NEW p, Become(auth, Place(p)), UNCHANGED <<stored, client>>,
         p \in Protected => wanted' = p, p \notin Protected => wanted' = "matches"
  PROVE  SessionInv'
<1>1. IsRoute(Place(p)) /\ LeadsTo(Place(p), wanted') /\ wanted' \in Protected
  BY PlaceLeads
<1>2. IsAuth(auth) /\ TokensAgree(auth.token, client', stored')
  BY DEF SessionInv
<1> QED
  BY <1>1, <1>2, BecomeKeeps

\* The actions that open a page.
LEMMA SessionPages ==
  ASSUME SessionInv, NEW p,
         \/ LoadApp(p) \/ (FollowLink(p) /\ p \in Protected) \/ SwitchForm \/ GoBack
         \/ LoginWithSteam \/ CallbackTimer \/ HandleComplete
  PROVE  SessionInv'
<1>1. CASE LoadApp(p)
  <2>1. Load(Place(p), Nothing) /\ wanted' = IF p \in Protected THEN p ELSE "matches"
    BY <1>1 DEF LoadApp
  <2>2. IsRoute(Place(p)) /\ wanted' \in Protected /\ LeadsTo(Place(p), wanted')
    BY <2>1, PlaceLeads
  <2> QED
    BY <2>1, <2>2, LoadKeeps
<1>2. CASE FollowLink(p) /\ p \in Protected
  BY <1>2, GoKeeps DEF FollowLink
<1>3. CASE SwitchForm
  BY <1>3, GoKeeps DEF SwitchForm, Protected
<1>4. CASE GoBack
  BY <1>4, GoKeeps DEF GoBack, Protected
<1>5. CASE HandleComplete
  <2>1. route.path = "onboarding"
    BY <1>5 DEF HandleComplete, Open
  <2>2. wanted' = "matches"
    BY <1>5, <2>1 DEF HandleComplete, SessionInv, LeadsTo, Protected, Public
  <2> QED
    BY <1>5, <2>2, GoKeeps DEF HandleComplete, Protected
<1>6. CASE LoginWithSteam
  <2>1. PICK told, x : /\ Load([Place("steam-callback") EXCEPT !.outcome = x], told)
                       /\ wanted' = "matches"
    BY <1>6, Zenon DEF LoginWithSteam
  <2>2. "steam-callback" \notin Protected \cup Public
    BY DEF Protected, Public
  <2>3. /\ wanted' \in Protected /\ IsRoute([Place("steam-callback") EXCEPT !.outcome = x])
        /\ LeadsTo([Place("steam-callback") EXCEPT !.outcome = x], wanted')
    BY <2>1, <2>2, PlaceLeads
  <2> QED
    BY <2>1, <2>3, LoadKeeps
<1>7. CASE CallbackTimer
  <2>1. wanted' = "matches"
    BY <1>7 DEF CallbackTimer, SessionInv, LeadsTo, Protected, Public
  <2>2. \/ Load(Place("onboarding"), Nothing)
        \/ \E to \in {"matches", "account-settings", "login"} :
             Become(auth, Place(to)) /\ UNCHANGED <<stored, client>>
    BY <1>7 DEF CallbackTimer
  <2>3. CASE Load(Place("onboarding"), Nothing)
    BY <2>1, <2>3, PlaceLeads, LoadKeeps DEF Protected
  <2>4. ASSUME NEW to \in {"matches", "account-settings", "login"},
               Become(auth, Place(to)), UNCHANGED <<stored, client>>
        PROVE  SessionInv'
    BY <2>1, <2>4, GoKeeps DEF Protected
  <2> QED
    BY <2>2, <2>3, <2>4
<1> QED
  BY <1>1, <1>2, <1>3, <1>4, <1>5, <1>6, <1>7

\* The provider goes on with a, where the route is.
LEMMA ProviderKeeps ==
  ASSUME SessionInv, NEW a, Become(a, route), wanted' = wanted, IsAuth(a),
         TokensAgree(a.token, client', stored')
  PROVE  SessionInv'
  BY BecomeKeeps DEF SessionInv

\* logout of any provider, after which the client and the store are empty or as
\* they were.
LEMMA LogoutKeeps ==
  ASSUME SessionInv, wanted' = wanted, NEW t, NEW header, NEW others, StartLogout(t, header, others),
         \/ UNCHANGED <<client, stored>> \/ (client' = Nothing /\ stored' = Nothing) \/ t = Nothing
  PROVE  SessionInv'
<1>1. IsAuth(auth) /\ TokensAgree(auth.token, client, stored)
  BY DEF SessionInv
<1>2. CASE t = Nothing
  <2>1. Become([token |-> Nothing, user |-> Nothing, loading |-> FALSE], route)
    BY <1>2 DEF StartLogout
  <2> QED
    BY <2>1, ProviderKeeps DEF IsAuth, TokensAgree
<1>3. CASE t # Nothing
  <2>1. Become([auth EXCEPT !.loading = TRUE], route)
    BY <1>3, Zenon DEF StartLogout
  <2>2. IsAuth([auth EXCEPT !.loading = TRUE]) /\ [auth EXCEPT !.loading = TRUE].token = auth.token
    BY <1>1, AuthIsAuth
  <2> QED
    BY <1>1, <1>3, <2>1, <2>2, ProviderKeeps DEF TokensAgree
<1> QED
  BY <1>2, <1>3

\* The forms and the requests of the pages.
LEMMA SessionForms ==
  ASSUME SessionInv,
         \/ HandleLogin \/ (\E confirmed \in BOOLEAN : HandleRegister(confirmed))
         \/ (\E site \in {"steam-callback", "discord-callback"} : LinkAccount(site))
         \/ (\E valid \in BOOLEAN : SubmitSharecode(valid)) \/ HandleSkip \/ PageAsks \/ Logout
  PROVE  SessionInv'
<1>1. IsAuth(auth) /\ TokensAgree(auth.token, client, stored)
  BY DEF SessionInv
<1>2. ASSUME NEW slot, Begin(slot) PROVE SessionInv'
  <2>1. /\ Become([auth EXCEPT !.loading = TRUE], route)
        /\ stored' = stored /\ client' = client /\ wanted' = wanted
    BY <1>2 DEF Begin
  <2>2. IsAuth([auth EXCEPT !.loading = TRUE]) /\ [auth EXCEPT !.loading = TRUE].token = auth.token
    BY <1>1, AuthIsAuth
  <2> QED
    BY <1>1, <2>1, <2>2, ProviderKeeps
<1>3. CASE HandleLogin \/ (\E site \in {"steam-callback", "discord-callback"} : LinkAccount(site))
  BY <1>2, <1>3, Zenon DEF HandleLogin, LinkAccount
<1>4. ASSUME NEW confirmed, HandleRegister(confirmed) PROVE SessionInv'
  BY <1>1, <1>2, <1>4, StaysKeeps DEF HandleRegister
<1>5. ASSUME NEW valid, SubmitSharecode(valid) PROVE SessionInv'
  BY <1>1, <1>5, StaysKeeps DEF SubmitSharecode, OnForm
<1>6. CASE HandleSkip \/ PageAsks
  BY <1>1, <1>6, StaysKeeps DEF HandleSkip, OnForm, PageAsks, sessionExtras
<1>7. CASE Logout
  BY <1>7, LogoutKeeps DEF Logout
<1> QED
  BY <1>3, <1>4, <1>5, <1>6, <1>7

\* The answers, of which only those of signing in set a token.
LEMMA SessionAnswered ==
  ASSUME SessionInv, NEW c, SessionAnswer(c)
  PROVE  SessionInv'
<1>1. IsAuth(auth) /\ TokensAgree(auth.token, client, stored)
  BY DEF SessionInv
<1>2. CASE SignedIn(c)
  <2>1. PICK t : /\ stored' = t /\ client' = t /\ wanted' = wanted
                 /\ Become([token |-> t, user |-> "user", loading |-> FALSE], route)
    BY <1>2, Zenon DEF SignedIn
  <2> QED
    BY <2>1, ProviderKeeps DEF IsAuth, TokensAgree
<1>3. CASE SignInFailed(c) \/ LinkFailed(c)
  <2>1. /\ Become([auth EXCEPT !.loading = FALSE], route)
        /\ stored' = stored /\ client' = client /\ wanted' = wanted
    BY <1>3 DEF SignInFailed, LinkFailed
  <2>2. IsAuth([auth EXCEPT !.loading = FALSE]) /\ [auth EXCEPT !.loading = FALSE].token = auth.token
    BY <1>1, AuthIsAuth
  <2> QED
    BY <1>1, <2>1, <2>2, ProviderKeeps
<1>4. CASE UserGot(c)
  <2>1. /\ Become([auth EXCEPT !.user = "user"], route)
        /\ stored' = stored /\ client' = client /\ wanted' = wanted
    BY <1>4 DEF UserGot
  <2>2. IsAuth([auth EXCEPT !.user = "user"]) /\ [auth EXCEPT !.user = "user"].token = auth.token
    BY <1>1, AuthIsAuth
  <2> QED
    BY <1>1, <2>1, <2>2, ProviderKeeps
<1>5. CASE UserLost(c)
  <2>1. /\ Become([SignedOut(Nothing) EXCEPT !.loading = auth.loading], route) /\ wanted' = wanted
    BY <1>5, Zenon DEF UserLost
  <2>2. /\ IsAuth([SignedOut(Nothing) EXCEPT !.loading = auth.loading])
        /\ [SignedOut(Nothing) EXCEPT !.loading = auth.loading].token = Nothing
    BY SignedOutIsAuth, AuthIsAuth
  <2> QED
    BY <2>1, <2>2, ProviderKeeps DEF TokensAgree
<1>6. CASE c.slot \in {"steam-callback", "discord-callback"} /\ LinkGot(c)
  <2>1. PICK x : /\ Load([Place(c.slot) EXCEPT !.outcome = x], Nothing)
                 /\ wanted' = "matches"
    BY <1>6, Zenon DEF LinkGot
  <2>2. c.slot \notin Protected \cup Public /\ wanted' \in Protected
    BY <1>6, <2>1 DEF Protected, Public
  <2>3. /\ IsRoute([Place(c.slot) EXCEPT !.outcome = x])
        /\ LeadsTo([Place(c.slot) EXCEPT !.outcome = x], wanted')
    BY <2>1, <2>2, PlaceLeads
  <2> QED
    BY <2>1, <2>2, <2>3, LoadKeeps
<1>7. CASE SharecodeRefused(c) \/ PageAnswered(c)
  BY <1>1, <1>7, StaysKeeps DEF SharecodeRefused, OnForm, PageAnswered, sessionExtras
<1>8. CASE PageRefused(c)
  <2>1. CASE c.key.lib
    BY <1>8, <2>1, LogoutKeeps DEF PageRefused
  <2>2. CASE ~c.key.lib
    BY <1>8, <2>2, StaysKeeps DEF PageRefused, TokensAgree
  <2> QED
    BY <2>1, <2>2
<1>9. CASE LoggedOut(c)
  BY <1>9, SignedOutIsAuth, ProviderKeeps DEF LoggedOut, TokensAgree
<1> QED
  BY <1>2, <1>3, <1>4, <1>5, <1>6, <1>7, <1>8, <1>9 DEF SessionAnswer

LEMMA SessionNext_Inv == SessionInv /\ [SessionNext]_sessionVars => SessionInv'
<1> SUFFICES ASSUME SessionInv, [SessionNext]_sessionVars PROVE SessionInv'
  OBVIOUS
<1>1. CASE UNCHANGED sessionVars
  BY <1>1, StaysKeeps DEF sessionVars, sessionExtras, SessionInv
<1>2. CASE SessionNext
  BY <1>2, SessionPages, SessionForms, SessionAnswered DEF SessionNext, SessionAnswers
<1> QED
  BY <1>1, <1>2

\* Signing in, a reload or a wait for the user leads to the page that was asked
\* for (ProtectedRoute and PublicRoute of App.tsx, the callback pages and the
\* onboarding page).
THEOREM SignInReturns == SessionSpec => []ReturnsToPage
<1>1. SessionInv => ReturnsToPage
  BY DEF SessionInv, LeadsTo, ReturnsToPage
<1> QED
  BY <1>1, SessionInit_Inv, SessionNext_Inv, PTL DEF SessionSpec

\* The header of a request is that of the token the provider has, or empty: a
\* token that logout left in the client (use-auth.tsx, lib/api.ts) is replaced
\* by the next sign in before anyone asks again.
THEOREM OldTokenNotSent == SessionSpec => []OnlyCurrentToken
<1>1. SessionInv => OnlyCurrentToken
  BY DEF SessionInv, TokensAgree, OnlyCurrentToken, Header
<1> QED
  BY <1>1, SessionInit_Inv, SessionNext_Inv, PTL DEF SessionSpec

-----------------------------------------------------------------------------
(* The settings.  A request of the hook that no other overlaps is its last *)
(* one, and while it is under way nothing else changes the setup: saving   *)
(* or removal that a page has left behind is over before it begins.        *)

IsAccount(a) == a = [version |-> a.version, linked |-> a.linked, setup |-> a.setup, enabled |-> a.enabled]

SetupCall(c) == c.n \in 1..asked /\ c.key.was.setup \in BOOLEAN
AloneCall(c) == /\ c.n = sent["setup"] /\ landed["setup"] < sent["setup"]
                /\ c.key.was.setup = account.setup
                /\ c.key.does = "toggle" => hook.setup

Stray(c) == c.slot = "left" /\ c.key.does \in {"save", "remove"}
CallIs(c) == c.slot \in {"setup", "user", "left"} \/ c.key.does \notin {"save", "remove"}

HookTypes == /\ asked \in Nat /\ hook.setup \in BOOLEAN
             /\ IsAccount(account) /\ account.setup \in BOOLEAN
             /\ landed \in [{"setup"} -> Int] /\ sent \in [{"setup"} -> Int]
             /\ landed["setup"] <= asked /\ sent["setup"] <= asked
             /\ \A c \in Pending("setup") : SetupCall(c)
             /\ \A c \in calls : CallIs(c)
SettingsInv ==
  /\ HookTypes
  /\ ~hook.overlap =>
       /\ \A c \in Pending("setup") : AloneCall(c)
       /\ \A c, d \in Pending("setup") : c = d
       /\ \A c \in calls : Stray(c) => Pending("setup") = {} /\ landed["setup"] < sent["setup"]
       /\ landed["setup"] = sent["setup"] /\ ~hook.error => hook.setup = account.setup

LEMMA AccountFields ==
  ASSUME NEW a, IsAccount(a), NEW x
  PROVE  /\ [a EXCEPT !.version = x] = [version |-> x, linked |-> a.linked, setup |-> a.setup, enabled |-> a.enabled]
         /\ [a EXCEPT !.linked = x] = [version |-> a.version, linked |-> x, setup |-> a.setup, enabled |-> a.enabled]
         /\ [a EXCEPT !.setup = x] = [version |-> a.version, linked |-> a.linked, setup |-> x, enabled |-> a.enabled]
         /\ [a EXCEPT !.enabled = x] = [version |-> a.version, linked |-> a.linked, setup |-> a.setup, enabled |-> x]
<1>1. PICK v, l, s, e : a = [version |-> v, linked |-> l, setup |-> s, enabled |-> e]
  BY DEF IsAccount
<1>2. [a EXCEPT !.version = x] = [version |-> x, linked |-> l, setup |-> s, enabled |-> e]
  BY <1>1
<1>3. [a EXCEPT !.linked = x] = [version |-> v, linked |-> x, setup |-> s, enabled |-> e]
  BY <1>1
<1>4. [a EXCEPT !.setup = x] = [version |-> v, linked |-> l, setup |-> x, enabled |-> e]
  BY <1>1
<1>5. [a EXCEPT !.enabled = x] = [version |-> v, linked |-> l, setup |-> s, enabled |-> x]
  BY <1>1
<1>6. a.setup = s /\ a.linked = l /\ a.version = v /\ a.enabled = e
  BY <1>1
<1> QED
  BY <1>2, <1>3, <1>4, <1>5, <1>6

\* What is done to an account leaves one, and only the hook's requests touch the setup.
LEMMA AccountOps ==
  ASSUME NEW a, IsAccount(a), NEW section
  PROVE  /\ IsAccount(Renamed(a, section)) /\ Renamed(a, section).setup = a.setup
         /\ IsAccount(Linked(a, section)) /\ Linked(a, section).setup = a.setup
         /\ IsAccount(Unlinked(a, section)) /\ Unlinked(a, section).setup = a.setup
         /\ IsAccount(WithToggle(a)) /\ WithToggle(a).setup = a.setup
         /\ IsAccount(SetUp(a)) /\ SetUp(a).setup = TRUE
         /\ IsAccount(WithoutSetup(a)) /\ WithoutSetup(a).setup = FALSE
<1>1. ASSUME NEW x
      PROVE  /\ IsAccount([a EXCEPT !.version = x]) /\ [a EXCEPT !.version = x].setup = a.setup
             /\ IsAccount([a EXCEPT !.linked = x]) /\ [a EXCEPT !.linked = x].setup = a.setup
             /\ IsAccount([a EXCEPT !.setup = x]) /\ [a EXCEPT !.setup = x].setup = x
             /\ IsAccount([a EXCEPT !.enabled = x]) /\ [a EXCEPT !.enabled = x].setup = a.setup
  <2>1. IsAccount([a EXCEPT !.version = x]) /\ [a EXCEPT !.version = x].setup = a.setup
    BY AccountFields DEF IsAccount
  <2>2. IsAccount([a EXCEPT !.linked = x]) /\ [a EXCEPT !.linked = x].setup = a.setup
    BY AccountFields DEF IsAccount
  <2>3. IsAccount([a EXCEPT !.setup = x]) /\ [a EXCEPT !.setup = x].setup = x
    BY AccountFields DEF IsAccount
  <2>4. IsAccount([a EXCEPT !.enabled = x]) /\ [a EXCEPT !.enabled = x].setup = a.setup
    BY AccountFields DEF IsAccount
  <2> QED
    BY <2>1, <2>2, <2>3, <2>4
<1>2. IsAccount(Renamed(a, section)) /\ Renamed(a, section).setup = a.setup
  BY <1>1 DEF Renamed
<1>3. IsAccount(Linked(a, section)) /\ Linked(a, section).setup = a.setup
  BY <1>1 DEF Linked
<1>4. IsAccount(Unlinked(a, section)) /\ Unlinked(a, section).setup = a.setup
  BY <1>1 DEF Unlinked
<1>5. IsAccount(WithToggle(a)) /\ WithToggle(a).setup = a.setup
  BY <1>1 DEF WithToggle
<1>6. IsAccount(SetUp(a)) /\ SetUp(a).setup = TRUE
  BY <1>1 DEF SetUp
<1>7. IsAccount(WithoutSetup(a)) /\ WithoutSetup(a).setup = FALSE
  <2>1. PICK b : b = [a EXCEPT !.setup = FALSE]
    OBVIOUS
  <2>2. IsAccount(b) /\ b.setup = FALSE
    BY <1>1, <2>1
  <2>3. IsAccount([b EXCEPT !.enabled = FALSE]) /\ [b EXCEPT !.enabled = FALSE].setup = FALSE
    BY <2>2, AccountFields DEF IsAccount
  <2>4. WithoutSetup(a) = [b EXCEPT !.enabled = FALSE]
    BY <2>1, Zenon DEF WithoutSetup
  <2> QED
    BY <2>3, <2>4, Zenon
<1> QED
  BY <1>2, <1>3, <1>4, <1>5, <1>6, <1>7

LEMMA MayBeIs ==
  ASSUME IsAccount(account), account.setup \in BOOLEAN, NEW c, account' \in MayBe(account, c)
  PROVE  /\ IsAccount(account') /\ account'.setup \in BOOLEAN
         /\ c.key.does \notin {"save", "remove"} => account'.setup = account.setup
<1>1. \/ account' = account
      \/ account' = Renamed(account, c.key.section)
      \/ account' = Unlinked(account, c.key.section)
      \/ c.key.does = "save" /\ account' = SetUp(account)
      \/ c.key.does = "remove" /\ account' = WithoutSetup(account)
      \/ account' = WithToggle(account)
  BY DEF MayBe
<1>2. CASE account' = account
  BY <1>2
<1>3. CASE account' = Renamed(account, c.key.section)
  <2>1. PICK section : section = c.key.section
    OBVIOUS
  <2>2. IsAccount(Renamed(account, section)) /\ Renamed(account, section).setup = account.setup
    BY AccountOps, Zenon
  <2> QED
    BY <1>3, <2>1, <2>2
<1>4. CASE account' = Unlinked(account, c.key.section)
  <2>1. PICK section : section = c.key.section
    OBVIOUS
  <2>2. IsAccount(Unlinked(account, section)) /\ Unlinked(account, section).setup = account.setup
    BY AccountOps, Zenon
  <2> QED
    BY <1>4, <2>1, <2>2
<1>5. CASE c.key.does = "save" /\ account' = SetUp(account)
  <2>1. IsAccount(SetUp(account)) /\ SetUp(account).setup = TRUE
    BY AccountOps
  <2> QED
    BY <1>5, <2>1
<1>6. CASE c.key.does = "remove" /\ account' = WithoutSetup(account)
  <2>1. IsAccount(WithoutSetup(account)) /\ WithoutSetup(account).setup = FALSE
    BY AccountOps
  <2> QED
    BY <1>6, <2>1
<1>7. CASE account' = WithToggle(account)
  <2>1. IsAccount(WithToggle(account)) /\ WithToggle(account).setup = account.setup
    BY AccountOps
  <2> QED
    BY <1>7, <2>1
<1> QED
  BY <1>1, <1>2, <1>3, <1>4, <1>5, <1>6, <1>7, Zenon

\* What a page that goes leaves behind.
LEMMA KeptAre ==
  ASSUME NEW cs, NEW d, d \in Kept(cs) \/ d \in Left(cs)
  PROVE  \/ d \in cs /\ d.slot = "user"
         \/ d.slot = "left" /\ \E b \in cs : b.slot # "user" /\ d.key = b.key
BY DEF Kept, Left

\* No answer of the hook comes, and no request of it is made.
LEMMA HookAtRest ==
  ASSUME SettingsInv, hook' = hook, landed' = landed, sent' = sent,
         \A c \in calls' : c \in calls \/ (c.slot # "setup" /\ CallIs(c) /\ ~Stray(c)),
         asked' \in Nat, asked' >= asked, IsAccount(account'), account'.setup = account.setup
  PROVE  SettingsInv'
<1>1. Pending("setup")' \subseteq Pending("setup")
  BY DEF Pending
<1>2. HookTypes'
  <2>1. \A c \in calls' : CallIs(c)
    BY DEF SettingsInv, HookTypes
  <2> QED
    BY <1>1, <2>1 DEF SettingsInv, HookTypes, SetupCall, CallIs
<1>3. ASSUME ~hook.overlap
      PROVE  /\ \A c \in Pending("setup")' : AloneCall(c)'
             /\ \A c, d \in Pending("setup")' : c = d
             /\ landed["setup"] = sent["setup"] /\ ~hook.error => hook.setup = account'.setup
  BY <1>1, <1>3 DEF SettingsInv, AloneCall
<1>4. ASSUME ~hook.overlap, NEW c \in calls', Stray(c)
      PROVE  Pending("setup")' = {} /\ landed["setup"] < sent["setup"]
  BY <1>1, <1>4 DEF SettingsInv
<1>5. \A c : Stray(c)' <=> Stray(c)
  BY DEF Stray
<1> QED
  BY <1>2, <1>3, <1>4, <1>5 DEF SettingsInv

\* The page goes, and nothing is asked of the hook yet.
LEMMA HookLeft ==
  ASSUME SettingsInv, hook' = hook, landed' = landed, sent' = sent, NEW cs \in SUBSET calls,
         \A c \in calls' : c \in Kept(cs) \/ (c.slot \in {"op", "user"} /\ CallIs(c)),
         asked' \in Nat, asked' >= asked, IsAccount(account'), account'.setup = account.setup
  PROVE  SettingsInv'
<1>1. Pending("setup")' = {}
  BY KeptAre DEF Pending
<1>2. HookTypes'
  <2>1. \A c \in calls' : CallIs(c)
    BY KeptAre DEF CallIs
  <2> QED
    BY <1>1, <2>1 DEF SettingsInv, HookTypes, CallIs
<1>3. ASSUME ~hook.overlap
      PROVE  landed["setup"] = sent["setup"] /\ ~hook.error => hook.setup = account'.setup
  BY <1>3 DEF SettingsInv
<1>4. ASSUME ~hook.overlap, NEW c \in calls', Stray(c)
      PROVE  landed["setup"] < sent["setup"]
  <2>1. PICK b \in calls : b.slot # "user" /\ c.key = b.key
    BY <1>4, KeptAre DEF Stray
  <2>2. b.slot = "setup" \/ Stray(b)
    BY <1>4, <2>1 DEF Stray, SettingsInv, HookTypes, CallIs
  <2> QED
    BY <1>4, <2>2 DEF SettingsInv, Pending, AloneCall
<1>5. \A c : Stray(c)' <=> Stray(c)
  BY DEF Stray
<1> QED
  BY <1>1, <1>2, <1>3, <1>4, <1>5 DEF SettingsInv

\* The hook asks, the request is the last one, and overlaps what is under way.
LEMMA HookAsked ==
  ASSUME SettingsInv, NEW c, NEW h, NEW others, calls' = others \cup {c}, hook' = Busy(h, others),
         \A d \in others : d \in calls \/ d.slot = "left",
         c.slot = "setup", c.n = asked + 1, c.key.was = account, c.key.does = "toggle" => h.setup,
         h.setup \in BOOLEAN, asked' = asked + 1, landed' = landed,
         sent' = [sent EXCEPT !["setup"] = asked + 1],
         IsAccount(account'), account'.setup = account.setup
  PROVE  SettingsInv'
<1>1. /\ hook'.setup = h.setup
      /\ hook'.overlap = \E d \in others : Overlaps(d)
  BY DEF Busy
<1>2. /\ asked \in Nat /\ asked' = asked + 1 /\ landed["setup"] \in Int /\ landed["setup"] <= asked
      /\ sent'["setup"] = asked + 1 /\ sent' \in [{"setup"} -> Int]
  BY DEF SettingsInv, HookTypes
<1>3. \A d \in Pending("setup")' : d = c \/ (d \in others /\ d \in Pending("setup"))
  BY DEF Pending
<1>4. HookTypes'
  <2>1. \A d \in calls' : CallIs(d)
    BY DEF SettingsInv, HookTypes, CallIs
  <2> QED
    BY <1>1, <1>2, <1>3, <2>1 DEF SettingsInv, HookTypes, SetupCall, CallIs
<1>5. ASSUME ~hook'.overlap
      PROVE  /\ \A d \in Pending("setup")' : AloneCall(d)'
             /\ \A d, e \in Pending("setup")' : d = e
             /\ \A d \in calls' : ~Stray(d)'
             /\ landed'["setup"] # sent'["setup"]
  <2>1. \A d \in Pending("setup")' : d = c
    BY <1>1, <1>3, <1>5 DEF Pending, Overlaps
  <2>3. \A d \in calls' : ~Stray(d)'
    BY <1>1, <1>5 DEF Stray, Overlaps
  <2>2. AloneCall(c)'
    BY <1>1, <1>2 DEF AloneCall
  <2> QED
    BY <1>2, <2>1, <2>2, <2>3
<1> QED
  BY <1>4, <1>5 DEF SettingsInv

\* A request of the hook is answered, and tells it the setup, or nothing.
LEMMA HookAnswered ==
  ASSUME SettingsInv, NEW c \in calls, c.slot = "setup", Answer(c), NEW s \in BOOLEAN, NEW e,
         hook' = Ended(s, e), IsAccount(account'), account'.setup \in BOOLEAN,
         AloneCall(c) /\ ~e => s = account'.setup
  PROVE  SettingsInv'
<1>1. /\ hook'.setup = s /\ hook'.error = e /\ hook'.overlap = hook.overlap
  BY DEF Ended
<1>2. /\ calls' = calls \ {c} /\ asked' = asked /\ sent' = sent
      /\ landed' = [landed EXCEPT !["setup"] = c.n]
  BY DEF Answer
<1>3. c \in Pending("setup") /\ SetupCall(c)
  BY DEF Pending, SettingsInv, HookTypes
<1>4. \A d \in Pending("setup")' : d \in Pending("setup") /\ d # c
  BY <1>2 DEF Pending
<1>5. HookTypes'
  <2>1. \A d \in calls' : CallIs(d)
    BY <1>2 DEF SettingsInv, HookTypes
  <2> QED
    BY <1>1, <1>2, <1>3, <1>4, <2>1 DEF SettingsInv, HookTypes, SetupCall, CallIs
<1>6. ASSUME ~hook.overlap
      PROVE  /\ \A d \in Pending("setup")' : FALSE
             /\ \A d \in calls' : ~Stray(d)'
             /\ ~e => s = account'.setup
  <2>1. \A d \in calls' : ~Stray(d)'
    BY <1>2, <1>3, <1>6 DEF SettingsInv, Stray
  <2> QED
    BY <1>3, <1>4, <1>6, <2>1 DEF SettingsInv
<1> QED
  BY <1>1, <1>5, <1>6 DEF SettingsInv

\* The effect on the user makes the hook check, after requests of the page that
\* were under way, or none.
LEMMA SyncedKeeps ==
  ASSUME SettingsInv, NEW u, NEW h, NEW others, Synced(u, h, others, asked + 1), OnPage,
         \A d \in others : d \in calls \/ d.slot = "left", h.setup \in BOOLEAN,
         IsAccount(account'), account'.setup = account.setup
  PROVE  SettingsInv'
<1> DEFINE c == Check(asked + 1)
<1>1. c.slot = "setup" /\ c.n = asked + 1 /\ c.key.was = account /\ c.key.does # "toggle"
  BY DEF Check
<1>2. /\ calls' = others \cup {c} /\ hook' = Busy(h, others) /\ asked' = asked + 1
      /\ sent' = [sent EXCEPT !["setup"] = asked + 1] /\ landed' = landed
  BY DEF Synced, OnPage
<1> HIDE DEF c
<1> QED
  BY <1>1, <1>2, HookAsked

LEMMA EnterKeeps ==
  ASSUME SettingsInv, NEW u, NEW others, Enter(u, others), OnPage,
         NEW cs \in SUBSET calls, others = Kept(cs) \/ others = Left(cs),
         IsAccount(account'), account'.setup = account.setup
  PROVE  SettingsInv'
<1>1. Synced(u, FirstHook, others, asked + 1) /\ FirstHook.setup \in BOOLEAN
  BY DEF Enter, FirstHook
<1>2. \A d \in others : d \in calls \/ d.slot = "left"
  BY KeptAre
<1> QED
  BY <1>1, <1>2, SyncedKeeps

\* What the visitor does with the hook.
LEMMA HookAskKeeps ==
  ASSUME SettingsInv, NEW does, HookAsk(does), does = "toggle" => hook.setup
  PROVE  SettingsInv'
<1> DEFINE c == [slot |-> "setup", key |-> [does |-> does, was |-> account], n |-> asked + 1]
<1>1. c.slot = "setup" /\ c.n = asked + 1 /\ c.key.was = account /\ c.key.does = does
  OBVIOUS
<1>2. /\ calls' = calls \cup {c} /\ hook' = Busy(hook, calls) /\ asked' = asked + 1
      /\ sent' = [sent EXCEPT !["setup"] = asked + 1] /\ landed' = landed /\ account' = account
  BY DEF HookAsk, OnPage
<1>3. hook.setup \in BOOLEAN /\ IsAccount(account)
  BY DEF SettingsInv, HookTypes
<1> HIDE DEF c
<1> QED
  BY <1>1, <1>2, <1>3, HookAsked

LEMMA StartOpKeeps ==
  ASSUME SettingsInv, NEW does, NEW section, StartOp(does, section), does \notin {"save", "remove"}
  PROVE  SettingsInv'
<1> DEFINE c == [slot |-> "op", key |-> [does |-> does, section |-> section], n |-> asked + 1]
<1>1. c.slot = "op" /\ CallIs(c)
  BY DEF CallIs
<1>2. /\ calls' = Kept(calls) \cup {c} /\ UNCHANGED <<hook, landed, sent, account>> /\ asked' = asked + 1
  BY DEF StartOp, OnPage
<1>3. asked \in Nat /\ IsAccount(account)
  BY DEF SettingsInv, HookTypes
<1> HIDE DEF c
<1> QED
  BY <1>1, <1>2, <1>3, HookLeft

\* Nothing but the page changes.
LEMMA PageKeeps ==
  ASSUME SettingsInv, NoCall, OnPage, UNCHANGED <<hook, account>>
  PROVE  SettingsInv'
<1>1. asked \in Nat /\ IsAccount(account)
  BY DEF SettingsInv, HookTypes
<1> QED
  BY <1>1, HookAtRest DEF NoCall, OnPage

LEMMA SettingsVisitor ==
  ASSUME SettingsInv,
         \/ (\E s \in Sections : ChooseSection(s)) \/ LeaveAndReturn \/ LoadSettings
         \/ (\E s \in TextSections, acceptable \in BOOLEAN : SubmitText(s, acceptable))
         \/ (\E s \in LinkSections : HandleLink(s))
         \/ (\E f \in {"sharecode", "code"} : TypeField(f))
         \/ (\E wellFormed \in BOOLEAN : SaveSharecode(wellFormed))
         \/ RemoveSharecode \/ ToggleProcessing
  PROVE  SettingsInv'
<1>1. IsAccount(account)
  BY DEF SettingsInv, HookTypes
<1>2. ASSUME NEW s, ChooseSection(s) PROVE SettingsInv'
  BY <1>2, PageKeeps DEF ChooseSection
<1>3. CASE LeaveAndReturn
  BY <1>1, <1>3, EnterKeeps DEF LeaveAndReturn
<1>4. CASE LoadSettings
  BY <1>1, <1>4, EnterKeeps DEF LoadSettings
<1>5. ASSUME NEW s, NEW acceptable, SubmitText(s, acceptable) PROVE SettingsInv'
  BY <1>5, PageKeeps, StartOpKeeps DEF SubmitText
<1>6. ASSUME NEW s, HandleLink(s) PROVE SettingsInv'
  <2>1. StartOp("unlink", s) \/ StartOp("link", s)
    BY <1>6, Zenon DEF HandleLink
  <2> QED
    BY <2>1, StartOpKeeps
<1>7. ASSUME NEW f, TypeField(f) PROVE SettingsInv'
  BY <1>7, PageKeeps DEF TypeField
<1>8. ASSUME NEW wellFormed, SaveSharecode(wellFormed) PROVE SettingsInv'
  BY <1>8, PageKeeps, HookAskKeeps DEF SaveSharecode
<1>9. CASE RemoveSharecode \/ ToggleProcessing
  BY <1>9, HookAskKeeps DEF RemoveSharecode, ToggleProcessing
<1> QED
  BY <1>2, <1>3, <1>4, <1>5, <1>6, <1>7, <1>8, <1>9

LEMMA OpAnswered ==
  ASSUME SettingsInv, NEW c \in calls, c.slot = "op", OpGot(c) \/ OpFailed(c)
  PROVE  SettingsInv'
<1>1. IsAccount(account) /\ account.setup \in BOOLEAN /\ asked \in Nat /\ calls \ {c} \in SUBSET calls
  BY DEF SettingsInv, HookTypes
<1>2. CASE /\ account' = Renamed(account, c.key.section) /\ OnPage
           /\ Finish(c, IF c.key.section = "password" THEN user ELSE account')
  <2>1. PICK u : Enter(u, Kept(calls \ {c}))
    BY <1>2, Zenon DEF Finish
  <2>2. IsAccount(account') /\ account'.setup = account.setup
    <3>1. IsAccount(Renamed(account, c.key.section)) /\ Renamed(account, c.key.section).setup = account.setup
      BY <1>1, AccountOps, Zenon
    <3> QED
      BY <1>2, <3>1
  <2> QED
    BY <1>1, <1>2, <2>1, <2>2, EnterKeeps
<1>3. ASSUME /\ account' = Unlinked(account, c.key.section)
             /\ calls' = Kept(calls \ {c}) \cup {[slot |-> "user", key |-> [ends |-> TRUE, was |-> account'], n |-> asked + 1]}
             /\ asked' = asked + 1 /\ UNCHANGED <<sent, hook>> /\ OnPage
      PROVE  SettingsInv'
  <2> DEFINE e == [slot |-> "user", key |-> [ends |-> TRUE, was |-> account'], n |-> asked + 1]
  <2>1. e.slot = "user" /\ CallIs(e) /\ calls' = Kept(calls \ {c}) \cup {e}
    BY <1>3 DEF CallIs
  <2> HIDE DEF e
  <2>2. \A d \in calls' : d \in Kept(calls \ {c}) \/ (d.slot \in {"op", "user"} /\ CallIs(d))
    BY <2>1
  <2>3. IsAccount(account') /\ account'.setup = account.setup
    <3>1. IsAccount(Unlinked(account, c.key.section)) /\ Unlinked(account, c.key.section).setup = account.setup
      BY <1>1, AccountOps, Zenon
    <3> QED
      BY <1>3, <3>1
  <2>4. asked' \in Nat /\ asked' >= asked /\ hook' = hook /\ landed' = landed /\ sent' = sent
    BY <1>1, <1>3 DEF OnPage
  <2> QED
    BY <1>1, <2>2, <2>3, <2>4, HookLeft
<1>4. ASSUME /\ account' \in {account, Linked(account, c.key.section)}
             /\ Synced(account', FirstHook, Left(calls \ {c}), asked + 1) /\ OnPage
      PROVE  SettingsInv'
  <2>1. IsAccount(account') /\ account'.setup = account.setup
    <3>1. IsAccount(Linked(account, c.key.section)) /\ Linked(account, c.key.section).setup = account.setup
      BY <1>1, AccountOps, Zenon
    <3> QED
      BY <1>1, <1>4, <3>1, Zenon
  <2>2. FirstHook.setup \in BOOLEAN
    BY DEF FirstHook
  <2>3. \A d \in Left(calls \ {c}) : d \in calls \/ d.slot = "left"
    BY KeptAre
  <2> QED
    BY <1>4, <2>1, <2>2, <2>3, SyncedKeeps
<1>5. CASE OpFailed(c)
  <2>1. c.key.does \notin {"save", "remove"}
    BY DEF SettingsInv, HookTypes, CallIs
  <2>2. IsAccount(account') /\ account'.setup = account.setup
    BY <1>1, <1>5, <2>1, MayBeIs DEF OpFailed
  <2>3. Enter(user, Kept(calls \ {c})) /\ OnPage
    BY <1>5 DEF OpFailed, Finish
  <2> QED
    BY <1>1, <2>2, <2>3, EnterKeeps
<1>6. CASE OpGot(c)
  BY <1>6, <1>2, <1>3, <1>4, Zenon DEF OpGot
<1> QED
  BY <1>5, <1>6

LEMMA UserAnswered ==
  ASSUME SettingsInv, NEW c, c.slot = "user", UserFetched(c) \/ UserNotFetched(c)
  PROVE  SettingsInv'
<1>1. IsAccount(account) /\ asked \in Nat /\ hook.setup \in BOOLEAN
  BY DEF SettingsInv, HookTypes
<1>2. CASE UserNotFetched(c)
  BY <1>1, <1>2, EnterKeeps DEF UserNotFetched
<1>3. CASE UserFetched(c)
  <2>1. OnPage /\ account' = account
    BY <1>3 DEF UserFetched
  <2>2. \/ \E u : Synced(u, FirstHook, Kept(calls \ {c}), asked + 1)
        \/ calls' = calls \ {c} /\ UNCHANGED <<asked, sent, hook>>
        \/ \E u : Synced(u, hook, calls \ {c}, asked + 1)
    BY <1>3, Zenon DEF UserFetched
  <2>3. ASSUME NEW u, Synced(u, FirstHook, Kept(calls \ {c}), asked + 1) PROVE SettingsInv'
    <3>1. FirstHook.setup \in BOOLEAN
      BY DEF FirstHook
    <3>2. \A d \in Kept(calls \ {c}) : d \in calls \/ d.slot = "left"
      BY KeptAre
    <3> QED
      BY <1>1, <2>1, <2>3, <3>1, <3>2, SyncedKeeps
  <2>4. CASE calls' = calls \ {c} /\ UNCHANGED <<asked, sent, hook>>
    BY <1>1, <2>1, <2>4, HookAtRest DEF OnPage
  <2>5. ASSUME NEW u, Synced(u, hook, calls \ {c}, asked + 1) PROVE SettingsInv'
    BY <1>1, <2>1, <2>5, SyncedKeeps
  <2> QED
    BY <2>2, <2>3, <2>4, <2>5
<1> QED
  BY <1>2, <1>3

LEMMA SetupAnswered ==
  ASSUME SettingsInv, NEW c \in calls, c.slot = "setup",
         \/ SetupChecked(c) \/ Saved(c) \/ SharecodeRemoved(c) \/ ProcessingToggled(c) \/ SetupFailed(c)
  PROVE  SettingsInv'
<1>1. IsAccount(account) /\ account.setup \in BOOLEAN /\ hook.setup \in BOOLEAN
  BY DEF SettingsInv, HookTypes
<1>2. SetupCall(c)
  BY DEF SettingsInv, HookTypes, Pending
<1>3. CASE SetupChecked(c)
  <2>1. PICK a \in {c.key.was, account} :
          hook' = Ended(a.setup, hook.error) /\ account' = account /\ Answer(c)
    BY <1>3 DEF SetupChecked
  <2>2. a.setup \in BOOLEAN /\ (AloneCall(c) => a.setup = account.setup)
    BY <1>1, <1>2 DEF SetupCall, AloneCall
  <2> QED
    BY <1>1, <2>1, <2>2, HookAnswered
<1>4. CASE Saved(c)
  BY <1>1, <1>4, AccountOps, HookAnswered DEF Saved
<1>5. CASE SharecodeRemoved(c)
  BY <1>1, <1>5, AccountOps, HookAnswered DEF SharecodeRemoved
<1>6. CASE ProcessingToggled(c)
  <2>1. /\ Answer(c) /\ account' = WithToggle(account) /\ hook' = Ended(hook.setup, hook.error)
        /\ account.setup /\ c.key.does = "toggle"
    BY <1>6 DEF ProcessingToggled
  <2>2. IsAccount(account') /\ account'.setup = account.setup
    BY <1>1, <2>1, AccountOps
  <2>3. AloneCall(c) => hook.setup = account'.setup
    BY <1>1, <2>1, <2>2 DEF AloneCall
  <2> QED
    BY <1>1, <2>1, <2>2, <2>3, HookAnswered
<1>7. CASE SetupFailed(c)
  <2>1. /\ Answer(c) /\ hook' = Ended(hook.setup, TRUE) /\ account' \in MayBe(account, c)
    BY <1>7 DEF SetupFailed
  <2>2. IsAccount(account') /\ account'.setup \in BOOLEAN
    BY <1>1, <2>1, MayBeIs
  <2> QED
    BY <1>1, <2>1, <2>2, HookAnswered
<1> QED
  BY <1>3, <1>4, <1>5, <1>6, <1>7

\* Saving or removal that was left behind is done while no answer is awaited that
\* overlapped nothing.
LEMMA LeftAnswered ==
  ASSUME SettingsInv, NEW c \in calls, c.slot = "left", LeftDone(c)
  PROVE  SettingsInv'
<1>1. /\ IsAccount(account') /\ account'.setup \in BOOLEAN
      /\ ~Stray(c) => account'.setup = account.setup
  BY MayBeIs DEF SettingsInv, HookTypes, LeftDone, Stray
<1>2. calls' = calls \ {c} /\ UNCHANGED <<asked, sent, landed, hook>>
  BY DEF LeftDone, OnPage
<1>3. CASE ~Stray(c)
  <2>1. asked' \in Nat /\ asked' >= asked
    BY <1>2 DEF SettingsInv, HookTypes
  <2> QED
    BY <1>1, <1>2, <1>3, <2>1, HookAtRest
<1>4. CASE Stray(c)
  <2>1. Pending("setup")' \subseteq Pending("setup")
    BY <1>2 DEF Pending
  <2>2. HookTypes'
    <3>1. \A d \in calls' : CallIs(d)
      BY <1>2 DEF SettingsInv, HookTypes
    <3> QED
      BY <1>1, <1>2, <2>1, <3>1 DEF SettingsInv, HookTypes, SetupCall, CallIs
  <2>3. ASSUME ~hook.overlap
        PROVE  Pending("setup")' = {} /\ landed["setup"] < sent["setup"] /\ landed["setup"] # sent["setup"]
    BY <1>4, <2>1, <2>3 DEF SettingsInv, HookTypes
  <2> QED
    BY <1>2, <2>2, <2>3 DEF SettingsInv
<1> QED
  BY <1>3, <1>4

LEMMA SettingsInit_Inv == SettingsInit => SettingsInv
<1> SUFFICES ASSUME SettingsInit PROVE SettingsInv
  OBVIOUS
<1>1. PICK setup \in BOOLEAN, late \in BOOLEAN :
        /\ account = [version |-> 0, linked |-> {"steam"}, setup |-> setup, enabled |-> FALSE]
        /\ calls = {Check(1)} \cup
             (IF late THEN {[slot |-> "user", key |-> [ends |-> FALSE, was |-> account], n |-> 1]} ELSE {})
  BY Zenon DEF SettingsInit
<1>2. hook = Busy(FirstHook, {}) /\ asked = 1 /\ sent = [setup |-> 1] /\ landed = [setup |-> 0]
  BY DEF SettingsInit
<1>3. IsAccount(account) /\ account.setup \in BOOLEAN
  BY <1>1 DEF IsAccount
<1>4. hook.setup = FALSE
  BY <1>2 DEF Busy, FirstHook
<1>5. /\ sent \in [{"setup"} -> Int] /\ landed \in [{"setup"} -> Int]
      /\ sent["setup"] = 1 /\ landed["setup"] = 0
  BY <1>2
<1>6. \A c \in Pending("setup") : c = Check(1)
  BY <1>1 DEF Pending
<1>7. Check(1).n = 1 /\ Check(1).key.was = account /\ Check(1).key.does = "check"
  BY DEF Check
<1>8. \A c \in Pending("setup") : SetupCall(c) /\ AloneCall(c)
  BY <1>2, <1>3, <1>5, <1>6, <1>7 DEF SetupCall, AloneCall
<1>9. \A c \in calls : c.slot \in {"setup", "user"}
  BY <1>1 DEF Check
<1> QED
  <2>1. HookTypes
    <3>1. asked \in Nat /\ landed["setup"] <= asked /\ sent["setup"] <= asked
      BY <1>2, <1>5
    <3>2. hook.setup \in BOOLEAN
      BY <1>4
    <3>3. \A c \in calls : CallIs(c)
      BY <1>9 DEF CallIs
    <3> QED
      BY <1>3, <1>5, <1>8, <3>1, <3>2, <3>3, Zenon DEF HookTypes
  <2>2. \A c, d \in Pending("setup") : c = d
    BY <1>6, Zenon
  <2>3. landed["setup"] # sent["setup"]
    BY <1>5
  <2>4. \A c \in calls : ~Stray(c)
    BY <1>9 DEF Stray
  <2> QED
    BY <1>8, <2>1, <2>2, <2>3, <2>4, Zenon DEF SettingsInv

LEMMA SettingsNext_Inv == SettingsInv /\ [SettingsNext]_settingsVars => SettingsInv'
<1> SUFFICES ASSUME SettingsInv, [SettingsNext]_settingsVars PROVE SettingsInv'
  OBVIOUS
<1>1. CASE UNCHANGED settingsVars
  BY <1>1, PageKeeps DEF settingsVars, settingsExtras, fetchVars, NoCall, OnPage
<1>2. CASE SettingsAnswers
  BY <1>2, LeftAnswered, OpAnswered, UserAnswered, SetupAnswered DEF SettingsAnswers, SettingsAnswer
<1>3. CASE SettingsNext /\ ~SettingsAnswers
  BY <1>3, SettingsVisitor DEF SettingsNext
<1> QED
  BY <1>1, <1>2, <1>3

\* When the hook's last request is answered without an error, and overlapped no
\* other, nor a saving or removal of a page that is gone, it knows whether the
\* account has a sharecode, whatever was asked of the provider meanwhile and
\* whatever else was left behind (useSteamSharecode, account-settings.tsx).
THEOREM SetupKnown == SettingsSpec => []SetupShownTrue
<1>1. SettingsInv => SetupShownTrue
  BY DEF SettingsInv, SetupShownTrue, Settled
<1> QED
  BY <1>1, SettingsInit_Inv, SettingsNext_Inv, PTL DEF SettingsSpec

-----------------------------------------------------------------------------
(* The pages that ask the API: requests are numbered, and of each slot the *)
(* number of its last request and of the last one answered is known.       *)
Shape(v) == v = [loading |-> v.loading, error |-> v.error, data |-> v.data]
IsCall(c) == c = [slot |-> c.slot, key |-> c.key, n |-> c.n]
Fetched == /\ asked \in Nat
           /\ sent \in [DOMAIN view -> Nat] /\ landed \in [DOMAIN view -> Nat]
           /\ \A s \in DOMAIN view : Shape(view[s]) /\ sent[s] <= asked /\ landed[s] <= asked
           /\ \A c \in calls : /\ IsCall(c) /\ c.slot \in DOMAIN view
                               /\ c.n \in Nat /\ c.n <= asked

LEMMA RequestsAre ==
  ASSUME NEW S, NEW k, NEW n
  PROVE  \A d \in {[slot |-> s, key |-> k, n |-> n] : s \in S} :
           IsCall(d) /\ d.slot \in S /\ d.key = k /\ d.n = n
BY DEF IsCall

-----------------------------------------------------------------------------
(* The grenades.                                                           *)

IsProvider(w) == w = [initialized |-> w.initialized, filters |-> w.filters,
                      maps |-> w.maps, players |-> w.players]
IsList(l) == l = [since |-> l.since, stars |-> l.stars, ids |-> l.ids, busy |-> l.busy]
IsGrenades(data) == data = Nothing \/ data = [of |-> data.of, shown |-> data.shown]

\* With filters that load grenades, the last load asks for those of the filters,
\* and so does the answer shown if it came last.
LoadsFilters ==
    HasValidFilters(page, provider.filters) /\ provider.initialized =>
        /\ \A c \in calls : c.slot = "grenades" /\ c.n = sent["grenades"] =>
               c.key.of = GrenadeParams(provider.filters)
        /\ landed["grenades"] = sent["grenades"] /\ Grenades # Nothing =>
               Grenades.of = GrenadeParams(provider.filters)
LoadAwaited == view["grenades"].loading =>
                   (\E c \in calls : c.slot = "grenades") /\ list = EmptyList
StarsAwaited == \A g \in list.busy :
                    \E c \in calls : c.slot = "star" /\ c.key.g = g /\ Current(c)
GrenadesHeld == /\ Fetched /\ DOMAIN view = ProviderSlots
                /\ IsProvider(provider) /\ IsList(list) /\ IsGrenades(Grenades)
                /\ LoadsFilters /\ LoadAwaited /\ StarsAwaited
                /\ list.stars \subseteq list.ids
GrenadesInv == page \in GrenadePageNames => GrenadesHeld

LEMMA GrenadesGiven == GrenadesInv => GrenadesShowFilters /\ GrenadesLoadingEnds /\ StarsRemovable
<1> SUFFICES ASSUME GrenadesInv, page \in GrenadePageNames
             PROVE  GrenadesShowFilters /\ GrenadesLoadingEnds /\ StarsRemovable
  BY DEF GrenadesShowFilters, GrenadesLoadingEnds, StarsRemovable
<1> USE DEF GrenadesInv, GrenadesHeld
<1>1. GrenadesShowFilters
  BY DEF GrenadesShowFilters, LoadsFilters, Settled
<1>2. GrenadesLoadingEnds
  BY DEF GrenadesLoadingEnds, LoadAwaited, StarsAwaited, Pending
<1>3. StarsRemovable
  BY DEF StarsRemovable
<1> QED BY <1>1, <1>2, <1>3

LEMMA EmptyIsList == IsList(EmptyList) /\ EmptyList.busy = {} /\ EmptyList.stars = {} /\ EmptyList.since = 0
BY DEF IsList, EmptyList

\* The provider goes on: with other filters only by a handler, which loads if it
\* can, and with a load of its first filters.
LEMMA ProvidedHeld ==
  ASSUME GrenadesHeld, NEW w, NEW set \in BOOLEAN, NEW data, NEW cs \in SUBSET calls,
         Provided(w, set, data, cs), IsProvider(w), IsGrenades(data),
         set \/ w.filters = provider.filters,
         data # Nothing => Grenades # Nothing /\ data.of = Grenades.of,
         \A c \in calls \ cs : c.slot \notin {"grenades", "star"}
  PROVE  GrenadesHeld'
<1> DEFINE S == Rendered(provider, w, set)
           n == Numbered(S)
           New == {[slot |-> s, key |-> GrenadeKey(s, w.filters), n |-> n] : s \in S}
           loads == "grenades" \in S
<1>1. /\ provider' = w /\ calls' = cs \cup New /\ asked' = n /\ page' = page /\ landed' = landed
      /\ sent' = SentBy(S \cap {"grenades"}, n)
  BY DEF Provided, Requests
<1>2. /\ loads => /\ view' = [view EXCEPT !["grenades"] = [loading |-> TRUE, error |-> FALSE, data |-> data]]
                  /\ list' = EmptyList
      /\ ~loads => view' = [view EXCEPT !["grenades"].data = data] /\ list' = list
  BY DEF Provided
<1>3. /\ loads <=> /\ w.initialized /\ HasValidFilters(page, w.filters)
                   /\ ~provider.initialized \/ set
      /\ S \subseteq {"grenades", "rounds", "init", "matches"}
  BY DEF Rendered
<1>4. n \in Nat /\ n >= asked /\ (loads => n = asked + 1) /\ (~loads => n = asked)
  BY DEF Numbered, GrenadesHeld, Fetched
<1>5. \A c \in New : /\ IsCall(c) /\ c.slot \in S /\ c.n = n
                     /\ c.slot = "grenades" => c.key.of = GrenadeParams(w.filters)
  BY <1>3 DEF IsCall, GrenadeKey
<1>6. loads => \E c \in New : c.slot = "grenades"
  <2>1. loads => [slot |-> "grenades", key |-> GrenadeKey("grenades", w.filters), n |-> n] \in New
    OBVIOUS
  <2> QED BY <2>1
<1>7. /\ sent' = [s \in DOMAIN sent |-> IF s = "grenades" /\ loads THEN n ELSE sent[s]]
  BY <1>1 DEF SentBy
<1> HIDE DEF S, n, New, loads
<1>8. /\ DOMAIN view' = ProviderSlots /\ Shape(view'["grenades"]) /\ view'["grenades"].data = data
      /\ \A s \in ProviderSlots \ {"grenades"} : view'[s] = view[s]
      /\ ~loads => view'["grenades"].loading = view["grenades"].loading
  BY <1>2 DEF GrenadesHeld, Fetched, Shape, ProviderSlots
<1>9. Fetched'
  <2>1. asked' \in Nat /\ sent' \in [DOMAIN view' -> Nat] /\ landed' \in [DOMAIN view' -> Nat]
    BY <1>1, <1>4, <1>7, <1>8 DEF GrenadesHeld, Fetched
  <2>2. \A s \in DOMAIN view' : Shape(view'[s]) /\ sent'[s] <= asked' /\ landed'[s] <= asked'
    <3> SUFFICES ASSUME NEW s \in ProviderSlots
                 PROVE  Shape(view'[s]) /\ sent'[s] <= asked' /\ landed'[s] <= asked'
      BY <1>8
    <3>1. s \in DOMAIN sent /\ sent[s] \in Nat /\ landed[s] \in Nat /\ asked \in Nat
          /\ Shape(view[s]) /\ sent[s] <= asked /\ landed[s] <= asked
      BY DEF GrenadesHeld, Fetched
    <3>2. Shape(view'[s])
      BY <3>1, <1>8
    <3>3. sent'[s] <= asked' /\ landed'[s] <= asked'
      BY <3>1, <1>1, <1>4, <1>7
    <3> QED BY <3>2, <3>3
  <2>3. \A c \in calls' : IsCall(c) /\ c.slot \in DOMAIN view' /\ c.n \in Nat /\ c.n <= asked'
    <3>1. \A c \in calls : IsCall(c) /\ c.slot \in ProviderSlots /\ c.n \in Nat /\ c.n <= asked /\ asked \in Nat
      BY DEF GrenadesHeld, Fetched
    <3>2. S \subseteq ProviderSlots
      BY <1>3 DEF ProviderSlots
    <3> QED BY <3>1, <3>2, <1>1, <1>4, <1>5, <1>8
  <2> QED BY <2>1, <2>2, <2>3 DEF Fetched
<1>10. IsList(list') /\ list'.stars \subseteq list'.ids
  BY <1>2, EmptyIsList DEF GrenadesHeld
<1>11. LoadsFilters'
  <2> SUFFICES ASSUME HasValidFilters(page, w.filters), w.initialized
               PROVE  /\ \A c \in calls' : c.slot = "grenades" /\ c.n = sent'["grenades"] =>
                             c.key.of = GrenadeParams(w.filters)
                      /\ landed'["grenades"] = sent'["grenades"] /\ data # Nothing =>
                             data.of = GrenadeParams(w.filters)
    BY <1>1, <1>8 DEF LoadsFilters, HasValidFilters, GrenadeParams, Grenades
  <2>0. "grenades" \in DOMAIN sent /\ sent["grenades"] <= asked /\ landed["grenades"] <= asked
    BY DEF GrenadesHeld, Fetched, ProviderSlots
  <2>1. CASE loads
    <3>1. sent'["grenades"] = asked + 1 /\ landed'["grenades"] <= asked
      BY <2>0, <2>1, <1>1, <1>4, <1>7
    <3>2. \A c \in cs : c.n \in Nat /\ c.n <= asked /\ asked \in Nat
      BY DEF GrenadesHeld, Fetched
    <3>3. landed'["grenades"] \in Nat
      BY <1>1 DEF GrenadesHeld, Fetched, ProviderSlots
    <3>4. asked \in Nat
      BY DEF GrenadesHeld, Fetched
    <3> QED BY <3>4, <3>1, <3>2, <3>3, <2>1, <1>1, <1>4, <1>5
  <2>2. CASE ~loads
    <3>1. provider.initialized /\ w.filters = provider.filters
      BY <2>2, <1>3
    <3>2. sent'["grenades"] = sent["grenades"] /\ \A c \in New : c.slot # "grenades"
      BY <2>0, <2>2, <1>5, <1>7 DEF loads
    <3> QED BY <3>1, <3>2, <1>1 DEF GrenadesHeld, LoadsFilters
  <2> QED BY <2>1, <2>2
<1>12. LoadAwaited'
  BY <1>1, <1>2, <1>6, <1>8 DEF LoadAwaited, GrenadesHeld
<1>13. StarsAwaited'
  BY <1>1, <1>2, EmptyIsList DEF StarsAwaited, GrenadesHeld, Current
<1> QED BY <1>1, <1>8, <1>9, <1>10, <1>11, <1>12, <1>13 DEF GrenadesHeld, Grenades

\* An answer of the server comes, and what else is under way for the loads and
\* the stars stays so; none of the rest asks for grenades.
LEMMA RestAwaited ==
  ASSUME GrenadesHeld, page' = page, UNCHANGED <<asked, sent, provider>>, IsList(list'),
         list'.stars \subseteq list'.ids, DOMAIN view' = ProviderSlots,
         \A s \in ProviderSlots : Shape(view'[s]), IsGrenades(Grenades'),
         landed' \in [ProviderSlots -> Nat], \A s \in ProviderSlots : landed'[s] <= asked,
         \A c \in calls' : \/ c \in calls
                           \/ /\ IsCall(c) /\ c.slot \in ProviderSlots \ {"grenades"}
                              /\ c.n \in Nat /\ c.n <= asked,
         HasValidFilters(page, provider.filters) /\ provider.initialized
             /\ landed'["grenades"] = sent["grenades"] /\ Grenades' # Nothing =>
                    Grenades'.of = GrenadeParams(provider.filters),
         LoadAwaited', StarsAwaited'
  PROVE  GrenadesHeld'
<1>1. Fetched'
  BY DEF GrenadesHeld, Fetched
<1>2. LoadsFilters'
  BY DEF GrenadesHeld, LoadsFilters, HasValidFilters, GrenadeParams, Grenades
<1> QED BY <1>1, <1>2 DEF GrenadesHeld, Grenades

LEMMA AskedAgainIs ==
  ASSUME GrenadesHeld, NEW changed
  PROVE  \A c \in AskedAgain(changed) :
           /\ IsCall(c) /\ c.slot \in {"rounds", "init", "matches"}
           /\ c.n = asked /\ asked \in Nat
<1> DEFINE S == IF changed THEN Rendered(provider, provider, FALSE) ELSE {}
<1>1. S \subseteq {"rounds", "init", "matches"}
  BY DEF Rendered
<1>2. AskedAgain(changed) = {[slot |-> s, key |-> GrenadeKey(s, provider.filters), n |-> asked] : s \in S}
  BY DEF AskedAgain, Requests
<1> HIDE DEF S
<1>3. asked \in Nat
  BY DEF GrenadesHeld, Fetched
<1> QED BY <1>1, <1>2, <1>3 DEF IsCall

LEMMA FilterHeld ==
  ASSUME GrenadesHeld, NEW f, NEW data, data = Nothing \/ data = Grenades, SetFilter(f, data)
  PROVE  GrenadesHeld'
<1>0. PICK w : w = [provider EXCEPT !.filters = f, !.initialized = TRUE]
  OBVIOUS
<1>1. IsProvider(w)
  BY <1>0 DEF GrenadesHeld, IsProvider
<1>2. Provided(w, TRUE, data, calls)
  BY <1>0 DEF SetFilter
<1>3. IsGrenades(data) /\ (data # Nothing => Grenades # Nothing /\ data.of = Grenades.of)
  BY DEF GrenadesHeld, IsGrenades
<1> QED BY <1>1, <1>2, <1>3, ProvidedHeld

\* An answer to the provider, with the grenades shown or less of them.
LEMMA AnswerHeld ==
  ASSUME GrenadesHeld, NEW c \in calls, c.slot \notin {"grenades", "star"},
         NEW w, NEW set \in BOOLEAN, NEW data,
         IsProvider(w), set \/ w.filters = provider.filters,
         data = Nothing \/ (Grenades # Nothing /\ IsGrenades(data) /\ data.of = Grenades.of),
         Provided(w, set, data, calls \ {c})
  PROVE  GrenadesHeld'
<1>1. IsGrenades(data) /\ (data # Nothing => Grenades # Nothing /\ data.of = Grenades.of)
  BY DEF IsGrenades
<1>2. calls \ {c} \in SUBSET calls /\ \A d \in calls \ (calls \ {c}) : d.slot \notin {"grenades", "star"}
  OBVIOUS
<1> QED BY <1>1, <1>2, ProvidedHeld

LEMMA OptionsHeld ==
  ASSUME GrenadesHeld, NEW c \in calls, c.slot \notin {"grenades", "star"},
         OptionsGot(c) \/ InitGot(c) \/ MatchesGot(c) \/ MatchOptionsGot(c) \/ Removed(c)
  PROVE  GrenadesHeld'
<1>0. /\ IsProvider(provider) /\ IsGrenades(Grenades)
      /\ Grenades = Nothing \/ (Grenades # Nothing /\ IsGrenades(Grenades) /\ Grenades.of = Grenades.of)
  BY DEF GrenadesHeld
<1>1. CASE OptionsGot(c)
  <2>0. PICK w : w = [provider EXCEPT !.maps = TRUE, !.players = FALSE]
    OBVIOUS
  <2>1. IsProvider(w) /\ w.filters = provider.filters
    BY <2>0, <1>0 DEF IsProvider
  <2>2. Provided(w, FALSE, Grenades, calls \ {c})
    BY <2>0, <1>1 DEF OptionsGot
  <2> QED BY <2>1, <2>2, <1>0, AnswerHeld
<1>2. CASE InitGot(c)
  <2>1. CASE page = "match_grenades"
    <3>0. PICK w : w = [provider EXCEPT !.initialized = TRUE]
      OBVIOUS
    <3>1. IsProvider(w) /\ w.filters = provider.filters
      BY <3>0, <1>0 DEF IsProvider
    <3>2. Provided(w, FALSE, Grenades, calls \ {c})
      BY <3>0, <1>2, <2>1 DEF InitGot
    <3> QED BY <3>1, <3>2, <1>0, AnswerHeld
  <2>2. CASE page # "match_grenades" /\ c.key.step = "maps"
    <3> DEFINE d == [c EXCEPT !.key.step = "matches"]
    <3>1. IsCall(c) /\ c.slot \in ProviderSlots /\ c.n \in Nat /\ c.n <= asked
      BY DEF GrenadesHeld, Fetched
    <3>2. IsCall(d) /\ d.slot = c.slot /\ d.n = c.n
      BY <3>1 DEF IsCall
    <3>3. calls' = (calls \ {c}) \cup {d} /\ UNCHANGED <<page, view, asked, sent, landed, grenadeExtras>>
      BY <1>2, <2>2 DEF InitGot
    <3> HIDE DEF d
    <3>4. LoadAwaited'
      BY <3>3 DEF GrenadesHeld, LoadAwaited, grenadeExtras
    <3>5. StarsAwaited'
      BY <3>3 DEF GrenadesHeld, StarsAwaited, Current, grenadeExtras
    <3>6. /\ DOMAIN view' = ProviderSlots /\ \A s \in ProviderSlots : Shape(view'[s])
          /\ landed' \in [ProviderSlots -> Nat] /\ \A s \in ProviderSlots : landed'[s] <= asked
          /\ UNCHANGED <<page, asked, sent, provider, list, landed, view>>
      BY <3>3 DEF GrenadesHeld, Fetched, grenadeExtras
    <3>7. IsGrenades(Grenades') /\ Grenades' = Grenades
      BY <1>0, <3>6 DEF Grenades
    <3>8. IsList(list') /\ list'.stars \subseteq list'.ids
      BY <3>6 DEF GrenadesHeld
    <3>9. \A e \in calls' : \/ e \in calls
                            \/ /\ IsCall(e) /\ e.slot \in ProviderSlots \ {"grenades"}
                               /\ e.n \in Nat /\ e.n <= asked
      BY <3>1, <3>2, <3>3
    <3>10. HasValidFilters(page, provider.filters) /\ provider.initialized
             /\ landed'["grenades"] = sent["grenades"] /\ Grenades' # Nothing =>
                    Grenades'.of = GrenadeParams(provider.filters)
      BY <3>6, <3>7 DEF GrenadesHeld, LoadsFilters
    <3> QED BY <3>4, <3>5, <3>6, <3>7, <3>8, <3>9, <3>10, RestAwaited
  <2>3. CASE page # "match_grenades" /\ c.key.step # "maps"
    <3>1. PICK map \in AllMaps :
             Provided([provider EXCEPT !.initialized = TRUE,
                            !.filters = [DefaultFilters(map) EXCEPT !.match = FirstMatch(map)]],
                      TRUE, Grenades, calls \ {c})
      BY <1>2, <2>3 DEF InitGot
    <3> DEFINE f == [DefaultFilters(map) EXCEPT !.match = FirstMatch(map)]
    <3> HIDE DEF f
    <3>0. PICK w : w = [provider EXCEPT !.initialized = TRUE, !.filters = f]
      OBVIOUS
    <3>2. IsProvider(w)
      BY <3>0, <1>0 DEF IsProvider
    <3>3. Provided(w, TRUE, Grenades, calls \ {c})
      BY <3>0, <3>1 DEF f
    <3> QED BY <3>2, <3>3, <1>0, AnswerHeld
  <2> QED BY <2>1, <2>2, <2>3
<1>3. CASE MatchesGot(c)
  <2> DEFINE match == FirstMatch(c.key.map)
             f == IF match = "" THEN provider.filters
                  ELSE [provider.filters EXCEPT !.match = match, !.round = Every, !.who = Every]
  <2>1. Provided([provider EXCEPT !.players = FALSE, !.filters = f], match # "", Grenades, calls \ {c})
    BY <1>3 DEF MatchesGot
  <2>2. match # "" \/ f = provider.filters
    OBVIOUS
  <2> HIDE DEF match, f
  <2>0. PICK w : w = [provider EXCEPT !.players = FALSE, !.filters = f]
    OBVIOUS
  <2>3. IsProvider(w) /\ w.filters = f
    BY <2>0, <1>0 DEF IsProvider
  <2>4. Provided(w, match # "", Grenades, calls \ {c}) /\ (match # "") \in BOOLEAN
    BY <2>0, <2>1
  <2> QED BY <2>2, <2>3, <2>4, <1>0, AnswerHeld
<1>4. CASE MatchOptionsGot(c)
  <2>0. PICK w : w = [provider EXCEPT !.players = TRUE]
    OBVIOUS
  <2>1. IsProvider(w) /\ w.filters = provider.filters
    BY <2>0, <1>0 DEF IsProvider
  <2>2. Provided(w, FALSE, Grenades, calls \ {c})
    BY <2>0, <1>4 DEF MatchOptionsGot
  <2> QED BY <2>1, <2>2, <1>0, AnswerHeld
<1>5. CASE Removed(c)
  <2>1. CASE Grenades = Nothing
    <3>1. Provided(provider, FALSE, Nothing, calls \ {c})
      BY <1>5, <2>1 DEF Removed
    <3> QED BY <3>1, <2>1, <1>0, AnswerHeld DEF IsGrenades
  <2>2. CASE Grenades # Nothing
    <3> DEFINE g == Grenades
    <3>1. Provided(provider, FALSE, [g EXCEPT !.shown = @ \ {c.key.g}], calls \ {c})
      BY <1>5, <2>2 DEF Removed
    <3>2. g = [of |-> g.of, shown |-> g.shown]
      BY <1>0, <2>2 DEF IsGrenades
    <3> HIDE DEF g
    <3> DEFINE data == [g EXCEPT !.shown = @ \ {c.key.g}]
    <3>3. data = [of |-> data.of, shown |-> data.shown] /\ data.of = g.of
      BY <3>2
    <3>4. IsGrenades(data) /\ data.of = Grenades.of
      BY <3>3, Zenon DEF IsGrenades, g
    <3>5. Provided(provider, FALSE, data, calls \ {c})
      BY <3>1
    <3> HIDE DEF data
    <3> QED BY <3>4, <3>5, <2>2, <1>0, AnswerHeld
  <2> QED BY <2>1, <2>2
<1> QED BY <1>1, <1>2, <1>3, <1>4, <1>5

\* What RestAwaited asks for, when the list and what loads stay as they are.
LEMMA ListStays ==
  ASSUME GrenadesHeld, page' = page, UNCHANGED <<asked, sent, provider, list, landed>>,
         \/ view' = view
         \/ \E e \in BOOLEAN : view' = [view EXCEPT !["grenades"].error = e],
         \A c \in calls' : \/ c \in calls
                           \/ /\ IsCall(c) /\ c.slot \in ProviderSlots \ {"grenades"}
                              /\ c.n \in Nat /\ c.n <= asked,
         \A c \in calls \ calls' : c.slot \notin {"grenades", "star"}
  PROVE  GrenadesHeld'
<1>1. /\ DOMAIN view = ProviderSlots /\ "grenades" \in ProviderSlots
      /\ \A s \in ProviderSlots : Shape(view[s])
      /\ landed \in [ProviderSlots -> Nat] /\ \A s \in ProviderSlots : landed[s] <= asked
  BY DEF GrenadesHeld, Fetched, ProviderSlots
<1>2. /\ DOMAIN view' = ProviderSlots
      /\ \A s \in ProviderSlots \ {"grenades"} : view'[s] = view[s]
      /\ Shape(view'["grenades"]) /\ view'["grenades"].data = view["grenades"].data
      /\ view'["grenades"].loading = view["grenades"].loading
  BY <1>1 DEF Shape
<1>3. \A s \in ProviderSlots : Shape(view'[s])
  BY <1>1, <1>2
<1>4. Grenades' = Grenades
  BY <1>2 DEF Grenades
<1>5. IsGrenades(Grenades') /\ IsList(list') /\ list'.stars \subseteq list'.ids
  BY <1>4 DEF GrenadesHeld
<1>6. LoadAwaited'
  BY <1>2 DEF GrenadesHeld, LoadAwaited
<1>7. StarsAwaited'
  BY DEF GrenadesHeld, StarsAwaited, Current
<1>8. HasValidFilters(page, provider.filters) /\ provider.initialized
        /\ landed'["grenades"] = sent["grenades"] /\ Grenades' # Nothing =>
               Grenades'.of = GrenadeParams(provider.filters)
  BY <1>4 DEF GrenadesHeld, LoadsFilters
<1> QED BY <1>1, <1>2, <1>3, <1>5, <1>6, <1>7, <1>8, RestAwaited

LEMMA FailureHeld ==
  ASSUME GrenadesHeld, NEW c \in calls,
         \/ c.slot \in {"options", "init", "rounds"} /\ OptionsFailed(c)
         \/ c.slot = "matches" /\ MatchesFailed(c)
         \/ c.slot = "remove" /\ RemoveFailed(c)
         \/ c.slot = "favourites" /\ FavouritesFailed(c)
  PROVE  GrenadesHeld'
<1>1. \A e \in AskedAgain(~view["grenades"].error) :
         /\ IsCall(e) /\ e.slot \in ProviderSlots \ {"grenades"} /\ e.n \in Nat /\ e.n <= asked
  BY AskedAgainIs DEF ProviderSlots
<1>2. CASE c.slot \in {"options", "init", "rounds"} /\ OptionsFailed(c)
  BY <1>1, <1>2, ListStays DEF OptionsFailed, grenadeExtras
<1>3. CASE c.slot = "matches" /\ MatchesFailed(c)
  BY <1>3, ListStays DEF MatchesFailed, LandUnseen, grenadeExtras
<1>4. CASE c.slot = "remove" /\ RemoveFailed(c)
  BY <1>1, <1>4, ListStays DEF RemoveFailed
<1>5. CASE c.slot = "favourites" /\ FavouritesFailed(c)
  <2>0. PICK d : d = [c EXCEPT !.slot = "checks"]
    OBVIOUS
  <2>1. IsCall(c) /\ c.n \in Nat /\ c.n <= asked
    BY DEF GrenadesHeld, Fetched
  <2>2. IsCall(d) /\ d.slot \in ProviderSlots \ {"grenades"} /\ d.n \in Nat /\ d.n <= asked
    BY <2>0, <2>1 DEF IsCall, ProviderSlots
  <2>3. calls' = (calls \ {c}) \cup {d}
    BY <1>5, <2>0 DEF FavouritesFailed
  <2> QED BY <1>5, <2>2, <2>3, ListStays DEF FavouritesFailed, grenadeExtras
<1> QED BY <1>2, <1>3, <1>4, <1>5

LEMMA RemoveHeld ==
  ASSUME GrenadesHeld, NEW g, RemoveFavourite(g)
  PROVE  GrenadesHeld'
<1> DEFINE d == [slot |-> "remove", key |-> [g |-> g], n |-> asked + 1]
           again == AskedAgain(view["grenades"].error)
<1>1. IsCall(d) /\ d.slot = "remove" /\ d.n = asked + 1
  BY DEF IsCall
<1>2. \A e \in again : IsCall(e) /\ e.slot \in {"rounds", "init", "matches"} /\ e.n = asked
  BY AskedAgainIs
<1>3. /\ asked' = asked + 1 /\ calls' = calls \cup {d} \cup again
      /\ view' = [view EXCEPT !["grenades"].error = FALSE]
      /\ UNCHANGED <<page, sent, landed, provider, list>>
  BY DEF RemoveFavourite, grenadeExtras
<1> HIDE DEF d, again
<1>4. /\ DOMAIN view = ProviderSlots /\ "grenades" \in ProviderSlots
      /\ \A s \in ProviderSlots : Shape(view[s])
  BY DEF GrenadesHeld, Fetched, ProviderSlots
<1>5. /\ DOMAIN view' = ProviderSlots
      /\ \A s \in ProviderSlots \ {"grenades"} : view'[s] = view[s]
      /\ Shape(view'["grenades"]) /\ view'["grenades"].data = view["grenades"].data
      /\ view'["grenades"].loading = view["grenades"].loading
  <2>1. Shape(view["grenades"])
    BY <1>4
  <2>2. view' = [view EXCEPT !["grenades"].error = FALSE]
    BY <1>3
  <2>3. /\ DOMAIN view' = ProviderSlots
        /\ \A s \in ProviderSlots \ {"grenades"} : view'[s] = view[s]
    BY <1>4, <2>2
  <2> QED BY <1>4, <2>1, <2>2, <2>3 DEF Shape
<1>6. Grenades' = Grenades
  BY <1>5 DEF Grenades
<1>7. Fetched'
  <2>1. /\ asked \in Nat /\ sent \in [ProviderSlots -> Nat] /\ landed \in [ProviderSlots -> Nat]
        /\ \A s \in ProviderSlots : sent[s] <= asked /\ landed[s] <= asked
        /\ \A c \in calls : IsCall(c) /\ c.slot \in ProviderSlots /\ c.n \in Nat /\ c.n <= asked
    BY <1>4 DEF GrenadesHeld, Fetched
  <2>2. \A s \in ProviderSlots : Shape(view'[s]) /\ sent'[s] <= asked' /\ landed'[s] <= asked'
    BY <2>1, <1>3, <1>4, <1>5
  <2>3. \A c \in calls' : IsCall(c) /\ c.slot \in ProviderSlots /\ c.n \in Nat /\ c.n <= asked'
    BY <2>1, <1>1, <1>2, <1>3 DEF ProviderSlots
  <2>4. asked' \in Nat /\ sent' \in [ProviderSlots -> Nat] /\ landed' \in [ProviderSlots -> Nat]
    BY <2>1, <1>3
  <2> QED BY <2>2, <2>3, <2>4, <1>5 DEF Fetched
<1>8. LoadsFilters'
  BY <1>1, <1>2, <1>3, <1>6 DEF GrenadesHeld, LoadsFilters, HasValidFilters, GrenadeParams
<1>9. LoadAwaited'
  BY <1>3, <1>5 DEF GrenadesHeld, LoadAwaited
<1>10. StarsAwaited'
  BY <1>3 DEF GrenadesHeld, StarsAwaited, Current
<1>11. IsProvider(provider') /\ IsList(list') /\ IsGrenades(Grenades') /\ list'.stars \subseteq list'.ids
  BY <1>3, <1>6 DEF GrenadesHeld
<1> QED BY <1>5, <1>7, <1>8, <1>9, <1>10, <1>11, Zenon DEF GrenadesHeld

\* The list is there or mounted now; what it asks is not for grenades.
LEMMA LoadHeld ==
  ASSUME GrenadesHeld, NEW c \in calls, c.slot = "grenades",
         GrenadesGot(c) \/ GrenadesFailed(c)
  PROVE  GrenadesHeld'
<1>1. /\ DOMAIN view = ProviderSlots /\ "grenades" \in ProviderSlots
      /\ \A s \in ProviderSlots : Shape(view[s])
      /\ landed \in [ProviderSlots -> Nat] /\ \A s \in ProviderSlots : landed[s] <= asked
      /\ c.n \in Nat /\ c.n <= asked
  BY DEF GrenadesHeld, Fetched, ProviderSlots
<1>2. Shape(view["grenades"])
  BY <1>1
<1>3. PICK since : since = c.n
  OBVIOUS
<1>4. PICK first : first = [EmptyList EXCEPT !.since = since]
  OBVIOUS
<1>5. IsList(first) /\ first.busy = {} /\ first.stars = {} /\ first.ids = {}
  BY <1>4 DEF IsList, EmptyList
<1>6. PICK l : l = IF view["grenades"].loading THEN first ELSE list
  OBVIOUS
<1>7. IsList(l) /\ l.stars \subseteq l.ids
  BY <1>5, <1>6 DEF GrenadesHeld
<1>3a. PICK again : again = AskedAgain(TRUE)
  BY Zenon
<1>3b. \A d \in again : /\ IsCall(d) /\ d.slot \in ProviderSlots \ {"grenades"}
                       /\ d.n \in Nat /\ d.n <= asked
  <2>1. \A d \in again : /\ IsCall(d) /\ d.slot \in {"rounds", "init", "matches"}
                         /\ d.n = asked /\ asked \in Nat
    BY <1>3a, AskedAgainIs, Zenon
  <2> QED BY <2>1 DEF ProviderSlots
<1>8. PICK asks : /\ \A d \in asks : IsCall(d) /\ d.slot = "favourites" /\ d.n = c.n
                  /\ calls' = (calls \ {c}) \cup asks \cup again
                  /\ list' = l /\ UNCHANGED <<page, asked, sent, provider>>
                  /\ \/ /\ landed' = [landed EXCEPT !["grenades"] = c.n]
                        /\ \E shown : view' = [view EXCEPT !["grenades"] =
                             [@ EXCEPT !.loading = FALSE, !.data = [of |-> c.key.of, shown |-> shown]]]
                     \/ landed' = landed /\ view' = [view EXCEPT !["grenades"] = Failed(@)]
  <2>1. CASE GrenadesGot(c)
    <3>1. PICK shown \in AnswersTo(c) :
            LET m == IF view["grenades"].loading THEN [EmptyList EXCEPT !.since = c.n] ELSE list
                S == IF ListAsks(c, shown) THEN {"favourites"} ELSE {}
            IN /\ view' = [view EXCEPT !["grenades"] =
                             [@ EXCEPT !.loading = FALSE, !.data = [of |-> c.key.of, shown |-> shown]]]
               /\ list' = m
               /\ calls' = (calls \ {c}) \cup {[slot |-> s, key |-> [since |-> m.since, seen |-> kept], n |-> c.n] : s \in S}
                              \cup AskedAgain(TRUE)
               /\ landed' = [landed EXCEPT !["grenades"] = c.n]
               /\ UNCHANGED <<page, asked, sent, provider, kept>>
      BY <2>1 DEF GrenadesGot, Requests
    <3>2. l = IF view["grenades"].loading THEN [EmptyList EXCEPT !.since = c.n] ELSE list
      BY <1>3, <1>4, <1>6
    <3>2a. PICK k : k = [since |-> l.since, seen |-> kept]
      OBVIOUS
    <3> DEFINE S == IF ListAsks(c, shown) THEN {"favourites"} ELSE {}
               asks == {[slot |-> s, key |-> k, n |-> since] : s \in S}
    <3>0. S \subseteq {"favourites"}
      OBVIOUS
    <3>4. calls' = (calls \ {c}) \cup asks \cup again /\ list' = l
      BY <3>1, <3>2, <3>2a, <1>3, <1>3a, Zenon
    <3> HIDE DEF S
    <3>5. \A d \in asks : IsCall(d) /\ d.slot \in S /\ d.n = since
      BY DEF IsCall
    <3>3. \A d \in asks : IsCall(d) /\ d.slot = "favourites" /\ d.n = c.n
      BY <1>3, <3>0, <3>5
    <3> HIDE DEF asks
    <3> QED BY <3>1, <3>3, <3>4
  <2>2. CASE GrenadesFailed(c)
    <3>2a. PICK k : k = [since |-> l.since, seen |-> kept]
      OBVIOUS
    <3> DEFINE S == IF view["grenades"].loading /\ Grenades # Nothing /\ page = "match_grenades" THEN {"favourites"} ELSE {}
               asks == {[slot |-> s, key |-> k, n |-> since] : s \in S}
    <3>2. l = IF view["grenades"].loading THEN [EmptyList EXCEPT !.since = c.n] ELSE list
      BY <1>3, <1>4, <1>6
    <3>0. S \subseteq {"favourites"}
      OBVIOUS
    <3>4. /\ calls' = (calls \ {c}) \cup asks \cup again /\ list' = l
          /\ view' = [view EXCEPT !["grenades"] = Failed(@)]
          /\ UNCHANGED <<page, asked, sent, landed, provider>>
      BY <2>2, <3>2, <3>2a, <1>3, <1>3a, Zenon DEF GrenadesFailed, Requests
    <3> HIDE DEF S
    <3>5. \A d \in asks : IsCall(d) /\ d.slot \in S /\ d.n = since
      BY DEF IsCall
    <3>3. \A d \in asks : IsCall(d) /\ d.slot = "favourites" /\ d.n = c.n
      BY <1>3, <3>0, <3>5
    <3> HIDE DEF asks
    <3> QED BY <3>3, <3>4
  <2> QED BY <2>1, <2>2
<1>9. /\ DOMAIN view' = ProviderSlots
      /\ \A s \in ProviderSlots \ {"grenades"} : view'[s] = view[s]
      /\ Shape(view'["grenades"]) /\ ~view'["grenades"].loading
      /\ landed' \in [ProviderSlots -> Nat] /\ \A s \in ProviderSlots : landed'[s] <= asked
  <2>1. CASE landed' = landed /\ view' = [view EXCEPT !["grenades"] = Failed(@)]
    BY <2>1, <1>1, <1>2 DEF Shape, Failed
  <2>2. CASE /\ landed' = [landed EXCEPT !["grenades"] = c.n]
             /\ \E shown : view' = [view EXCEPT !["grenades"] =
                  [@ EXCEPT !.loading = FALSE, !.data = [of |-> c.key.of, shown |-> shown]]]
    <3>1. PICK shown : view' = [view EXCEPT !["grenades"] =
                         [@ EXCEPT !.loading = FALSE, !.data = [of |-> c.key.of, shown |-> shown]]]
      BY <2>2
    <3>2. /\ DOMAIN view' = ProviderSlots
          /\ \A s \in ProviderSlots \ {"grenades"} : view'[s] = view[s]
          /\ Shape(view'["grenades"]) /\ ~view'["grenades"].loading
      BY <3>1, <1>1, <1>2 DEF Shape
    <3> QED BY <3>2, <2>2, <1>1
  <2> QED BY <1>8, <2>1, <2>2
<1>10. \/ Grenades' = Grenades /\ landed' = landed
       \/ /\ IsGrenades(Grenades') /\ Grenades'.of = c.key.of
          /\ landed'["grenades"] = c.n
  <2>1. CASE landed' = landed /\ view' = [view EXCEPT !["grenades"] = Failed(@)]
    BY <2>1, <1>1, <1>2 DEF Shape, Failed, Grenades
  <2>2. CASE /\ landed' = [landed EXCEPT !["grenades"] = c.n]
             /\ \E shown : view' = [view EXCEPT !["grenades"] =
                  [@ EXCEPT !.loading = FALSE, !.data = [of |-> c.key.of, shown |-> shown]]]
    <3>1. PICK shown : view' = [view EXCEPT !["grenades"] =
                         [@ EXCEPT !.loading = FALSE, !.data = [of |-> c.key.of, shown |-> shown]]]
      BY <2>2
    <3>2. Grenades' = [of |-> c.key.of, shown |-> shown]
      BY <3>1, <1>1, <1>2 DEF Shape, Grenades
    <3>3. IsGrenades(Grenades') /\ Grenades'.of = c.key.of
      BY <3>2 DEF IsGrenades
    <3> QED BY <3>3, <2>2, <1>1
  <2> QED BY <1>8, <2>1, <2>2
<1>11. IsGrenades(Grenades')
  BY <1>10 DEF GrenadesHeld
<1>12. HasValidFilters(page, provider.filters) /\ provider.initialized
         /\ landed'["grenades"] = sent["grenades"] /\ Grenades' # Nothing =>
                Grenades'.of = GrenadeParams(provider.filters)
  BY <1>10 DEF GrenadesHeld, LoadsFilters
<1>13. LoadAwaited'
  BY <1>9 DEF LoadAwaited
<1>14. StarsAwaited'
  <2>1. CASE view["grenades"].loading
    BY <2>1, <1>5, <1>6, <1>8 DEF StarsAwaited
  <2>2. CASE ~view["grenades"].loading
    BY <2>2, <1>6, <1>8 DEF GrenadesHeld, StarsAwaited, Current
  <2> QED BY <2>1, <2>2
<1>15. \A d \in calls' : \/ d \in calls
                         \/ /\ IsCall(d) /\ d.slot \in ProviderSlots \ {"grenades"}
                            /\ d.n \in Nat /\ d.n <= asked
  <2>2. "favourites" \in ProviderSlots \ {"grenades"}
    BY DEF ProviderSlots
  <2> QED BY <1>1, <1>8, <1>3b, <2>2
<1>16. \A s \in ProviderSlots : Shape(view'[s])
  BY <1>1, <1>9
<1> QED BY <1>7, <1>8, <1>9, <1>11, <1>12, <1>13, <1>14, <1>15, <1>16, RestAwaited

\* The favourites: what the list is told when an answer comes.
LEMMA FavouritesHeld ==
  ASSUME GrenadesHeld, NEW c \in calls, c.slot # "grenades", NEW l, list' = l, IsList(l),
         l.stars \subseteq l.ids, l.since = list.since, l.busy \subseteq list.busy,
         l = list \/ list.since # 0,
         c.slot = "star" /\ Current(c) => c.key.g \notin l.busy,
         LandUnseen(c), UNCHANGED <<view, provider>>
  PROVE  GrenadesHeld'
<1>1. /\ DOMAIN view' = ProviderSlots /\ \A s \in ProviderSlots : Shape(view'[s])
      /\ landed' \in [ProviderSlots -> Nat] /\ \A s \in ProviderSlots : landed'[s] <= asked
      /\ UNCHANGED <<page, asked, sent, provider, view, landed>> /\ calls' = calls \ {c}
  BY DEF GrenadesHeld, Fetched, LandUnseen
<1>2. IsGrenades(Grenades') /\ Grenades' = Grenades
  BY <1>1 DEF Grenades, GrenadesHeld
<1>3. LoadAwaited'
  <2> SUFFICES ASSUME view["grenades"].loading
               PROVE  (\E d \in calls' : d.slot = "grenades") /\ l = EmptyList
    BY <1>1 DEF LoadAwaited
  <2>1. list = EmptyList /\ \E d \in calls : d.slot = "grenades"
    BY DEF GrenadesHeld, LoadAwaited
  <2>2. l = list
    BY <2>1, EmptyIsList
  <2> QED BY <2>1, <2>2, <1>1
<1>4. StarsAwaited'
  <2> SUFFICES ASSUME NEW g \in l.busy
               PROVE  \E d \in calls' : d.slot = "star" /\ d.key.g = g /\ Current(d)'
    BY DEF StarsAwaited
  <2>1. PICK d \in calls : d.slot = "star" /\ d.key.g = g /\ Current(d)
    BY DEF GrenadesHeld, StarsAwaited
  <2>2. d # c
    BY <2>1
  <2>3. Current(d)'
    BY <2>1 DEF Current
  <2> QED BY <2>1, <2>2, <2>3, <1>1
<1>5. HasValidFilters(page, provider.filters) /\ provider.initialized
        /\ landed'["grenades"] = sent["grenades"] /\ Grenades' # Nothing =>
               Grenades'.of = GrenadeParams(provider.filters)
  BY <1>1, <1>2 DEF GrenadesHeld, LoadsFilters
<1>6. \A d \in calls' : d \in calls
  BY <1>1
<1> QED BY <1>1, <1>2, <1>3, <1>4, <1>5, <1>6, RestAwaited

LEMMA StarHeld ==
  ASSUME GrenadesHeld, NEW c \in calls,
         \/ c.slot = "favourites" /\ FavouritesGot(c)
         \/ c.slot = "checks" /\ Checked(c)
         \/ c.slot = "star" /\ (StarGot(c) \/ StarFailed(c))
  PROVE  GrenadesHeld'
<1>1. IsList(list) /\ list.stars \subseteq list.ids
  BY DEF GrenadesHeld
<1>2. ASSUME NEW stars, NEW ids, stars \subseteq ids, FavouritesKnown(c, stars, ids), LandUnseen(c),
             c.slot \in {"favourites", "checks"}
      PROVE  GrenadesHeld'
  <2>0. PICK known : known = [list EXCEPT !.stars = stars, !.ids = ids]
    OBVIOUS
  <2>1. IsList(known) /\ known.stars = stars /\ known.ids = ids /\ known.since = list.since
        /\ known.busy = list.busy
    BY <1>1, <2>0 DEF IsList
  <2>2. PICK l : l = IF Current(c) THEN known ELSE list
    OBVIOUS
  <2>3. list' = l /\ UNCHANGED <<view, provider>>
    BY <1>2, <2>0, <2>2 DEF FavouritesKnown
  <2>4. l = list \/ list.since # 0
    BY <2>2 DEF Current
  <2>5. IsList(l) /\ l.stars \subseteq l.ids /\ l.since = list.since /\ l.busy \subseteq list.busy
    BY <1>1, <1>2, <2>1, <2>2
  <2> QED BY <1>2, <2>3, <2>4, <2>5, FavouritesHeld
<1>3. CASE c.slot = "favourites" /\ FavouritesGot(c)
  BY <1>2, <1>3 DEF FavouritesGot
<1>4. CASE c.slot = "checks" /\ Checked(c)
  <2>1. PICK k : \E found \in SUBSET k :
          FavouritesKnown(c, list.stars \cup found, list.ids \cup found) /\ LandUnseen(c)
    BY <1>4 DEF Checked
  <2>2. PICK found \in SUBSET k :
          FavouritesKnown(c, list.stars \cup found, list.ids \cup found) /\ LandUnseen(c)
    BY <2>1
  <2>3. list.stars \cup found \subseteq list.ids \cup found
    BY <1>1
  <2> QED BY <1>2, <1>4, <2>2, <2>3
<1>5. CASE c.slot = "star" /\ StarGot(c)
  <2>0. PICK told : told = [list EXCEPT !.busy = @ \ {c.key.g},
                                 !.stars = IF c.key.add THEN @ \cup {c.key.g} ELSE @ \ {c.key.g},
                                 !.ids = IF c.key.add THEN @ \cup {c.key.g} ELSE @ \ {c.key.g}]
    OBVIOUS
  <2>1. /\ IsList(told) /\ told.since = list.since /\ told.busy = list.busy \ {c.key.g}
        /\ told.stars = IF c.key.add THEN list.stars \cup {c.key.g} ELSE list.stars \ {c.key.g}
        /\ told.ids = IF c.key.add THEN list.ids \cup {c.key.g} ELSE list.ids \ {c.key.g}
    BY <1>1, <2>0 DEF IsList
  <2>2. PICK l : l = IF Current(c) THEN told ELSE list
    OBVIOUS
  <2>3. list' = l /\ UNCHANGED <<view, provider>> /\ LandUnseen(c)
    BY <1>5, <2>0, <2>2 DEF StarGot
  <2>4. (l = list \/ list.since # 0) /\ (Current(c) => c.key.g \notin l.busy)
    BY <2>1, <2>2 DEF Current
  <2>5. told.stars \subseteq told.ids
    BY <1>1, <2>1
  <2>6. IsList(l) /\ l.stars \subseteq l.ids /\ l.since = list.since /\ l.busy \subseteq list.busy
    BY <1>1, <2>1, <2>2, <2>5
  <2> QED BY <1>5, <2>3, <2>4, <2>6, FavouritesHeld
<1>6. CASE c.slot = "star" /\ StarFailed(c)
  <2>0. PICK told : told = [list EXCEPT !.busy = @ \ {c.key.g}]
    OBVIOUS
  <2>1. /\ IsList(told) /\ told.since = list.since /\ told.busy = list.busy \ {c.key.g}
        /\ told.stars = list.stars /\ told.ids = list.ids
    BY <1>1, <2>0 DEF IsList
  <2>2. PICK l : l = IF Current(c) THEN told ELSE list
    OBVIOUS
  <2>3. list' = l /\ UNCHANGED <<view, provider>> /\ LandUnseen(c)
    BY <1>6, <2>0, <2>2 DEF StarFailed
  <2>4. (l = list \/ list.since # 0) /\ (Current(c) => c.key.g \notin l.busy)
    BY <2>1, <2>2 DEF Current
  <2>5. IsList(l) /\ l.stars \subseteq l.ids /\ l.since = list.since /\ l.busy \subseteq list.busy
    BY <1>1, <2>1, <2>2
  <2> QED BY <1>6, <2>3, <2>4, <2>5, FavouritesHeld
<1> QED BY <1>3, <1>4, <1>5, <1>6

LEMMA ToggleHeld ==
  ASSUME GrenadesHeld, NEW g, ToggleFavourite(g)
  PROVE  GrenadesHeld'
<1>1. PICK d : d = [slot |-> "star",
                    key |-> [g |-> g, add |-> g \notin list.stars, since |-> list.since], n |-> asked + 1]
  OBVIOUS
<1>2. IsCall(d) /\ d.slot = "star" /\ d.n = asked + 1 /\ d.key.g = g /\ d.key.since = list.since
  BY <1>1 DEF IsCall
<1>3. PICK l : l = [list EXCEPT !.busy = @ \cup {g}]
  OBVIOUS
<1>4. /\ IsList(l) /\ l.busy = list.busy \cup {g} /\ l.since = list.since
      /\ l.stars = list.stars /\ l.ids = list.ids
  BY <1>3 DEF GrenadesHeld, IsList
<1>5. /\ asked' = asked + 1 /\ calls' = calls \cup {d} /\ list' = l /\ list.since # 0
      /\ UNCHANGED <<page, view, sent, landed, provider>>
  BY <1>1, <1>3 DEF ToggleFavourite
<1>6. Fetched'
  <2>1. "star" \in DOMAIN view
    BY DEF GrenadesHeld, ProviderSlots
  <2>2. \A c \in calls' : IsCall(c) /\ c.slot \in DOMAIN view /\ c.n \in Nat /\ c.n <= asked'
    BY <1>2, <1>5, <2>1 DEF GrenadesHeld, Fetched
  <2>3. /\ asked' \in Nat /\ \A s \in DOMAIN view : Shape(view[s]) /\ sent[s] <= asked' /\ landed[s] <= asked'
    BY <1>5 DEF GrenadesHeld, Fetched
  <2> QED BY <2>2, <2>3, <1>5 DEF GrenadesHeld, Fetched
<1>7. LoadsFilters'
  BY <1>2, <1>5 DEF GrenadesHeld, LoadsFilters, HasValidFilters, GrenadeParams, Grenades
<1>8. LoadAwaited'
  BY <1>5, EmptyIsList DEF GrenadesHeld, LoadAwaited
<1>9. StarsAwaited'
  <2> SUFFICES ASSUME NEW h \in l.busy
               PROVE  \E e \in calls' : e.slot = "star" /\ e.key.g = h /\ Current(e)'
    BY <1>5 DEF StarsAwaited
  <2>1. CASE h = g
    BY <2>1, <1>2, <1>4, <1>5 DEF Current
  <2>2. CASE h \in list.busy
    BY <2>2, <1>4, <1>5 DEF GrenadesHeld, StarsAwaited, Current
  <2> QED BY <2>1, <2>2, <1>4
<1> QED BY <1>4, <1>5, <1>6, <1>7, <1>8, <1>9 DEF GrenadesHeld, Grenades

LEMMA GrenadesGoOn ==
  ASSUME page \in GrenadePageNames, GrenadesHeld, GrenadesNext
  PROVE  GrenadesHeld' /\ page' = page
<1>0. \A c \in calls : c.slot \in ProviderSlots
  BY DEF GrenadesHeld, Fetched
<1>1. ASSUME NEW map \in AllMaps, SetMap(map)
      PROVE  GrenadesHeld' /\ page' = page
  BY <1>1, FilterHeld DEF SetMap, SetFilter, Provided
<1>2. ASSUME NEW type \in Kinds, SetType(type)
      PROVE  GrenadesHeld' /\ page' = page
  BY <1>2, FilterHeld DEF SetType, SetFilter, Provided
<1>3. ASSUME NEW who, SetWho(who)
      PROVE  GrenadesHeld' /\ page' = page
  BY <1>3, FilterHeld DEF SetWho, SetFilter, Provided
<1>4. ASSUME NEW round, HandleRoundChange(round)
      PROVE  GrenadesHeld' /\ page' = page
  BY <1>4, FilterHeld DEF HandleRoundChange, SetFilter, Provided
<1>5. ASSUME NEW g, RemoveFavourite(g)
      PROVE  GrenadesHeld' /\ page' = page
  BY <1>5, RemoveHeld DEF RemoveFavourite
<1>6. ASSUME NEW g, ToggleFavourite(g)
      PROVE  GrenadesHeld' /\ page' = page
  BY <1>6, ToggleHeld DEF ToggleFavourite
<1>7. ASSUME NEW c \in calls, GrenadesAnswered(c)
      PROVE  GrenadesHeld' /\ page' = page
  <2>1. CASE c.slot = "options"
    <3>1. OptionsGot(c)
      BY <1>7, <2>1 DEF GrenadesAnswered
    <3> QED BY <2>1, <3>1, OptionsHeld DEF OptionsGot, Provided
  <2>2. CASE c.slot = "init"
    <3>1. InitGot(c)
      BY <1>7, <2>2 DEF GrenadesAnswered
    <3>2. GrenadesHeld'
      BY <2>2, <3>1, OptionsHeld
    <3>3. page' = page
      BY <3>1 DEF InitGot, Provided
    <3> QED BY <3>2, <3>3
  <2>3. CASE c.slot = "matches"
    <3>1. MatchesGot(c)
      BY <1>7, <2>3 DEF GrenadesAnswered
    <3> QED BY <2>3, <3>1, OptionsHeld DEF MatchesGot, Provided
  <2>4. CASE c.slot = "rounds"
    <3>1. MatchOptionsGot(c)
      BY <1>7, <2>4 DEF GrenadesAnswered
    <3> QED BY <2>4, <3>1, OptionsHeld DEF MatchOptionsGot, Provided
  <2>5. CASE c.slot = "grenades"
    <3>1. GrenadesGot(c)
      BY <1>7, <2>5 DEF GrenadesAnswered
    <3>2. GrenadesHeld'
      BY <2>5, <3>1, LoadHeld
    <3>3. page' = page
      BY <3>1 DEF GrenadesGot
    <3> QED BY <3>2, <3>3
  <2>6. CASE c.slot = "remove"
    <3>1. Removed(c)
      BY <1>7, <2>6 DEF GrenadesAnswered
    <3> QED BY <2>6, <3>1, OptionsHeld DEF Removed, Provided
  <2>7. CASE c.slot = "favourites"
    <3>1. FavouritesGot(c)
      BY <1>7, <2>7 DEF GrenadesAnswered
    <3> QED BY <2>7, <3>1, StarHeld DEF FavouritesGot, LandUnseen
  <2>8. CASE c.slot = "checks"
    <3>1. Checked(c)
      BY <1>7, <2>8 DEF GrenadesAnswered
    <3> QED BY <2>8, <3>1, StarHeld DEF Checked, LandUnseen
  <2>9. CASE c.slot = "star"
    <3>1. StarGot(c)
      BY <1>7, <2>9 DEF GrenadesAnswered
    <3> QED BY <2>9, <3>1, StarHeld DEF StarGot, LandUnseen
  <2> QED BY <1>0, <2>1, <2>2, <2>3, <2>4, <2>5, <2>6, <2>7, <2>8, <2>9 DEF ProviderSlots
<1>8. ASSUME NEW c \in calls, GrenadesRequestFailed(c)
      PROVE  GrenadesHeld' /\ page' = page
  <2>1. CASE c.slot \in {"options", "init", "rounds"}
    <3>1. OptionsFailed(c)
      BY <1>8, <2>1 DEF GrenadesRequestFailed
    <3> QED BY <2>1, <3>1, FailureHeld DEF OptionsFailed
  <2>2. CASE c.slot = "matches"
    <3>1. MatchesFailed(c)
      BY <1>8, <2>2 DEF GrenadesRequestFailed
    <3> QED BY <2>2, <3>1, FailureHeld DEF MatchesFailed, LandUnseen
  <2>3. CASE c.slot = "grenades"
    <3>1. GrenadesFailed(c)
      BY <1>8, <2>3 DEF GrenadesRequestFailed
    <3> QED BY <2>3, <3>1, LoadHeld DEF GrenadesFailed
  <2>4. CASE c.slot = "remove"
    <3>1. RemoveFailed(c)
      BY <1>8, <2>4 DEF GrenadesRequestFailed
    <3> QED BY <2>4, <3>1, FailureHeld DEF RemoveFailed
  <2>5. CASE c.slot = "favourites"
    <3>1. FavouritesFailed(c)
      BY <1>8, <2>5 DEF GrenadesRequestFailed
    <3> QED BY <2>5, <3>1, FailureHeld DEF FavouritesFailed
  <2>6. CASE c.slot = "checks"
    <3>1. Checked(c)
      BY <1>8, <2>6 DEF GrenadesRequestFailed
    <3> QED BY <2>6, <3>1, StarHeld DEF Checked, LandUnseen
  <2>7. CASE c.slot = "star"
    <3>1. StarFailed(c)
      BY <1>8, <2>7 DEF GrenadesRequestFailed
    <3> QED BY <2>7, <3>1, StarHeld DEF StarFailed, LandUnseen
  <2> QED BY <1>0, <2>1, <2>2, <2>3, <2>4, <2>5, <2>6, <2>7 DEF ProviderSlots
<1> QED BY <1>1, <1>2, <1>3, <1>4, <1>5, <1>6, <1>7, <1>8 DEF GrenadesNext

\* A page of grenades is opened.
LEMMA GrenadesOpened ==
  ASSUME NEW p \in GrenadePageNames, OpenGrenades(p)
  PROVE  GrenadesHeld'
<1> DEFINE first == [s \in ProviderSlots |-> IF s \in {"options", "init"} THEN Blank ELSE Idle]
<1>1. /\ page' = p /\ view' = first /\ asked' = 1
      /\ calls' = {[slot |-> s, key |-> GrenadeKey(s, FirstProvider(p).filters), n |-> 1]
                     : s \in {"options", "init"}}
      /\ sent' = [s \in ProviderSlots |-> IF s \in {"options", "init"} THEN 1 ELSE 0]
      /\ landed' = [s \in ProviderSlots |-> 0]
      /\ provider' = FirstProvider(p) /\ list' = EmptyList
  BY DEF OpenGrenades, Mounted, Requests
<1>2. \A c \in calls' : IsCall(c) /\ c.slot \in {"options", "init"} /\ c.n = 1
  BY <1>1 DEF IsCall
<1>3. \A s \in ProviderSlots : Shape(view'[s])
  BY <1>1 DEF Shape, Blank, Idle
<1>4. Fetched'
  BY <1>1, <1>2, <1>3 DEF Fetched, ProviderSlots
<1>5. view'["grenades"].data = Nothing /\ ~view'["grenades"].loading
  BY <1>1 DEF ProviderSlots, Idle
<1>6. Grenades' = Nothing
  BY <1>5 DEF Grenades
<1>7. IsProvider(provider')
  BY <1>1 DEF FirstProvider, IsProvider
<1>8. LoadsFilters' /\ LoadAwaited' /\ StarsAwaited'
  BY <1>1, <1>2, <1>5, <1>6, EmptyIsList DEF LoadsFilters, LoadAwaited, StarsAwaited
<1>9. IsList(list') /\ IsGrenades(Grenades') /\ list'.stars \subseteq list'.ids
  BY <1>1, <1>6, EmptyIsList DEF IsGrenades
<1>10. DOMAIN view' = ProviderSlots
  BY <1>1
<1> QED BY <1>4, <1>7, <1>8, <1>9, <1>10, Zenon DEF GrenadesHeld

\* An answer changes the numbers of its slot at most, new requests those of theirs.
LEMMA LandFetched ==
  ASSUME Fetched, NEW c \in calls, DOMAIN view' = DOMAIN view,
         \A s \in DOMAIN view : Shape(view'[s]),
         asked' = asked, sent' = sent, calls' \subseteq calls,
         landed' = landed \/ landed' = [landed EXCEPT ![c.slot] = c.n]
  PROVE  Fetched'
BY DEF Fetched

LEMMA AskFetched ==
  ASSUME Fetched, DOMAIN view' = DOMAIN view, \A s \in DOMAIN view : Shape(view'[s]),
         NEW S, asked' = asked + 1, sent' = SentBy(S, asked + 1),
         landed' = landed \/ \E c \in calls : landed' = [landed EXCEPT ![c.slot] = c.n],
         \A d \in calls' : d \in calls \/ (IsCall(d) /\ d.slot \in DOMAIN view /\ d.n = asked + 1)
  PROVE  /\ Fetched'
         /\ \A s \in S \cap DOMAIN view : sent'[s] = asked + 1 /\ landed'[s] # sent'[s]
         /\ \A s \in DOMAIN view \ S : sent'[s] = sent[s]
         /\ \A d \in calls : d.slot \in S => d.n # sent'[d.slot]
<1>1. /\ asked \in Nat /\ sent \in [DOMAIN view -> Nat]
      /\ \A s \in DOMAIN view : sent[s] <= asked
      /\ \A d \in calls : IsCall(d) /\ d.slot \in DOMAIN view /\ d.n \in Nat /\ d.n <= asked
  BY DEF Fetched
<1>2. landed' \in [DOMAIN view -> Nat] /\ \A s \in DOMAIN view : landed'[s] <= asked
  BY DEF Fetched
<1>3. sent' = [s \in DOMAIN view |-> IF s \in S THEN asked + 1 ELSE sent[s]]
  BY <1>1 DEF SentBy
<1>4. \A d \in calls' : IsCall(d) /\ d.slot \in DOMAIN view /\ d.n \in Nat /\ d.n <= asked'
  BY <1>1
<1>5. sent' \in [DOMAIN view -> Nat] /\ \A s \in DOMAIN view : sent'[s] <= asked' /\ landed'[s] <= asked'
  BY <1>1, <1>2, <1>3
<1>6. Fetched'
  BY <1>1, <1>2, <1>4, <1>5 DEF Fetched
<1> QED BY <1>1, <1>2, <1>3, <1>6

\* What a component has set is a state of its own again.
LEMMA ShapeEdited ==
  ASSUME NEW v, Shape(v), NEW r,
         \/ \E d : r = [v EXCEPT !.loading = FALSE, !.data = d]
         \/ r = [v EXCEPT !.loading = FALSE, !.error = TRUE]
         \/ r = [v EXCEPT !.loading = TRUE, !.error = FALSE]
         \/ \E b \in BOOLEAN : r = [v EXCEPT !.loading = b] \/ r = [v EXCEPT !.error = b]
  PROVE  Shape(r)
BY DEF Shape

LEMMA GotIs ==
  ASSUME NEW v, Shape(v), NEW d
  PROVE  /\ Shape(Got(v, d)) /\ Got(v, d).loading = FALSE
         /\ Got(v, d).data = d /\ Got(v, d).error = v.error
<1>1. PICK r : r = Got(v, d)
  OBVIOUS
<1>2. r = [v EXCEPT !.loading = FALSE, !.data = d]
  BY <1>1 DEF Got
<1>3. Shape(r)
  BY <1>2, ShapeEdited
<1>4. r.loading = FALSE /\ r.data = d /\ r.error = v.error
  BY <1>2 DEF Shape
<1> QED BY <1>1, <1>3, <1>4

LEMMA FailedIs ==
  ASSUME NEW v, Shape(v)
  PROVE  /\ Shape(Failed(v)) /\ Failed(v).loading = FALSE
         /\ Failed(v).error = TRUE /\ Failed(v).data = v.data
<1>1. PICK r : r = Failed(v)
  OBVIOUS
<1>2. r = [v EXCEPT !.loading = FALSE, !.error = TRUE]
  BY <1>1 DEF Failed
<1>3. Shape(r)
  BY <1>2, ShapeEdited
<1>4. r.loading = FALSE /\ r.error = TRUE /\ r.data = v.data
  BY <1>2 DEF Shape
<1> QED BY <1>1, <1>3, <1>4

LEMMA StartingIs ==
  ASSUME NEW v, Shape(v)
  PROVE  /\ Shape(Starting(v)) /\ Starting(v).loading = TRUE
         /\ Starting(v).error = FALSE /\ Starting(v).data = v.data
<1>1. PICK r : r = Starting(v)
  OBVIOUS
<1>2. r = [v EXCEPT !.loading = TRUE, !.error = FALSE]
  BY <1>1 DEF Starting
<1>3. Shape(r)
  BY <1>2, ShapeEdited
<1>4. r.loading = TRUE /\ r.error = FALSE /\ r.data = v.data
  BY <1>2 DEF Shape
<1> QED BY <1>1, <1>3, <1>4

LEMMA LoadingSet ==
  ASSUME NEW v, Shape(v), NEW r
  PROVE  /\ r = [v EXCEPT !.loading = TRUE] =>
              Shape(r) /\ r.loading = TRUE /\ r.error = v.error /\ r.data = v.data
         /\ r = [v EXCEPT !.loading = FALSE] =>
              Shape(r) /\ r.loading = FALSE /\ r.error = v.error /\ r.data = v.data
<1>1. CASE r = [v EXCEPT !.loading = TRUE]
  <2>1. Shape(r)
    BY <1>1, ShapeEdited
  <2> QED BY <1>1, <2>1 DEF Shape
<1>2. CASE r = [v EXCEPT !.loading = FALSE]
  <2>1. Shape(r)
    BY <1>2, ShapeEdited
  <2> QED BY <1>2, <2>1 DEF Shape
<1> QED BY <1>1, <1>2

LEMMA ErrorSet ==
  ASSUME NEW v, Shape(v), NEW r
  PROVE  /\ r = [v EXCEPT !.error = TRUE] =>
              Shape(r) /\ r.error = TRUE /\ r.loading = v.loading /\ r.data = v.data
         /\ r = [v EXCEPT !.error = FALSE] =>
              Shape(r) /\ r.error = FALSE /\ r.loading = v.loading /\ r.data = v.data
<1>1. CASE r = [v EXCEPT !.error = TRUE]
  <2>1. Shape(r)
    BY <1>1, ShapeEdited
  <2> QED BY <1>1, <2>1 DEF Shape
<1>2. CASE r = [v EXCEPT !.error = FALSE]
  <2>1. Shape(r)
    BY <1>2, ShapeEdited
  <2> QED BY <1>2, <2>1 DEF Shape
<1> QED BY <1>1, <1>2

-----------------------------------------------------------------------------
(* The statistics pages.                                                   *)

\* Every tab asks for, and shows if the answer came last, what is selected.
TabsFit ==
    /\ \A c \in calls : c.n = sent[c.slot] => c.key = Params(c.slot, filters, weapon)
    /\ \A s \in DOMAIN view :
         landed[s] = sent[s] /\ ~view[s].error /\ view[s].data # Nothing =>
             view[s].data.key = Params(s, filters, weapon)
TabsAwaited == \A s \in DOMAIN view : view[s].loading => \E c \in calls : c.slot = s
DashboardsHeld == Fetched /\ DOMAIN view = TabsOf(page) /\ TabsFit /\ TabsAwaited

LEMMA DashboardsGiven ==
  (page \in DashboardPages => DashboardsHeld) => TabsShowSelection /\ TabSkeletonsEnd
<1> SUFFICES ASSUME page \in DashboardPages, DashboardsHeld
             PROVE  TabsShowSelection /\ TabSkeletonsEnd
  BY DEF TabsShowSelection, TabSkeletonsEnd
<1>1. TabsShowSelection
  BY DEF TabsShowSelection, DashboardsHeld, TabsFit, Settled, TabShown
<1>2. TabSkeletonsEnd
  BY DEF TabSkeletonsEnd, DashboardsHeld, TabsAwaited, Pending
<1> QED BY <1>1, <1>2

LEMMA DashboardOpened ==
  ASSUME NEW p \in DashboardPages, OpenDashboard(p)
  PROVE  DashboardsHeld' /\ page' \in DashboardPages
<1> DEFINE T == TabsOf(p)
<1>1. /\ page' = p /\ asked' = 1
      /\ view' = [s \in T |-> Blank]
      /\ calls' = {[slot |-> s, key |-> Params(s, DashboardFilters, All), n |-> 1] : s \in T}
      /\ sent' = [s \in T |-> 1] /\ landed' = [s \in T |-> 0]
      /\ filters' = DashboardFilters /\ weapon' = All
  BY DEF OpenDashboard, Mounted, Requests, DefaultKey
<1>2. PICK f : f = DashboardFilters
  OBVIOUS
<1>3. PICK w : w = All
  OBVIOUS
<1> HIDE DEF T
<1>4. \A c \in calls' : IsCall(c) /\ c.slot \in T /\ c.n = 1 /\ c.key = Params(c.slot, f, w)
  BY <1>1, <1>2, <1>3 DEF IsCall
<1>5. ASSUME NEW s \in T PROVE \E c \in calls' : c.slot = s
  <2>1. [slot |-> s, key |-> Params(s, DashboardFilters, All), n |-> 1] \in calls'
    BY <1>1
  <2> QED BY <2>1
<1>6. \A s \in T : Shape(view'[s])
  BY <1>1 DEF Shape, Blank
<1>7. Fetched'
  BY <1>1, <1>4, <1>6 DEF Fetched
<1>8. TabsFit'
  BY <1>1, <1>2, <1>3, <1>4 DEF TabsFit
<1>9. TabsAwaited'
  BY <1>1, <1>5 DEF TabsAwaited
<1>10. DOMAIN view' = TabsOf(page')
  BY <1>1 DEF T
<1> QED BY <1>1, <1>7, <1>8, <1>9, <1>10 DEF DashboardsHeld

LEMMA TabsAsk ==
  ASSUME DashboardsHeld, NEW f, NEW w, NEW S \in SUBSET TabsOf(page),
         filters' = f, weapon' = w,
         asked' = asked + 1, sent' = SentBy(S, asked + 1), UNCHANGED <<page, landed>>,
         calls' = calls \cup {[slot |-> s, key |-> Params(s, f, w), n |-> asked + 1] : s \in S},
         DOMAIN view' = TabsOf(page),
         \A s \in S : view'[s] = TabStarts(s),
         \A s \in TabsOf(page) \ S : view'[s] = view[s] /\ Params(s, f, w) = Params(s, filters, weapon)
  PROVE  DashboardsHeld'
<1>0. PICK n : n = asked + 1
  OBVIOUS
<1>1. \A d \in calls' : d \in calls \/ (IsCall(d) /\ d.slot \in S /\ d.n = n /\ d.key = Params(d.slot, f, w))
  BY <1>0 DEF IsCall
<1>2. ASSUME NEW s \in S PROVE \E d \in calls' : d.slot = s
  <2>1. [slot |-> s, key |-> Params(s, f, w), n |-> asked + 1] \in calls'
    OBVIOUS
  <2> QED BY <2>1
<1>3. \A s \in TabsOf(page) : Shape(view[s])
  BY DEF DashboardsHeld, Fetched
<1>4. \A s \in TabsOf(page) : Shape(view'[s])
  BY <1>3, StartingIs DEF TabStarts
<1>5. DOMAIN view = TabsOf(page)
  BY DEF DashboardsHeld
<1>6. /\ Fetched'
      /\ \A s \in S : sent'[s] = asked + 1 /\ landed'[s] # sent'[s]
      /\ \A s \in TabsOf(page) \ S : sent'[s] = sent[s]
      /\ \A d \in calls : d.slot \in S => d.n # sent'[d.slot]
  BY <1>0, <1>1, <1>4, <1>5, AskFetched DEF DashboardsHeld
<1>7. TabsFit'
  <2>1. ASSUME NEW d \in calls', d.n = sent'[d.slot]
        PROVE  d.key = Params(d.slot, f, w)
    <3>1. CASE d \in calls
      <4>1. d.slot \in TabsOf(page) \ S
        BY <2>1, <3>1, <1>6 DEF DashboardsHeld, Fetched
      <4> QED BY <2>1, <3>1, <4>1, <1>6 DEF DashboardsHeld, TabsFit
    <3> QED BY <3>1, <1>1
  <2>2. ASSUME NEW s \in TabsOf(page), landed'[s] = sent'[s], ~view'[s].error, view'[s].data # Nothing
        PROVE  view'[s].data.key = Params(s, f, w)
    <3>1. s \notin S
      BY <2>2, <1>6
    <3> QED BY <2>2, <3>1, <1>5, <1>6 DEF DashboardsHeld, TabsFit
  <2> QED BY <2>1, <2>2 DEF TabsFit
<1>8. TabsAwaited'
  BY <1>2 DEF DashboardsHeld, TabsAwaited
<1> QED BY <1>6, <1>7, <1>8 DEF DashboardsHeld

LEMMA OnlyHitsByWeapon ==
  ASSUME NEW s \in {"aim", "weapons"}, NEW f, NEW w, NEW v
  PROVE  Params(s, f, w) = Params(s, f, v)
BY DEF Params

LEMMA TabLands ==
  ASSUME DashboardsHeld, NEW c \in calls, TabAnswered(c) \/ TabRequestFailed(c)
  PROVE  DashboardsHeld' /\ page' = page
<1>1. DOMAIN view = TabsOf(page) /\ c.slot \in DOMAIN view /\ c.n \in Nat /\ Shape(view[c.slot])
      /\ landed \in [DOMAIN view -> Nat] /\ \A s \in DOMAIN view : Shape(view[s])
  BY DEF DashboardsHeld, Fetched
<1>2. /\ calls' = calls \ {c} /\ UNCHANGED <<page, asked, sent, filters, weapon>>
      /\ landed' = landed \/ landed' = [landed EXCEPT ![c.slot] = c.n]
      /\ \E v : view' = [view EXCEPT ![c.slot] = v]
      /\ Shape(view'[c.slot]) /\ ~view'[c.slot].loading
      /\ \/ /\ landed' = [landed EXCEPT ![c.slot] = c.n]
            /\ \/ view'[c.slot].data # Nothing => view'[c.slot].data.key = c.key
               \/ view'[c.slot].error
         \/ /\ landed' = landed /\ view'[c.slot].data = view[c.slot].data
            /\ view'[c.slot].error = view[c.slot].error
  <2>1. CASE TabAnswered(c)
    <3>1. PICK rows \in Answers(c.slot) :
            view' = [view EXCEPT ![c.slot] = IF c.slot = "hits" THEN HitsGot([key |-> c.key, rows |-> rows])
                                             ELSE TabGot(c.slot, [key |-> c.key, rows |-> rows])]
      BY <2>1 DEF TabAnswered
    <3>2. PICK data : data = [key |-> c.key, rows |-> rows]
      OBVIOUS
    <3>3. data.key = c.key
      BY <3>2
    <3>4. PICK v : v = IF c.slot = "hits" THEN HitsGot(data) ELSE TabGot(c.slot, data)
      OBVIOUS
    <3>5. Shape(v) /\ ~v.loading /\ (v.data # Nothing => v.data = data)
      <4>0. PICK got : got = IF c.slot = "hits" /\ data.rows = {} THEN Nothing ELSE data
        OBVIOUS
      <4>1. v = Got(view[c.slot], got)
        BY <3>4, <4>0 DEF HitsGot, TabGot, Got
      <4> QED BY <4>0, <4>1, <1>1, GotIs
    <3>6. view' = [view EXCEPT ![c.slot] = v] /\ view'[c.slot] = v
      BY <3>1, <3>2, <3>4, <1>1
    <3> QED BY <2>1, <3>3, <3>5, <3>6 DEF TabAnswered, Land
  <2>2. CASE TabRequestFailed(c)
    <3>1. PICK v : v = CASE c.slot = "weapons" -> WeaponsFailed
                         [] c.slot = "hits"    -> HitsFailed
                         [] OTHER              -> TabFailed(c.slot)
      OBVIOUS
    <3>2. view' = [view EXCEPT ![c.slot] = v] /\ view'[c.slot] = v
      BY <2>2, <3>1, <1>1 DEF TabRequestFailed
    <3>3. CASE c.slot = "weapons"
      <4>1. Shape(v) /\ ~v.loading /\ v.data = view[c.slot].data /\ v.error = view[c.slot].error
        <5>1. v = [view[c.slot] EXCEPT !.loading = FALSE]
          BY <3>1, <3>3 DEF WeaponsFailed
        <5> QED BY <5>1, <1>1, LoadingSet
      <4> QED BY <2>2, <3>2, <3>3, <4>1 DEF TabRequestFailed, LandUnseen, dashboardExtras
    <3>4. CASE c.slot = "hits"
      <4>1. Shape(v) /\ ~v.loading /\ v.data = Nothing
        <5>1. v = Got(view[c.slot], Nothing)
          BY <3>1, <3>4 DEF HitsFailed, Got
        <5> QED BY <5>1, <1>1, GotIs
      <4> QED BY <2>2, <3>2, <3>4, <4>1 DEF TabRequestFailed, Land, dashboardExtras
    <3>5. CASE c.slot \notin {"weapons", "hits"}
      <4>1. Shape(v) /\ ~v.loading /\ v.error
        <5>1. v = Failed(view[c.slot])
          BY <3>1, <3>5 DEF TabFailed
        <5> QED BY <5>1, <1>1, FailedIs
      <4> QED BY <2>2, <3>2, <3>5, <4>1 DEF TabRequestFailed, Land, dashboardExtras
    <3> QED BY <3>3, <3>4, <3>5
  <2> QED BY <2>1, <2>2
<1>3. DOMAIN view' = DOMAIN view /\ \A s \in DOMAIN view : s # c.slot => view'[s] = view[s]
  BY <1>2
<1>4. Fetched'
  <2>1. \A s \in DOMAIN view : Shape(view'[s])
    BY <1>1, <1>2, <1>3
  <2> QED BY <2>1, <1>2, <1>3, LandFetched DEF DashboardsHeld
<1>5. TabsFit'
  <2>1. \A d \in calls' : d.n = sent'[d.slot] => d.key = Params(d.slot, filters, weapon)
    BY <1>2 DEF DashboardsHeld, TabsFit
  <2>2. ASSUME NEW s \in DOMAIN view, landed'[s] = sent'[s], ~view'[s].error, view'[s].data # Nothing
        PROVE  view'[s].data.key = Params(s, filters, weapon)
    <3>1. CASE s # c.slot
      <4>1. view'[s] = view[s] /\ landed'[s] = landed[s] /\ sent'[s] = sent[s]
        BY <3>1, <1>1, <1>2, <1>3
      <4> QED BY <2>2, <4>1 DEF DashboardsHeld, TabsFit
    <3>2. CASE s = c.slot
      <4>1. CASE landed' = [landed EXCEPT ![c.slot] = c.n] /\ view'[c.slot].data.key = c.key
        BY <2>2, <3>2, <4>1, <1>1, <1>2 DEF DashboardsHeld, TabsFit
      <4>2. CASE landed' = landed /\ view'[c.slot].data = view[c.slot].data
                 /\ view'[c.slot].error = view[c.slot].error
        BY <2>2, <3>2, <4>2, <1>1, <1>2 DEF DashboardsHeld, TabsFit
      <4> QED BY <2>2, <3>2, <4>1, <4>2, <1>2
    <3> QED BY <3>1, <3>2
  <2> QED BY <2>1, <2>2, <1>2, <1>3 DEF TabsFit
<1>6. TabsAwaited'
  <2>1. ASSUME NEW s \in DOMAIN view, view'[s].loading
        PROVE  \E d \in calls' : d.slot = s
    <3>1. s # c.slot
      BY <2>1, <1>2
    <3> QED BY <2>1, <3>1, <1>2, <1>3 DEF DashboardsHeld, TabsAwaited
  <2> QED BY <2>1, <1>3 DEF TabsAwaited
<1> QED BY <1>1, <1>2, <1>3, <1>4, <1>5, <1>6 DEF DashboardsHeld

LEMMA DashboardsGoOn ==
  ASSUME page \in DashboardPages, DashboardsHeld, DashboardsNext
  PROVE  DashboardsHeld' /\ page' \in DashboardPages
<1>1. ASSUME NEW p \in DashboardPages, OpenDashboard(p)
      PROVE  DashboardsHeld' /\ page' \in DashboardPages
  BY <1>1, DashboardOpened
<1>2. ASSUME NEW f, HandleFilterChange(f)
      PROVE  DashboardsHeld' /\ page' \in DashboardPages
  <2>1. PICK S : S = TabsOf(page)
    OBVIOUS
  <2>2. /\ filters' = f /\ weapon' = weapon
        /\ asked' = asked + 1 /\ sent' = SentBy(S, asked + 1) /\ UNCHANGED <<page, landed>>
        /\ calls' = calls \cup {[slot |-> s, key |-> Params(s, f, weapon), n |-> asked + 1] : s \in S}
        /\ view' = [s \in S |-> TabStarts(s)]
    BY <1>2, <2>1 DEF HandleFilterChange, Ask, Requests
  <2>3. DashboardsHeld'
    BY <2>1, <2>2, TabsAsk
  <2> QED BY <2>2, <2>3
<1>3. ASSUME NEW w, SelectWeapon(w)
      PROVE  DashboardsHeld' /\ page' \in DashboardPages
  <2>1. page = "aim" /\ TabsOf(page) = {"aim", "weapons", "hits"} /\ DOMAIN view = TabsOf(page)
    BY <1>3 DEF SelectWeapon, TabsOf, DashboardsHeld
  <2>2. PICK S : S = {"hits"}
    OBVIOUS
  <2>3. /\ weapon' = w /\ filters' = filters
        /\ asked' = asked + 1 /\ sent' = SentBy(S, asked + 1) /\ UNCHANGED <<page, landed>>
        /\ calls' = calls \cup {[slot |-> s, key |-> Params(s, filters, w), n |-> asked + 1] : s \in S}
        /\ view' = [view EXCEPT !["hits"] = TabStarts("hits")]
    BY <1>3, <2>2 DEF SelectWeapon, Ask, Requests
  <2>4. /\ DOMAIN view' = TabsOf(page) /\ \A s \in S : view'[s] = TabStarts(s)
        /\ \A s \in TabsOf(page) \ S : view'[s] = view[s]
    BY <2>1, <2>2, <2>3
  <2>5. \A s \in TabsOf(page) \ S : Params(s, filters, w) = Params(s, filters, weapon)
    BY <2>1, <2>2, OnlyHitsByWeapon
  <2>6. DashboardsHeld'
    BY <2>1, <2>2, <2>3, <2>4, <2>5, TabsAsk
  <2> QED BY <2>3, <2>6
<1>4. ASSUME NEW m, SelectRankMap(m)
      PROVE  DashboardsHeld' /\ page' \in DashboardPages
  BY <1>4 DEF SelectRankMap, fetchVars, DashboardsHeld, Fetched, TabsFit, TabsAwaited
<1>5. ASSUME NEW c \in calls, TabAnswered(c) \/ TabRequestFailed(c)
      PROVE  DashboardsHeld' /\ page' \in DashboardPages
  BY <1>5, TabLands
<1> QED BY <1>1, <1>2, <1>3, <1>4, <1>5 DEF DashboardsNext

-----------------------------------------------------------------------------
(* The pages of the clans.                                                 *)

Unshown == {"invite", "create", "transfer", "delete"}  \* that never say "loading"
PickedSlots == {"clan_rows", "board"}

PartsAwaited == \A s \in DOMAIN view \ {"filter_members"} :
    view[s].loading => s \notin Unshown /\ \E c \in calls : c.slot = s
\* A button is disabled while its request is under way, that of a transfer until
\* the members are there.
ButtonsAwaited ==
    /\ busy \subseteq {"create", "transfer", "delete"}
    /\ \A b \in busy : \/ \E c \in calls : c.slot = b
                       \/ b = "transfer" /\ \E c \in calls : c.slot = "members"
PickFits == \A s \in PickedSlots \cap DOMAIN view :
    /\ \A c \in calls : c.slot = s /\ c.n = sent[s] => c.key = ClanKey(s, pick)
    /\ landed[s] = sent[s] /\ ~view[s].error => view[s].data.key = ClanKey(s, pick)
ClanHeld == /\ Fetched /\ DOMAIN view = ClanSlots(page)
            /\ PartsAwaited /\ ButtonsAwaited /\ PickFits
ClanInv == IF page \in ClanPageNames THEN ClanHeld ELSE busy = {}

LEMMA ClanGiven == ClanInv => ClanPagesShowSelection /\ ClanSkeletonsEnd
<1> SUFFICES ASSUME ClanInv PROVE ClanPagesShowSelection /\ ClanSkeletonsEnd
  OBVIOUS
<1>1. CASE page \in ClanPageNames
  <2>1. ClanHeld
    BY <1>1 DEF ClanInv
  <2>2. ASSUME page = "clan_matches", Settled("clan_rows"), ClanMatchesShown = "table"
        PROVE  view["clan_rows"].data.key = MatchesParams(pick)
    <3>1. "clan_rows" \in PickedSlots \cap DOMAIN view
      BY <2>1, <2>2 DEF ClanHeld, ClanSlots, PickedSlots
    <3>2. ClanKey("clan_rows", pick) = MatchesParams(pick)
      BY DEF ClanKey
    <3>3. ~view["clan_rows"].error /\ landed["clan_rows"] = sent["clan_rows"]
      BY <2>2 DEF ClanMatchesShown, Settled
    <3> QED BY <2>1, <3>1, <3>2, <3>3 DEF ClanHeld, PickFits
  <2>3. ASSUME page = "leaderboards", Settled("board"), BoardShown = "content"
        PROVE  view["board"].data.key = BoardParams(pick)
    <3>1. "board" \in PickedSlots \cap DOMAIN view
      BY <2>1, <2>3 DEF ClanHeld, ClanSlots, PickedSlots
    <3>2. ClanKey("board", pick) = BoardParams(pick)
      BY DEF ClanKey
    <3>3. ~view["board"].error /\ landed["board"] = sent["board"]
      BY <2>3 DEF BoardShown, Settled
    <3> QED BY <2>1, <3>1, <3>2, <3>3 DEF ClanHeld, PickFits
  <2>4. ClanPagesShowSelection
    BY <2>2, <2>3 DEF ClanPagesShowSelection
  <2>5. ASSUME NEW s \in DOMAIN view \ {"filter_members"}, view[s].loading
        PROVE  Pending(s) # {}
    BY <2>1, <2>5 DEF ClanHeld, PartsAwaited, Pending
  <2>6. page = "clans" /\ ClanListShown = "skeleton" => Pending("clan_list") # {}
    BY <2>1, <2>5 DEF ClanHeld, ClanSlots, ClanListShown
  <2>7. page = "overview" =>
           /\ ClanShown = "skeleton" => Pending("clan") # {}
           /\ ClanShown = "content" /\ WinrateShown = "loading" => Pending("winrate") # {}
           /\ ClanShown = "content" /\ MembersShown = "skeleton" => Pending("members") # {}
    BY <2>1, <2>5 DEF ClanHeld, ClanSlots, ClanShown, WinrateShown, MembersShown
  <2>8. page = "clan_matches" /\ ClanMatchesShown = "skeleton" => calls # {}
    BY <2>1, <2>5 DEF ClanHeld, ClanSlots, ClanMatchesShown, Pending
  <2>9. page = "leaderboards" =>
           /\ BoardShown = "skeleton" => Pending("board") # {}
           /\ TopThreeShown = "skeleton" => Pending("top_three") # {}
    BY <2>1, <2>5 DEF ClanHeld, ClanSlots, BoardShown, TopThreeShown
  <2>10. \A b \in busy : Pending(b) # {} \/ (b = "transfer" /\ Pending("members") # {})
    BY <2>1 DEF ClanHeld, ButtonsAwaited, Pending
  <2> QED BY <2>4, <2>6, <2>7, <2>8, <2>9, <2>10 DEF ClanSkeletonsEnd
<1>2. CASE page \notin ClanPageNames
  BY <1>2 DEF ClanInv, ClanPageNames, ClanPagesShowSelection, ClanSkeletonsEnd
<1> QED BY <1>1, <1>2

\* An answer comes to a part of the page.
LEMMA ClanLands ==
  ASSUME ClanHeld, NEW c \in calls, calls' = calls \ {c},
         UNCHANGED <<page, asked, sent, pick>>,
         landed' = landed \/ landed' = [landed EXCEPT ![c.slot] = c.n],
         NEW v, Shape(v),
         view' = [view EXCEPT ![c.slot] = v] \/ (view' = view /\ v = view[c.slot]),
         c.slot # "filter_members" => ~v.loading,
         c.slot \in PickedSlots => /\ landed' = [landed EXCEPT ![c.slot] = c.n]
                                   /\ ~v.error => v.data.key = c.key,
         busy' \subseteq busy \ {c.slot}, c.slot = "members" => "transfer" \notin busy'
  PROVE  ClanHeld' /\ page' = page
<1>1. /\ c.slot \in DOMAIN view /\ c.n \in Nat /\ landed \in [DOMAIN view -> Nat]
      /\ \A s \in DOMAIN view : Shape(view[s])
  BY DEF ClanHeld, Fetched
<1>2. /\ DOMAIN view' = DOMAIN view /\ view'[c.slot] = v
      /\ \A s \in DOMAIN view \ {c.slot} : view'[s] = view[s] /\ landed'[s] = landed[s]
  BY <1>1
<1>3. Fetched'
  <2>1. \A s \in DOMAIN view : Shape(view'[s])
    BY <1>1, <1>2
  <2> QED BY <1>2, <2>1, LandFetched DEF ClanHeld
<1>4. PartsAwaited'
  BY <1>1, <1>2 DEF ClanHeld, PartsAwaited
<1>5. ButtonsAwaited'
  <2>1. ASSUME NEW b \in busy'
        PROVE  \/ \E d \in calls' : d.slot = b
               \/ b = "transfer" /\ \E d \in calls' : d.slot = "members"
    <3>1. b \in busy /\ b # c.slot
      BY <2>1
    <3>2. CASE \E d \in calls : d.slot = b
      BY <3>1, <3>2
    <3>3. CASE b = "transfer" /\ \E d \in calls : d.slot = "members"
      BY <3>1, <3>3, <2>1
    <3> QED BY <3>1, <3>2, <3>3 DEF ClanHeld, ButtonsAwaited
  <2> QED BY <2>1 DEF ClanHeld, ButtonsAwaited
<1>6. PickFits'
  <2> SUFFICES ASSUME NEW s \in PickedSlots \cap DOMAIN view
               PROVE  /\ \A d \in calls' : d.slot = s /\ d.n = sent[s] => d.key = ClanKey(s, pick)
                      /\ landed'[s] = sent[s] /\ ~view'[s].error => view'[s].data.key = ClanKey(s, pick)
    BY <1>2 DEF PickFits
  <2>1. \A d \in calls : d.slot = s /\ d.n = sent[s] => d.key = ClanKey(s, pick)
    BY DEF ClanHeld, PickFits
  <2>2. landed'[s] = sent[s] /\ ~view'[s].error => view'[s].data.key = ClanKey(s, pick)
    <3>1. CASE s = c.slot
      BY <3>1, <2>1, <1>1, <1>2
    <3>2. CASE s # c.slot
      BY <3>2, <1>2 DEF ClanHeld, PickFits
    <3> QED BY <3>1, <3>2
  <2> QED BY <2>1, <2>2
<1> QED BY <1>2, <1>3, <1>4, <1>5, <1>6 DEF ClanHeld

\* Parts S of the page ask, perhaps after an answer that came.
ClanAsking(old, new, S, q) ==
    /\ old \subseteq calls /\ S \subseteq DOMAIN view
    /\ calls' = old \cup new /\ pick' = q /\ page' = page
    /\ asked' = asked + 1 /\ sent' = SentBy(S, asked + 1)
    /\ landed' = landed \/ \E c \in calls : landed' = [landed EXCEPT ![c.slot] = c.n]
    /\ \A d \in new : /\ IsCall(d) /\ d.slot \in S /\ d.n = asked + 1
                      /\ d.slot \in PickedSlots => d.key = ClanKey(d.slot, q)
    /\ \A s \in S : \E d \in new : d.slot = s
    /\ DOMAIN view' = DOMAIN view /\ \A s \in DOMAIN view : Shape(view'[s])
    /\ \A s \in DOMAIN view : view'[s].loading =>
           s \in S \ Unshown \/ (view[s].loading /\ \A c \in calls \ old : c.slot # s)
    /\ \A s \in (PickedSlots \cap DOMAIN view) \ S :
           /\ view'[s] = view[s] /\ landed'[s] = landed[s]
           /\ ClanKey(s, q) = ClanKey(s, pick)
    /\ busy' \subseteq busy \cup (S \cap {"create", "transfer", "delete"})
    /\ \A c \in calls \ old : /\ c.slot \notin {"create", "delete", "members"}
                              /\ c.slot = "transfer" => "members" \in S
LEMMA ClanAsks ==
  ASSUME ClanHeld, NEW old, NEW new, NEW S, NEW q, ClanAsking(old, new, S, q)
  PROVE  ClanHeld' /\ page' = page
<1> USE DEF ClanAsking
<1>1. /\ Fetched'
      /\ \A s \in S \cap DOMAIN view : sent'[s] = asked + 1 /\ landed'[s] # sent'[s]
      /\ \A s \in DOMAIN view \ S : sent'[s] = sent[s]
      /\ \A d \in calls : d.slot \in S => d.n # sent'[d.slot]
  <2>1. \A d \in calls' : d \in calls \/ (IsCall(d) /\ d.slot \in DOMAIN view /\ d.n = asked + 1)
    OBVIOUS
  <2> QED BY <2>1, AskFetched DEF ClanHeld
<1>2. PartsAwaited'
  <2> SUFFICES ASSUME NEW s \in DOMAIN view \ {"filter_members"}, view'[s].loading
               PROVE  s \notin Unshown /\ \E d \in calls' : d.slot = s
    BY DEF PartsAwaited
  <2>1. CASE s \in S \ Unshown
    BY <2>1
  <2>2. CASE view[s].loading /\ \A c \in calls \ old : c.slot # s
    BY <2>2 DEF ClanHeld, PartsAwaited
  <2> QED BY <2>1, <2>2
<1>3. ButtonsAwaited'
  <2>1. busy' \subseteq {"create", "transfer", "delete"}
    BY DEF ClanHeld, ButtonsAwaited
  <2>2. ASSUME NEW b \in busy'
        PROVE  \/ \E d \in calls' : d.slot = b
               \/ b = "transfer" /\ \E d \in calls' : d.slot = "members"
    <3>1. CASE b \in S
      BY <3>1
    <3>2. CASE \E d \in calls : d.slot = b
      <4>1. PICK d \in calls : d.slot = b
        BY <3>2
      <4> QED BY <2>1, <2>2, <4>1
    <3>3. CASE b = "transfer" /\ \E d \in calls : d.slot = "members"
      BY <3>3
    <3> QED BY <2>2, <3>1, <3>2, <3>3 DEF ClanHeld, ButtonsAwaited
  <2> QED BY <2>1, <2>2 DEF ButtonsAwaited
<1>4. PickFits'
  <2> SUFFICES ASSUME NEW s \in PickedSlots \cap DOMAIN view
               PROVE  /\ \A d \in calls' : d.slot = s /\ d.n = sent'[s] => d.key = ClanKey(s, q)
                      /\ landed'[s] = sent'[s] /\ ~view'[s].error => view'[s].data.key = ClanKey(s, q)
    BY DEF PickFits
  <2>1. CASE s \in S
    BY <2>1, <1>1
  <2>2. CASE s \notin S
    BY <2>2, <1>1 DEF ClanHeld, PickFits
  <2> QED BY <2>1, <2>2
<1> QED BY <1>1, <1>2, <1>3, <1>4 DEF ClanHeld

LEMMA LandedPart ==
  ASSUME NEW u, Shape(u), NEW d, NEW v,
         v = Got(u, d) \/ v = Failed(u) \/ v = Got(Failed(u), Nothing)
  PROVE  Shape(v) /\ ~v.loading /\ (v.error \/ v.data = d)
<1>1. CASE v = Got(u, d)
  BY <1>1, GotIs
<1>2. CASE v = Failed(u)
  BY <1>2, FailedIs
<1>3. CASE v = Got(Failed(u), Nothing)
  <2>1. PICK w : w = Failed(u)
    OBVIOUS
  <2>2. Shape(w) /\ w.error = TRUE
    BY <2>1, FailedIs
  <2> QED BY <1>3, <2>1, <2>2, GotIs
<1> QED BY <1>1, <1>2, <1>3

\* A part of the page shows its answer or its failure.
LEMMA ClanPartLands ==
  ASSUME ClanHeld, NEW c \in calls, Land(c), UNCHANGED clanPageExtras, NEW d,
         c.slot \notin {"create", "transfer", "delete", "members"},
         c.slot \in PickedSlots => d.key = c.key,
         \/ view' = [view EXCEPT ![c.slot] = Got(@, d)]
         \/ view' = [view EXCEPT ![c.slot] = Failed(@)]
         \/ view' = [view EXCEPT ![c.slot] = Got(Failed(@), Nothing)]
  PROVE  ClanHeld' /\ page' = page
<1>1. Shape(view[c.slot]) /\ c.slot \in DOMAIN view
  BY DEF ClanHeld, Fetched
<1>2. PICK v : /\ view' = [view EXCEPT ![c.slot] = v]
               /\ \/ v = Got(view[c.slot], d) \/ v = Failed(view[c.slot])
                  \/ v = Got(Failed(view[c.slot]), Nothing)
  OBVIOUS
<1>3. Shape(v) /\ ~v.loading /\ (v.error \/ v.data = d)
  BY <1>1, <1>2, LandedPart
<1>4. /\ calls' = calls \ {c} /\ landed' = [landed EXCEPT ![c.slot] = c.n]
      /\ UNCHANGED <<page, asked, sent, pick, busy>>
  BY DEF Land, clanPageExtras
<1>5. busy' \subseteq busy \ {c.slot}
  BY <1>4 DEF ClanHeld, ButtonsAwaited
<1> QED BY <1>2, <1>3, <1>4, <1>5, ClanLands

\* A failure that is said in a toast, or nowhere.
LEMMA ClanUnseen ==
  ASSUME ClanHeld, NEW c \in calls, LandUnseen(c), UNCHANGED <<view, pick>>,
         c.slot \notin PickedSlots, c.slot # "filter_members" => ~view[c.slot].loading,
         busy' \subseteq busy \ {c.slot}, c.slot = "members" => "transfer" \notin busy'
  PROVE  ClanHeld' /\ page' = page
<1>1. Shape(view[c.slot]) /\ c.slot \in DOMAIN view /\ Fetched /\ DOMAIN view = ClanSlots(page)
  BY DEF ClanHeld, Fetched
<1>2. PICK v : v = view[c.slot]
  OBVIOUS
<1>3. calls' = calls \ {c} /\ UNCHANGED <<page, asked, sent, landed>>
  BY DEF LandUnseen
<1> QED BY <1>1, <1>2, <1>3, ClanLands

LEMMA ClanSlotsAre ==
  ASSUME page \in ClanPageNames
  PROVE  /\ page = "clans" => ClanSlots(page) = {"clan_list", "create"}
         /\ page = "overview" => ClanSlots(page) =
                {"clan", "winrate", "members", "invite", "transfer", "delete"}
         /\ page = "clan_matches" => ClanSlots(page) = {"filter_members", "clan_rows"}
         /\ page = "leaderboards" => ClanSlots(page) = {"board", "top_three"}
         /\ page \in {"clans", "overview", "clan_matches", "leaderboards"}
BY DEF ClanPageNames, ClanSlots

ClanCalls(S, q, n) == {[slot |-> s, key |-> ClanKey(s, q), n |-> n] : s \in S}
LEMMA ClanCallsAre ==
  ASSUME NEW S, NEW q, NEW n, NEW new, new = ClanCalls(S, q, n)
  PROVE  /\ \A d \in new : IsCall(d) /\ d.slot \in S /\ d.n = n /\ d.key = ClanKey(d.slot, q)
         /\ \A s \in S : \E d \in new : d.slot = s
<1>1. \A d \in new : IsCall(d) /\ d.slot \in S /\ d.n = n /\ d.key = ClanKey(d.slot, q)
  BY DEF IsCall, ClanCalls
<1>2. ASSUME NEW s \in S PROVE \E d \in new : d.slot = s
  <2>1. [slot |-> s, key |-> ClanKey(s, q), n |-> n] \in new
    BY DEF ClanCalls
  <2> QED BY <2>1
<1> QED BY <1>1, <1>2

OneCall(s, k, n) == {[slot |-> t, key |-> k, n |-> n] : t \in {s}}
LEMMA OneCallIs ==
  ASSUME NEW s, NEW k, NEW n, NEW new, new = OneCall(s, k, n)
  PROVE  /\ \A d \in new : IsCall(d) /\ d.slot = s /\ d.n = n /\ d.key = k
         /\ \E d \in new : d.slot = s
<1>1. \A d \in new : IsCall(d) /\ d.slot = s /\ d.n = n /\ d.key = k
  BY DEF IsCall, OneCall
<1>2. [slot |-> s, key |-> k, n |-> n] \in new
  BY DEF OneCall
<1> QED BY <1>1, <1>2

\* The answer that mounts the overview of the clan.
LEMMA ClanMounts ==
  ASSUME page \in ClanPageNames, ClanHeld, NEW c \in calls, c.slot = "clan", ClanGot(c)
  PROVE  ClanHeld' /\ page' = page
<1> DEFINE d == [key |-> c.key, owner |-> owner]
           i == [key |-> c.key, link |-> link]
<1>0. PICK S : S = {"winrate", "members"}
  OBVIOUS
<1>1. /\ c.slot \in DOMAIN view /\ DOMAIN view = ClanSlots(page)
      /\ \A s \in DOMAIN view : Shape(view[s])
  BY DEF ClanHeld, Fetched
<1>2. DOMAIN view = {"clan", "winrate", "members", "invite", "transfer", "delete"}
  BY <1>1, ClanSlotsAre
<1>3. PICK new : new = ClanCalls(S, pick, asked + 1)
  OBVIOUS
<1>4. /\ \A e \in new : IsCall(e) /\ e.slot \in S /\ e.n = asked + 1
      /\ \A s \in S : \E e \in new : e.slot = s
  BY <1>3, ClanCallsAre
<1>5. PICK old : old = calls \ {c}
  OBVIOUS
<1>6. /\ calls' = old \cup new /\ landed' = [landed EXCEPT ![c.slot] = c.n]
      /\ asked' = asked + 1 /\ sent' = SentBy(S, asked + 1) /\ UNCHANGED <<page, pick, busy>>
  BY <1>0, <1>3, <1>5 DEF ClanGot, LandThenAsk, Requests, ClanCalls, clanPageExtras
<1>7. view' = [view EXCEPT !["clan"] = Got(@, d), !["winrate"] = Blank, !["members"] = Blank,
                           !["invite"] = Got(@, i)]
  BY DEF ClanGot
<1> HIDE DEF d, i
<1>8. PICK g : g = Got(view["clan"], d)
  OBVIOUS
<1>9. PICK h : h = Got(view["invite"], i)
  OBVIOUS
<1>10. Shape(g) /\ Shape(h) /\ ~g.loading /\ ~h.loading /\ Shape(Blank)
  BY <1>1, <1>2, <1>8, <1>9, GotIs DEF Blank, Shape
<1>11. view' = [view EXCEPT !["clan"] = g, !["winrate"] = Blank, !["members"] = Blank, !["invite"] = h]
  BY <1>2, <1>7, <1>8, <1>9
<1>12. /\ DOMAIN view' = DOMAIN view /\ view'["clan"] = g /\ view'["invite"] = h
       /\ view'["winrate"] = Blank /\ view'["members"] = Blank
       /\ view'["transfer"] = view["transfer"] /\ view'["delete"] = view["delete"]
  BY <1>2, <1>11
<1>13. ~view["transfer"].loading /\ ~view["delete"].loading
  BY <1>2 DEF ClanHeld, PartsAwaited, Unshown
<1>14. \A s \in DOMAIN view : Shape(view'[s]) /\ (view'[s].loading => s \in S \ Unshown)
  BY <1>0, <1>1, <1>2, <1>10, <1>12, <1>13 DEF Unshown
<1>15. PickedSlots \cap DOMAIN view = {} /\ S \in SUBSET DOMAIN view
  BY <1>0, <1>2 DEF PickedSlots
<1>16. /\ \E e \in calls : landed' = [landed EXCEPT ![e.slot] = e.n]
       /\ old \in SUBSET calls /\ \A e \in calls \ old : e.slot = "clan"
  BY <1>5, <1>6
<1>17. ClanAsking(old, new, S, pick)
  BY <1>4, <1>6, <1>12, <1>14, <1>15, <1>16 DEF ClanAsking
<1> QED BY <1>17, ClanAsks

\* After a transfer, the members are asked for.
LEMMA OwnershipMoves ==
  ASSUME page \in ClanPageNames, ClanHeld, NEW c \in calls, c.slot = "transfer",
         OwnershipTransferred(c)
  PROVE  ClanHeld' /\ page' = page
<1>0. PICK S : S = {"members"}
  OBVIOUS
<1>1. /\ c.slot \in DOMAIN view /\ DOMAIN view = ClanSlots(page)
      /\ \A s \in DOMAIN view : Shape(view[s])
  BY DEF ClanHeld, Fetched
<1>2. DOMAIN view = {"clan", "winrate", "members", "invite", "transfer", "delete"}
  BY <1>1, ClanSlotsAre
<1>3. PICK new : new = ClanCalls(S, pick, asked + 1)
  OBVIOUS
<1>4. /\ \A e \in new : IsCall(e) /\ e.slot \in S /\ e.n = asked + 1
      /\ \A s \in S : \E e \in new : e.slot = s
  BY <1>3, ClanCallsAre
<1>5. PICK old : old = calls \ {c}
  OBVIOUS
<1>6. /\ calls' = old \cup new /\ landed' = [landed EXCEPT ![c.slot] = c.n]
      /\ asked' = asked + 1 /\ sent' = SentBy(S, asked + 1) /\ UNCHANGED <<page, pick, busy, view>>
  BY <1>0, <1>3, <1>5 DEF OwnershipTransferred, LandThenAsk, Requests, ClanCalls
<1>7. ~view["transfer"].loading
  BY <1>2 DEF ClanHeld, PartsAwaited, Unshown
<1>8. PickedSlots \cap DOMAIN view = {} /\ S \subseteq DOMAIN view /\ "members" \in S
  BY <1>0, <1>2 DEF PickedSlots
<1>9. /\ \E e \in calls : landed' = [landed EXCEPT ![e.slot] = e.n]
      /\ old \subseteq calls /\ \A e \in calls \ old : e.slot = "transfer"
  BY <1>5, <1>6
<1>10. ClanAsking(old, new, S, pick)
  BY <1>1, <1>4, <1>6, <1>7, <1>8, <1>9 DEF ClanAsking
<1> QED BY <1>10, ClanAsks

\* The all-time best of the month are asked for after those of the week.
LEMMA TopThreeLands ==
  ASSUME page \in ClanPageNames, ClanHeld, NEW c \in calls, c.slot = "top_three",
         NEW d, TopThreeLanded(c, d)
  PROVE  ClanHeld' /\ page' = page
<1>1. CASE c.key.period = "week"
  <2>0. PICK S : S = {"top_three"}
    OBVIOUS
  <2>1. /\ c.slot \in DOMAIN view /\ DOMAIN view = ClanSlots(page)
        /\ landed \in [DOMAIN view -> Nat] /\ \A s \in DOMAIN view : Shape(view[s])
    BY DEF ClanHeld, Fetched
  <2>2. DOMAIN view = {"board", "top_three"}
    BY <2>1, ClanSlotsAre
  <2>3. PICK k : k = TopThreeParams([board |-> c.key.board], "month")
    OBVIOUS
  <2>4. PICK new : new = OneCall("top_three", k, asked + 1)
    OBVIOUS
  <2>5. /\ \A e \in new : IsCall(e) /\ e.slot = "top_three" /\ e.n = asked + 1
        /\ \E e \in new : e.slot = "top_three"
    BY <2>4, OneCallIs
  <2>6. PICK old : old = calls \ {c}
    OBVIOUS
  <2>7. /\ calls' = old \cup new /\ landed' = [landed EXCEPT ![c.slot] = c.n]
        /\ asked' = asked + 1 /\ sent' = SentBy(S, asked + 1) /\ UNCHANGED <<page, pick, busy, view>>
    BY <1>1, <2>0, <2>3, <2>4, <2>6
       DEF TopThreeLanded, LandThenAsk, Requests, OneCall, clanPageExtras
  <2>8. /\ \A s \in (PickedSlots \cap DOMAIN view) \ S : landed'[s] = landed[s]
        /\ S \subseteq DOMAIN view /\ "top_three" \in S \ Unshown
    BY <2>0, <2>1, <2>2, <2>7 DEF PickedSlots, Unshown
  <2>9. /\ \E e \in calls : landed' = [landed EXCEPT ![e.slot] = e.n]
        /\ old \subseteq calls /\ \A e \in calls \ old : e.slot = "top_three"
    BY <2>6, <2>7
  <2>10. /\ \A e \in new : IsCall(e) /\ e.slot \in S /\ e.n = asked + 1 /\ e.slot \notin PickedSlots
         /\ \A s \in S : \E e \in new : e.slot = s
    BY <2>0, <2>5 DEF PickedSlots
  <2>12. /\ \A s \in DOMAIN view : view'[s].loading =>
               s \in S \ Unshown \/ (view[s].loading /\ \A e \in calls \ old : e.slot # s)
         /\ \A e \in calls \ old : /\ e.slot \notin {"create", "delete", "members"}
                                   /\ e.slot = "transfer" => "members" \in S
         /\ landed' = landed \/ \E e \in calls : landed' = [landed EXCEPT ![e.slot] = e.n]
    BY <2>7, <2>8, <2>9
  <2>13. \A s \in (PickedSlots \cap DOMAIN view) \ S :
            /\ view'[s] = view[s] /\ landed'[s] = landed[s]
            /\ ClanKey(s, pick) = ClanKey(s, pick)
    BY <2>7, <2>8
  <2>14. ClanAsking(old, new, S, pick)
    BY <2>1, <2>7, <2>8, <2>9, <2>10, <2>12, <2>13 DEF ClanAsking
  <2> QED BY <2>14, ClanAsks
<1>2. CASE c.key.period # "week"
  <2>1. Land(c) /\ view' = [view EXCEPT ![c.slot] = Got(@, d)] /\ UNCHANGED clanPageExtras
    BY <1>2 DEF TopThreeLanded
  <2> QED BY <2>1, ClanPartLands DEF PickedSlots
<1> QED BY <1>1, <1>2

LEMMA ClanMembersLand ==
  ASSUME page \in ClanPageNames, ClanHeld, NEW c \in calls, c.slot = "members",
         MembersGot(c) \/ MembersFailed(c)
  PROVE  ClanHeld' /\ page' = page
<1>1. Shape(view[c.slot]) /\ c.slot \in DOMAIN view
  BY DEF ClanHeld, Fetched
<1>2. /\ busy' = busy \ {"transfer"} /\ pick' = pick
      /\ busy' \subseteq busy \ {c.slot} /\ "transfer" \notin busy'
  BY DEF MembersGot, MembersFailed, ClanHeld, ButtonsAwaited
<1>3. CASE LandUnseen(c) /\ UNCHANGED view /\ ~view[c.slot].loading
  BY <1>2, <1>3, ClanUnseen DEF PickedSlots
<1>4. ASSUME NEW d, Land(c),
             view' = [view EXCEPT ![c.slot] = Got(@, d)] \/ view' = [view EXCEPT ![c.slot] = Failed(@)]
      PROVE  ClanHeld' /\ page' = page
  <2>1. PICK v : /\ view' = [view EXCEPT ![c.slot] = v]
                 /\ v = Got(view[c.slot], d) \/ v = Failed(view[c.slot])
    BY <1>4
  <2>2. Shape(v) /\ ~v.loading
    BY <1>1, <2>1, LandedPart
  <2>3. /\ calls' = calls \ {c} /\ landed' = [landed EXCEPT ![c.slot] = c.n]
        /\ UNCHANGED <<page, asked, sent>>
    BY <1>4 DEF Land
  <2> QED BY <1>2, <2>1, <2>2, <2>3, ClanLands DEF PickedSlots
<1>5. CASE MembersGot(c)
  <2>1. Land(c) /\ view' = [view EXCEPT ![c.slot] = Got(@, [key |-> c.key, owner |-> owner])]
    BY <1>5 DEF MembersGot
  <2> QED BY <1>4, <2>1
<1>6. CASE MembersFailed(c)
  <2>1. \/ Land(c) /\ view' = [view EXCEPT ![c.slot] = Failed(@)]
        \/ LandUnseen(c) /\ UNCHANGED view /\ ~view[c.slot].loading
    BY <1>6 DEF MembersFailed
  <2> QED BY <1>3, <1>4, <2>1
<1> QED BY <1>5, <1>6

\* The server makes the link; the request stays the same.
LEMMA LinkMade ==
  ASSUME page \in ClanPageNames, ClanHeld, NEW c \in calls, InviteMade(c)
  PROVE  ClanHeld' /\ page' = page
<1>1. /\ c.slot = "invite" /\ UNCHANGED <<page, view, asked, sent, landed, pick, busy>>
      /\ calls' = (calls \ {c}) \cup {[c EXCEPT !.key.link = link']}
  BY DEF InviteMade
<1>2. Fetched /\ IsCall(c) /\ c.slot \in DOMAIN view /\ c.n \in Nat /\ c.n <= asked
  BY DEF ClanHeld, Fetched
<1>3. PICK d : d = [c EXCEPT !.key.link = link']
  OBVIOUS
<1>4. PICK k : k = [c.key EXCEPT !.link = link']
  OBVIOUS
<1>5. IsCall(d) /\ d.slot = "invite" /\ d.n = c.n
  <2>1. d = [slot |-> c.slot, key |-> k, n |-> c.n]
    BY <1>2, <1>3, <1>4 DEF IsCall
  <2> QED BY <2>1, <1>1 DEF IsCall
<1>6. calls' = (calls \ {c}) \cup {d}
  BY <1>1, <1>3
<1>7. Fetched'
  BY <1>1, <1>2, <1>5, <1>6 DEF Fetched
<1>8. \A s : (\E e \in calls : e.slot = s) => \E e \in calls' : e.slot = s
  BY <1>1, <1>5, <1>6
<1>9. PartsAwaited'
  BY <1>1, <1>8 DEF ClanHeld, PartsAwaited
<1>10. ButtonsAwaited'
  BY <1>1, <1>8 DEF ClanHeld, ButtonsAwaited
<1>11. PickFits'
  BY <1>1, <1>5, <1>6 DEF ClanHeld, PickFits, PickedSlots
<1> QED BY <1>1, <1>7, <1>9, <1>10, <1>11 DEF ClanHeld

LEMMA ClanPageOpened ==
  ASSUME NEW p \in ClanPageNames, OpenClanPage(p)
  PROVE  ClanHeld' /\ page' \in ClanPageNames
<1>1. PICK T : T = ClanSlots(p)
  OBVIOUS
<1>2. PICK A : A = AskingSlots(p)
  OBVIOUS
<1>3. PICK q : q = FirstPick
  OBVIOUS
<1>4. /\ page' = p /\ asked' = 1 /\ pick' = q /\ busy' = {}
      /\ view' = [s \in T |-> IF s \in A THEN Blank ELSE Idle]
      /\ calls' = ClanCalls(A, q, 1)
      /\ sent' = [s \in T |-> IF s \in A THEN 1 ELSE 0] /\ landed' = [s \in T |-> 0]
  BY <1>1, <1>2, <1>3 DEF OpenClanPage, Mounted, Requests, ClanCalls
<1>5. /\ \A d \in calls' : IsCall(d) /\ d.slot \in A /\ d.n = 1 /\ d.key = ClanKey(d.slot, q)
      /\ \A s \in A : \E d \in calls' : d.slot = s
  <2>1. PICK cs : cs = calls'
    OBVIOUS
  <2>2. PICK n : n = 1
    OBVIOUS
  <2>3. cs = ClanCalls(A, q, n)
    BY <1>4, <2>1, <2>2
  <2>4. /\ \A d \in cs : IsCall(d) /\ d.slot \in A /\ d.n = n /\ d.key = ClanKey(d.slot, q)
        /\ \A s \in A : \E d \in cs : d.slot = s
    BY <2>3, ClanCallsAre
  <2> QED BY <2>1, <2>2, <2>4
<1>6. A \subseteq T /\ A \cap Unshown = {} /\ PickedSlots \cap T \subseteq A
  BY <1>1, <1>2 DEF ClanPageNames, ClanSlots, AskingSlots, Unshown, PickedSlots
<1>7. \A s \in T : Shape(view'[s]) /\ (view'[s].loading <=> s \in A)
  BY <1>4 DEF Blank, Idle, Shape
<1>8. Fetched'
  BY <1>4, <1>5, <1>6, <1>7 DEF Fetched
<1>9. PartsAwaited'
  BY <1>4, <1>5, <1>6, <1>7 DEF PartsAwaited
<1>10. ButtonsAwaited'
  BY <1>4 DEF ButtonsAwaited
<1>11. PickFits'
  <2>1. \A s \in PickedSlots \cap T : landed'[s] # sent'[s]
    BY <1>4, <1>6
  <2> QED BY <1>4, <1>5, <2>1 DEF PickFits
<1>12. DOMAIN view' = ClanSlots(page')
  BY <1>1, <1>4
<1> QED BY <1>4, <1>8, <1>9, <1>10, <1>11, <1>12 DEF ClanHeld

\* The user makes a part of the page ask, with the page as it is chosen.
LEMMA ClanAsksOne ==
  ASSUME ClanHeld, NEW s \in DOMAIN view \ PickedSlots, NEW k, AskOne(s, k), pick' = pick,
         busy' \subseteq busy \cup ({s} \cap {"create", "transfer", "delete"}),
         \/ view' = view
         \/ s \notin Unshown /\ view' = [view EXCEPT ![s] = Starting(@)]
  PROVE  ClanHeld' /\ page' = page
<1>0. PICK S : S = {s}
  OBVIOUS
<1>1. Fetched /\ DOMAIN view = ClanSlots(page) /\ \A t \in DOMAIN view : Shape(view[t])
  BY DEF ClanHeld, Fetched
<1>2. PICK new : new = OneCall(s, k, asked + 1)
  OBVIOUS
<1>3. /\ \A d \in new : IsCall(d) /\ d.slot = s /\ d.n = asked + 1
      /\ \E d \in new : d.slot = s
  BY <1>2, OneCallIs
<1>4. /\ calls' = calls \cup new /\ asked' = asked + 1 /\ sent' = SentBy(S, asked + 1)
      /\ UNCHANGED <<page, landed>>
  BY <1>0, <1>2 DEF AskOne, Ask, Requests, OneCall
<1>5. /\ DOMAIN view' = DOMAIN view /\ \A t \in DOMAIN view : Shape(view'[t])
      /\ \A t \in DOMAIN view : t # s => view'[t] = view[t]
      /\ view'[s].loading => view[s].loading \/ s \notin Unshown
  <2>1. CASE view' = view
    BY <1>1, <2>1
  <2>2. CASE s \notin Unshown /\ view' = [view EXCEPT ![s] = Starting(@)]
    <3>1. PICK v : v = Starting(view[s])
      OBVIOUS
    <3>2. Shape(v)
      BY <1>1, <3>1, StartingIs
    <3> QED BY <1>1, <2>2, <3>1, <3>2
  <2> QED BY <2>1, <2>2
<1>6. /\ \A d \in new : IsCall(d) /\ d.slot \in S /\ d.n = asked + 1 /\ d.slot \notin PickedSlots
      /\ \A t \in S : \E d \in new : d.slot = t
  BY <1>0, <1>3
<1>7. \A t \in DOMAIN view : view'[t].loading => t \in S \ Unshown \/ view[t].loading
  BY <1>0, <1>5
<1>8. S \subseteq DOMAIN view /\ busy' \subseteq busy \cup (S \cap {"create", "transfer", "delete"})
  BY <1>0
<1>9. \A t \in (PickedSlots \cap DOMAIN view) \ S :
         /\ view'[t] = view[t] /\ landed'[t] = landed[t]
         /\ ClanKey(t, pick) = ClanKey(t, pick)
  BY <1>4, <1>5
<1>10. ClanAsking(calls, new, S, pick)
  BY <1>4, <1>5, <1>6, <1>7, <1>8, <1>9 DEF ClanAsking
<1> QED BY <1>10, ClanAsks

\* The user chooses, and all parts ask that his choice concerns.
LEMMA ClanChosen ==
  ASSUME ClanHeld, NEW q, NEW S, S \subseteq DOMAIN view, PickedSlots \cap DOMAIN view \subseteq S,
         S \cap Unshown = {}, pick' = q, UNCHANGED <<page, landed, busy>>,
         calls' = calls \cup ClanCalls(S, q, asked + 1),
         asked' = asked + 1, sent' = SentBy(S, asked + 1),
         view' = [s \in DOMAIN view |-> IF s \in S THEN Starting(view[s]) ELSE view[s]]
                 \/ \E s : S = {s} /\ view' = [view EXCEPT ![s] = Starting(@)]
  PROVE  ClanHeld' /\ page' = page
<1>1. Fetched /\ DOMAIN view = ClanSlots(page) /\ \A t \in DOMAIN view : Shape(view[t])
  BY DEF ClanHeld, Fetched
<1>2. PICK new : new = ClanCalls(S, q, asked + 1)
  OBVIOUS
<1>3. /\ \A d \in new : IsCall(d) /\ d.slot \in S /\ d.n = asked + 1 /\ d.key = ClanKey(d.slot, q)
      /\ \A s \in S : \E d \in new : d.slot = s
  BY <1>2, ClanCallsAre
<1>4. /\ DOMAIN view' = DOMAIN view
      /\ \A s \in S : view'[s] = Starting(view[s])
      /\ \A s \in DOMAIN view \ S : view'[s] = view[s]
  OBVIOUS
<1>5. \A s \in DOMAIN view : Shape(view'[s])
  <2>1. ASSUME NEW s \in S PROVE Shape(view'[s])
    <3>1. PICK u : u = view[s]
      OBVIOUS
    <3>2. PICK v : v = Starting(u)
      OBVIOUS
    <3>3. Shape(v)
      BY <1>1, <3>1, <3>2, StartingIs
    <3> QED BY <1>4, <3>1, <3>2, <3>3
  <2> QED BY <1>1, <1>4, <2>1
<1>6. \A s \in DOMAIN view : view'[s].loading => s \in S \ Unshown \/ view[s].loading
  BY <1>4
<1>7. ClanAsking(calls, new, S, q)
  BY <1>2, <1>3, <1>4, <1>5, <1>6 DEF ClanAsking
<1> QED BY <1>7, ClanAsks

LEMMA ChooseHeld ==
  ASSUME ClanHeld, NEW q, Choose(q)
  PROVE  ClanHeld' /\ page' = page
<1>1. DOMAIN view = {"filter_members", "clan_rows"}
  BY ClanSlotsAre DEF ClanHeld, Choose, ClanPageNames
<1>2. PICK S : S = {"clan_rows"}
  OBVIOUS
<1>3. /\ pick' = q /\ UNCHANGED <<page, landed, busy>>
      /\ calls' = calls \cup ClanCalls(S, q, asked + 1)
      /\ asked' = asked + 1 /\ sent' = SentBy(S, asked + 1)
      /\ view' = [view EXCEPT !["clan_rows"] = Starting(@)]
  BY <1>2 DEF Choose, Ask, Requests, ClanCalls
<1>4. S \subseteq DOMAIN view /\ PickedSlots \cap DOMAIN view \subseteq S /\ S \cap Unshown = {}
  BY <1>1, <1>2 DEF PickedSlots, Unshown
<1>5. \E s : S = {s} /\ view' = [view EXCEPT ![s] = Starting(@)]
  BY <1>2, <1>3
<1> QED BY <1>3, <1>4, <1>5, ClanChosen

LEMMA ChooseBoardHeld ==
  ASSUME ClanHeld, NEW q, ChooseBoard(q)
  PROVE  ClanHeld' /\ page' = page
<1>1. DOMAIN view = {"board", "top_three"}
  BY ClanSlotsAre DEF ClanHeld, ChooseBoard, ClanPageNames
<1>2. PICK S : S = {"board"} \cup (IF q.board = pick.board THEN {} ELSE {"top_three"})
  OBVIOUS
<1>3. /\ pick' = q /\ UNCHANGED <<page, landed, busy>>
      /\ calls' = calls \cup ClanCalls(S, q, asked + 1)
      /\ asked' = asked + 1 /\ sent' = SentBy(S, asked + 1)
      /\ view' = [s \in DOMAIN view |-> IF s \in S THEN Starting(view[s]) ELSE view[s]]
  BY <1>2 DEF ChooseBoard, Ask, Requests, ClanCalls
<1>4. S \subseteq DOMAIN view /\ PickedSlots \cap DOMAIN view \subseteq S /\ S \cap Unshown = {}
  BY <1>1, <1>2 DEF PickedSlots, Unshown
<1> QED BY <1>3, <1>4, ClanChosen

\* What only concerns a dialog or the server.
LEMMA ClanStays ==
  ASSUME ClanHeld, UNCHANGED <<fetchVars, pick, busy>>
  PROVE  ClanHeld' /\ page' = page
BY DEF ClanHeld, fetchVars, Fetched, PartsAwaited, ButtonsAwaited, PickFits

LEMMA ClanUserHeld ==
  ASSUME page \in ClanPageNames, ClanHeld
  PROVE  /\ TryAgain => ClanHeld' /\ page' = page
         /\ \A name, tag : SubmitClan(name, tag) => ClanHeld' /\ page' = page
         /\ HandleRegenerate => ClanHeld' /\ page' = page
         /\ HandleTransferOwnership => ClanHeld' /\ page' = page
         /\ HandleDeleteClan => ClanHeld' /\ page' = page
<1>1. DOMAIN view = ClanSlots(page)
  BY DEF ClanHeld
<1>2. ASSUME TryAgain PROVE ClanHeld' /\ page' = page
  <2>1. "clan_list" \in DOMAIN view \ PickedSlots /\ "clan_list" \notin Unshown
    BY <1>1, <1>2, ClanSlotsAre DEF TryAgain, PickedSlots, Unshown
  <2>2. PICK k : k = ClanKey("clan_list", pick)
    OBVIOUS
  <2>3. /\ AskOne("clan_list", k) /\ pick' = pick /\ busy' = busy
        /\ view' = [view EXCEPT !["clan_list"] = Starting(@)]
    BY <1>2, <2>2 DEF TryAgain, clanPageExtras
  <2> QED BY <2>1, <2>3, ClanAsksOne
<1>3. ASSUME NEW name, NEW tag, SubmitClan(name, tag) PROVE ClanHeld' /\ page' = page
  <2>1. "create" \in DOMAIN view \ PickedSlots
    BY <1>1, <1>3, ClanSlotsAre DEF SubmitClan, PickedSlots
  <2>2. PICK k : k = [of |-> "create"]
    OBVIOUS
  <2>3. AskOne("create", k) /\ pick' = pick /\ busy' = busy \cup {"create"} /\ view' = view
    BY <1>3, <2>2 DEF SubmitClan
  <2> QED BY <2>1, <2>3, ClanAsksOne
<1>4. ASSUME HandleRegenerate PROVE ClanHeld' /\ page' = page
  <2>1. "invite" \in DOMAIN view \ PickedSlots
    BY <1>1, <1>4, ClanSlotsAre DEF HandleRegenerate, PickedSlots
  <2>2. PICK k : k = [link |-> Nothing]
    OBVIOUS
  <2>3. AskOne("invite", k) /\ pick' = pick /\ busy' = busy /\ view' = view
    BY <1>4, <2>2 DEF HandleRegenerate, clanPageExtras
  <2> QED BY <2>1, <2>3, ClanAsksOne
<1>5. ASSUME HandleTransferOwnership PROVE ClanHeld' /\ page' = page
  <2>1. "transfer" \in DOMAIN view \ PickedSlots
    BY <1>1, <1>5, ClanSlotsAre DEF HandleTransferOwnership, PickedSlots
  <2>2. PICK k : k = [to |-> dialog.to]
    OBVIOUS
  <2>3. AskOne("transfer", k) /\ pick' = pick /\ busy' = busy \cup {"transfer"} /\ view' = view
    BY <1>5, <2>2 DEF HandleTransferOwnership
  <2> QED BY <2>1, <2>3, ClanAsksOne
<1>6. ASSUME HandleDeleteClan PROVE ClanHeld' /\ page' = page
  <2>1. "delete" \in DOMAIN view \ PickedSlots
    BY <1>1, <1>6, ClanSlotsAre DEF HandleDeleteClan, PickedSlots
  <2>2. PICK k : k = [of |-> "delete"]
    OBVIOUS
  <2>3. AskOne("delete", k) /\ pick' = pick /\ busy' = busy \cup {"delete"} /\ view' = view
    BY <1>6, <2>2 DEF HandleDeleteClan
  <2> QED BY <2>1, <2>3, ClanAsksOne
<1> QED BY <1>2, <1>3, <1>4, <1>5, <1>6

LEMMA ClanAnswersHeld ==
  ASSUME page \in ClanPageNames, ClanHeld, NEW c \in calls, ClanAnswered(c)
  PROVE  ClanHeld' /\ page' \in ClanPageNames
<1>1. c.slot \in {"clan_list", "create", "clan", "winrate", "members", "invite", "transfer",
                  "delete", "filter_members", "clan_rows", "board", "top_three"}
  BY ClanSlotsAre DEF ClanHeld, Fetched
<1>2. CASE c.slot = "clan_list"
  <2>1. PICK d : Land(c) /\ view' = [view EXCEPT ![c.slot] = Got(@, d)] /\ UNCHANGED clanPageExtras
    BY <1>2 DEF ClanAnswered, ClanListGot
  <2> QED BY <1>2, <2>1, ClanPartLands DEF PickedSlots
<1>3. CASE c.slot = "create"
  <2>1. OpenClanPage("overview")
    BY <1>3 DEF ClanAnswered, ClanCreated
  <2> QED BY <2>1, ClanPageOpened DEF ClanPageNames
<1>4. CASE c.slot = "clan"
  <2>1. ClanGot(c)
    BY <1>4 DEF ClanAnswered
  <2> QED BY <1>4, <2>1, ClanMounts
<1>5. CASE c.slot = "winrate"
  <2>1. WinrateGot(c)
    BY <1>5 DEF ClanAnswered
  <2>2. PICK d : Land(c) /\ view' = [view EXCEPT ![c.slot] = Got(@, d)] /\ UNCHANGED clanPageExtras
    BY <1>5, <2>1 DEF WinrateGot
  <2> QED BY <1>5, <2>2, ClanPartLands DEF PickedSlots
<1>6. CASE c.slot = "members"
  <2>1. MembersGot(c)
    BY <1>6 DEF ClanAnswered
  <2> QED BY <1>6, <2>1, ClanMembersLand
<1>7. CASE c.slot = "invite"
  <2>1. CASE InviteMade(c)
    BY <2>1, LinkMade
  <2>2. CASE InviteGot(c)
    <3>1. Shape(view["invite"]) /\ ~view["invite"].loading /\ "invite" \in DOMAIN view
      BY <1>7, ClanSlotsAre DEF ClanHeld, Fetched, PartsAwaited, Unshown
    <3>2. PICK u : u = view["invite"]
      OBVIOUS
    <3>3. PICK d : d = [u.data EXCEPT !.link = c.key.link]
      OBVIOUS
    <3>4. PICK v : v = [u EXCEPT !.data = d]
      OBVIOUS
    <3>5. view' = [view EXCEPT ![c.slot] = v]
      BY <1>7, <2>2, <3>1, <3>2, <3>3, <3>4 DEF InviteGot
    <3>6. Shape(v) /\ ~v.loading
      BY <3>1, <3>2, <3>4 DEF Shape
    <3>7. /\ calls' = calls \ {c} /\ landed' = [landed EXCEPT ![c.slot] = c.n]
          /\ UNCHANGED <<page, asked, sent, pick, busy>>
      BY <2>2 DEF InviteGot, Land, clanPageExtras
    <3>8. busy' \subseteq busy \ {c.slot}
      BY <1>7, <3>7 DEF ClanHeld, ButtonsAwaited
    <3> QED BY <1>7, <3>5, <3>6, <3>7, <3>8, ClanLands DEF PickedSlots
  <2>3. InviteMade(c) \/ InviteGot(c)
    BY <1>7 DEF ClanAnswered
  <2> QED BY <2>1, <2>2, <2>3
<1>8. CASE c.slot = "transfer"
  <2>1. OwnershipTransferred(c)
    BY <1>8 DEF ClanAnswered
  <2> QED BY <1>8, <2>1, OwnershipMoves
<1>9. CASE c.slot = "delete"
  <2>1. OpenClanPage("clans")
    BY <1>9 DEF ClanAnswered, ClanDeleted
  <2> QED BY <2>1, ClanPageOpened DEF ClanPageNames
<1>10. CASE c.slot = "filter_members"
  <2>1. PICK d : Land(c) /\ view' = [view EXCEPT ![c.slot] = Got(@, d)] /\ UNCHANGED clanPageExtras
    BY <1>10 DEF ClanAnswered, FilterMembersGot
  <2> QED BY <1>10, <2>1, ClanPartLands DEF PickedSlots
<1>11. CASE c.slot = "clan_rows"
  <2>1. ClanRowsGot(c)
    BY <1>11 DEF ClanAnswered
  <2>2. PICK rows \in {0, 1} :
          /\ Land(c) /\ UNCHANGED clanPageExtras
          /\ view' = [view EXCEPT !["clan_rows"] =
                        [loading |-> FALSE, error |-> FALSE, data |-> [key |-> c.key, rows |-> rows]]]
    BY <2>1 DEF ClanRowsGot
  <2>3. PICK d : d = [key |-> c.key, rows |-> rows]
    OBVIOUS
  <2>4. PICK v : v = [loading |-> FALSE, error |-> FALSE, data |-> d]
    OBVIOUS
  <2>5. view' = [view EXCEPT ![c.slot] = v]
    BY <1>11, <2>2, <2>3, <2>4
  <2>6. Shape(v) /\ ~v.loading /\ v.data.key = c.key
    BY <2>3, <2>4 DEF Shape
  <2>7. /\ calls' = calls \ {c} /\ landed' = [landed EXCEPT ![c.slot] = c.n]
        /\ UNCHANGED <<page, asked, sent, pick, busy>>
    BY <2>2 DEF Land, clanPageExtras
  <2>8. busy' \subseteq busy \ {c.slot}
    BY <1>11, <2>7 DEF ClanHeld, ButtonsAwaited
  <2> QED BY <1>11, <2>5, <2>6, <2>7, <2>8, ClanLands
<1>12. CASE c.slot = "board"
  <2>1. BoardGot(c)
    BY <1>12 DEF ClanAnswered
  <2>2. PICK d : d = [key |-> c.key]
    OBVIOUS
  <2>3. /\ Land(c) /\ view' = [view EXCEPT ![c.slot] = Got(@, d)] /\ UNCHANGED clanPageExtras
        /\ d.key = c.key
    BY <1>12, <2>1, <2>2 DEF BoardGot
  <2> QED BY <1>12, <2>3, ClanPartLands
<1>13. CASE c.slot = "top_three"
  <2>1. PICK d : TopThreeLanded(c, d)
    BY <1>13 DEF ClanAnswered, TopThreeGot
  <2> QED BY <1>13, <2>1, TopThreeLands
<1> QED BY <1>1, <1>2, <1>3, <1>4, <1>5, <1>6, <1>7, <1>8, <1>9, <1>10, <1>11, <1>12, <1>13

LEMMA ClanFailuresHeld ==
  ASSUME page \in ClanPageNames, ClanHeld, NEW c \in calls, ClanRequestFailed(c)
  PROVE  ClanHeld' /\ page' = page
<1>1. c.slot \in {"clan_list", "create", "clan", "winrate", "members", "invite", "transfer",
                  "delete", "filter_members", "clan_rows", "board", "top_three"}
  BY ClanSlotsAre DEF ClanHeld, Fetched
<1>2. CASE c.slot = "clan_list"
  <2>1. Land(c) /\ view' = [view EXCEPT ![c.slot] = Failed(@)] /\ UNCHANGED clanPageExtras
    BY <1>2 DEF ClanRequestFailed, ClanListFailed
  <2> QED BY <1>2, <2>1, ClanPartLands DEF PickedSlots
<1>3. CASE c.slot \in {"create", "invite", "transfer", "delete"}
  <2>1. /\ LandUnseen(c) /\ UNCHANGED <<view, pick>>
        /\ busy' = busy \ {c.slot} \/ (c.slot = "invite" /\ busy' = busy)
    BY <1>3 DEF ClanRequestFailed, CreateFailed, InviteFailed, TransferFailed, DeleteFailed, clanPageExtras
  <2>2. ~view[c.slot].loading
    BY <1>3 DEF ClanHeld, Fetched, PartsAwaited, Unshown
  <2>3. busy' \subseteq busy \ {c.slot}
    BY <2>1 DEF ClanHeld, ButtonsAwaited
  <2> QED BY <1>3, <2>1, <2>2, <2>3, ClanUnseen DEF PickedSlots
<1>4. CASE c.slot = "clan"
  <2>1. Land(c) /\ view' = [view EXCEPT ![c.slot] = Failed(@)] /\ UNCHANGED clanPageExtras
    BY <1>4 DEF ClanRequestFailed, ClanFailed
  <2> QED BY <1>4, <2>1, ClanPartLands DEF PickedSlots
<1>5. CASE c.slot = "winrate"
  <2>1. PICK d : Land(c) /\ view' = [view EXCEPT ![c.slot] = Got(@, d)] /\ UNCHANGED clanPageExtras
    BY <1>5 DEF ClanRequestFailed, WinrateFailed
  <2> QED BY <1>5, <2>1, ClanPartLands DEF PickedSlots
<1>6. CASE c.slot = "members"
  <2>1. MembersFailed(c)
    BY <1>6 DEF ClanRequestFailed
  <2> QED BY <1>6, <2>1, ClanMembersLand
<1>7. CASE c.slot = "filter_members"
  <2>1. LandUnseen(c) /\ UNCHANGED <<view, pick>> /\ busy' = busy
    BY <1>7 DEF ClanRequestFailed, FilterMembersFailed, clanPageExtras
  <2>2. busy' \subseteq busy \ {c.slot}
    BY <1>7, <2>1 DEF ClanHeld, ButtonsAwaited
  <2> QED BY <1>7, <2>1, <2>2, ClanUnseen DEF PickedSlots
<1>8. CASE c.slot = "clan_rows"
  <2>1. Land(c) /\ view' = [view EXCEPT ![c.slot] = Failed(@)] /\ UNCHANGED clanPageExtras
    BY <1>8 DEF ClanRequestFailed, ClanRowsFailed
  <2>2. PICK d : d = [key |-> c.key]
    OBVIOUS
  <2>3. d.key = c.key
    BY <2>2
  <2> QED BY <1>8, <2>1, <2>3, ClanPartLands
<1>9. CASE c.slot = "board"
  <2>1. Land(c) /\ view' = [view EXCEPT ![c.slot] = Got(Failed(@), Nothing)] /\ UNCHANGED clanPageExtras
    BY <1>9 DEF ClanRequestFailed, BoardFailed
  <2>2. PICK d : d = [key |-> c.key]
    OBVIOUS
  <2>3. d.key = c.key
    BY <2>2
  <2> QED BY <1>9, <2>1, <2>3, ClanPartLands
<1>10. CASE c.slot = "top_three"
  <2>1. PICK d : TopThreeLanded(c, d)
    BY <1>10 DEF ClanRequestFailed, TopThreeFailed
  <2> QED BY <1>10, <2>1, TopThreeLands
<1> QED BY <1>1, <1>2, <1>3, <1>4, <1>5, <1>6, <1>7, <1>8, <1>9, <1>10

LEMMA ClanGoesOn ==
  ASSUME page \in ClanPageNames, ClanHeld, ClanPagesNext
  PROVE  ClanHeld' /\ page' \in ClanPageNames
<1>1. ASSUME NEW q, Choose(q) PROVE ClanHeld' /\ page' \in ClanPageNames
  BY <1>1, ChooseHeld
<1>2. ASSUME NEW q, ChooseBoard(q) PROVE ClanHeld' /\ page' \in ClanPageNames
  BY <1>2, ChooseBoardHeld
<1>3. ASSUME NEW n, HandlePageChange(n) PROVE ClanHeld' /\ page' \in ClanPageNames
  BY <1>1, <1>3 DEF HandlePageChange
<1>4. ASSUME NEW f, HandleFiltersChange(f) PROVE ClanHeld' /\ page' \in ClanPageNames
  BY <1>1, <1>4 DEF HandleFiltersChange
<1>5. ASSUME HandleClearFilters PROVE ClanHeld' /\ page' \in ClanPageNames
  BY <1>1, <1>5 DEF HandleClearFilters
<1>6. ASSUME NEW ms, SelectMembers(ms) PROVE ClanHeld' /\ page' \in ClanPageNames
  BY <1>1, <1>6 DEF SelectMembers
<1>7. ASSUME NEW b, SelectBoard(b) PROVE ClanHeld' /\ page' \in ClanPageNames
  BY <1>2, <1>7 DEF SelectBoard
<1>8. ASSUME NEW p, SelectPeriod(p) PROVE ClanHeld' /\ page' \in ClanPageNames
  BY <1>2, <1>8 DEF SelectPeriod
<1>9. ASSUME HandlePreviousWeek \/ HandleNextWeek \/ HandleResetPeriod
      PROVE  ClanHeld' /\ page' \in ClanPageNames
  BY <1>2, <1>9 DEF HandlePreviousWeek, HandleNextWeek, HandleResetPeriod
<1>10. ASSUME NEW long, HandlePreviousMonth(long) \/ HandleNextMonth(long)
       PROVE  ClanHeld' /\ page' \in ClanPageNames
  BY <1>2, <1>10 DEF HandlePreviousMonth, HandleNextMonth
<1>11. ASSUME HandleClanClick PROVE ClanHeld' /\ page' \in ClanPageNames
  BY <1>11, ClanPageOpened DEF HandleClanClick, ClanPageNames
<1>12. ASSUME \/ \E open \in BOOLEAN : CreateOpenChange(open)
              \/ \E m \in Members : HandleTransferClick(m)
              \/ HandleDeleteClick \/ TypeConfirmation \/ CloseDialog
       PROVE  ClanHeld' /\ page' \in ClanPageNames
  <2>1. UNCHANGED <<fetchVars, pick, busy>>
    BY <1>12 DEF CreateOpenChange, HandleTransferClick, HandleDeleteClick, TypeConfirmation, CloseDialog
  <2> QED BY <2>1, ClanStays
<1>13. ASSUME NEW c \in calls, ClanAnswered(c) PROVE ClanHeld' /\ page' \in ClanPageNames
  BY <1>13, ClanAnswersHeld
<1>14. ASSUME NEW c \in calls, ClanRequestFailed(c) PROVE ClanHeld' /\ page' \in ClanPageNames
  BY <1>14, ClanFailuresHeld
<1> QED BY <1>3, <1>4, <1>5, <1>6, <1>7, <1>8, <1>9, <1>10, <1>11, <1>12, <1>13, <1>14,
           ClanUserHeld DEF ClanPagesNext

-----------------------------------------------------------------------------
(* The tabs of a match.                                                    *)

IsSel(q) == q = [id |-> q.id, first |-> q.first, player |-> q.player, rival |-> q.rival,
                 round |-> q.round, gun |-> q.gun]

\* The match itself and its best players, who are asked for when they are mounted.
MatchPageHeld ==
    /\ \A c \in calls : c.slot = "match" /\ c.n = sent["match"] => c.key = MatchParams(sel)
    /\ landed["match"] = sent["match"] /\ MatchShown = "content" =>
           view["match"].data.key = MatchParams(sel)
    /\ view["match"].loading => \E c \in calls : c.slot = "match"
    /\ TopPlayersMounted =>
         /\ \A c \in calls : c.slot = "top_players" /\ c.n = sent["top_players"] =>
                c.key = view["match"].data.key
         /\ /\ landed["top_players"] = sent["top_players"]
            /\ ~view["top_players"].error /\ view["top_players"].data # Nothing
            => view["top_players"].data.key = view["match"].data.key
         /\ view["top_players"].loading => \E c \in calls : c.slot = "top_players"

\* That key k of slot s of another tab is one of the selection q.
KeyFits(s, k, q) == CASE s = "stats"    -> k.player = q.player
                      [] s = "analysis" -> k.player = q.player /\ k.round = q.round
                      [] OTHER          -> k = MatchKey(s, q)
FixedSlots == {"players", "compared"}  \* that ask only once, for the match of the tab
OtherTabsFit == \A s \in DOMAIN view :
    /\ \A c \in calls : c.slot = s /\ (c.n = sent[s] \/ s \in FixedSlots) => KeyFits(s, c.key, sel)
    /\ (landed[s] = sent[s] /\ ~view[s].error) \/ s \in FixedSlots =>
           (view[s].data # Nothing => KeyFits(s, view[s].data.key, sel))

\* The statistics of nobody, which an answer of the first load leaves, are followed
\* by a request for the player it chose.
StatsFollow ==
    /\ \A c \in calls : /\ c.key = [player |-> c.key.player, initial |-> c.key.initial]
                        /\ c.key.initial \in BOOLEAN
    /\ view["stats"].data # Nothing => LET k == view["stats"].data.key IN
         /\ k = [player |-> k.player, initial |-> k.initial] /\ k.initial \in BOOLEAN
         /\ k.player = "" /\ k.initial /\ roster # {} /\ ~view["stats"].error => calls # {}
OtherTabsAwaited ==
    /\ \A s \in DOMAIN view \cap {"stats", "analysis", "players"} :
           view[s].loading => \E c \in calls : c.slot = s
    /\ page = "player_stats" => StatsFollow
    /\ page = "head_to_head" => (view["compared"].loading => calls # {})
    /\ page = "aim_tracking" /\ view["graph"].data # Nothing =>
           view["graph"].data = [key |-> view["graph"].data.key, numbers |-> view["graph"].data.numbers]
MatchHeld == /\ Fetched /\ DOMAIN view = SlotsOf(page) /\ IsSel(sel) /\ sel.first \in BOOLEAN
             /\ page = "match" => MatchPageHeld
             /\ page # "match" => OtherTabsFit /\ OtherTabsAwaited

LEMMA MatchSlotsAre ==
  ASSUME page \in MatchPages
  PROVE  /\ page = "match" => SlotsOf(page) = {"match", "top_players"}
         /\ page = "player_stats" => SlotsOf(page) = {"stats"}
         /\ page = "match_utility" => SlotsOf(page) = {"analysis"}
         /\ page = "aim_tracking" => SlotsOf(page) = {"players", "aim_stats", "guns", "graph"}
         /\ page = "head_to_head" => SlotsOf(page) = {"compared", "player1", "player2"}
         /\ page \in {"match", "player_stats", "match_utility", "aim_tracking", "head_to_head"}
BY DEF MatchPages, SlotsOf

LEMMA FitsMeans ==
  ASSUME NEW k, NEW q
  PROVE  /\ KeyFits("stats", k, q) <=> k.player = q.player
         /\ KeyFits("analysis", k, q) <=> k.player = q.player /\ k.round = q.round
         /\ KeyFits("players", k, q) <=> k = [id |-> q.id]
         /\ KeyFits("compared", k, q) <=> k = [id |-> q.id]
         /\ KeyFits("aim_stats", k, q) <=> k = [player |-> q.player]
         /\ KeyFits("guns", k, q) <=> k = [player |-> q.player]
         /\ KeyFits("graph", k, q) <=> k = [player |-> q.player, gun |-> q.gun]
         /\ KeyFits("player1", k, q) <=> k = [player |-> q.player]
         /\ KeyFits("player2", k, q) <=> k = [player |-> q.rival]
<1>1. KeyFits("stats", k, q) <=> k.player = q.player
  BY DEF KeyFits
<1>2. KeyFits("analysis", k, q) <=> k.player = q.player /\ k.round = q.round
  BY DEF KeyFits
<1>3. /\ KeyFits("players", k, q) <=> k = [id |-> q.id]
      /\ KeyFits("compared", k, q) <=> k = [id |-> q.id]
  BY DEF KeyFits, MatchKey, MatchParams
<1>4. /\ KeyFits("aim_stats", k, q) <=> k = [player |-> q.player]
      /\ KeyFits("guns", k, q) <=> k = [player |-> q.player]
  BY DEF KeyFits, MatchKey, AimStatsParams
<1>5. KeyFits("graph", k, q) <=> k = [player |-> q.player, gun |-> q.gun]
  BY DEF KeyFits, MatchKey, GraphParams
<1>6. /\ KeyFits("player1", k, q) <=> k = [player |-> q.player]
      /\ KeyFits("player2", k, q) <=> k = [player |-> q.rival]
  BY DEF KeyFits, MatchKey
<1> QED BY <1>1, <1>2, <1>3, <1>4, <1>5, <1>6

LEMMA MatchGiven ==
  (page \in MatchPages => MatchHeld) => MatchTabsShowSelection /\ MatchSkeletonsEnd
<1> SUFFICES ASSUME page \in MatchPages, MatchHeld
             PROVE  MatchTabsShowSelection /\ MatchSkeletonsEnd
  BY DEF MatchTabsShowSelection, MatchSkeletonsEnd, MatchPages
<1>1. ASSUME NEW s \in DOMAIN view, Settled(s), view[s].data # Nothing, ~view[s].error
      PROVE  ShownFor(s)
  <2>0. landed[s] = sent[s] /\ \A c \in calls : c.slot # s
    BY <1>1 DEF Settled, Pending
  <2>1. CASE page = "match"
    <3>1. s \in {"match", "top_players"} /\ MatchPageHeld
      BY <2>1, MatchSlotsAre DEF MatchHeld
    <3>2. CASE s = "match"
      <4>1. ~view["match"].loading
        BY <2>0, <3>1, <3>2 DEF MatchPageHeld
      <4> QED BY <1>1, <2>0, <3>1, <3>2, <4>1 DEF MatchPageHeld, MatchShown, Returned, ShownFor
    <3>3. CASE s = "top_players"
      <4>1. TopPlayersMounted => view["top_players"].data.key = view["match"].data.key
        BY <1>1, <2>0, <3>1, <3>3 DEF MatchPageHeld
      <4> QED BY <3>3, <4>1 DEF ShownFor
    <3> QED BY <3>1, <3>2, <3>3
  <2>2. CASE page # "match"
    <3>1. /\ s \in {"stats", "analysis", "players", "aim_stats", "guns", "graph",
                    "compared", "player1", "player2"}
          /\ KeyFits(s, view[s].data.key, sel)
      BY <1>1, <2>0, <2>2, MatchSlotsAre DEF MatchHeld, OtherTabsFit
    <3>2. CASE s = "stats"
      BY <3>1, <3>2 DEF KeyFits, ShownFor
    <3>3. CASE s = "analysis"
      BY <3>1, <3>3 DEF KeyFits, ShownFor
    <3>4. CASE s \in {"players", "compared"}
      BY <3>1, <3>4, FitsMeans DEF ShownFor, MatchParams
    <3>5. CASE s \in {"aim_stats", "guns", "graph", "player1", "player2"}
      BY <3>1, <3>5 DEF KeyFits, ShownFor
    <3> QED BY <3>1, <3>2, <3>3, <3>4, <3>5
  <2> QED BY <2>1, <2>2
<1>2. MatchTabsShowSelection
  BY <1>1 DEF MatchTabsShowSelection
<1>3. page = "match" /\ "skeleton" \in {MatchShown, TopPlayersShown} => calls # {}
  BY DEF MatchHeld, MatchPageHeld, MatchShown, TopPlayersShown, Returned
<1>4. ASSUME page = "player_stats", StatsShown = "skeleton", calls = {}
      PROVE  view["stats"].data.key = [player |-> "", initial |-> FALSE]
  <2>1. OtherTabsAwaited /\ StatsFollow /\ "stats" \in DOMAIN view
    BY <1>4, MatchSlotsAre DEF MatchHeld, OtherTabsAwaited
  <2>2. ~view["stats"].loading
    BY <1>4, <2>1 DEF OtherTabsAwaited
  <2>3. /\ ~view["stats"].error /\ view["stats"].data # Nothing
        /\ view["stats"].data.key.player = "" /\ roster # {}
    BY <1>4, <2>2 DEF StatsShown, NoPlayers
  <2>4. PICK k : k = view["stats"].data.key
    OBVIOUS
  <2>5. k = [player |-> k.player, initial |-> k.initial] /\ k.initial = FALSE /\ k.player = ""
    BY <1>4, <2>1, <2>3, <2>4 DEF StatsFollow
  <2> QED BY <2>4, <2>5
<1>5. page = "match_utility" /\ AnalysisShown = "skeleton" => calls # {}
  BY MatchSlotsAre DEF MatchHeld, OtherTabsAwaited, AnalysisShown
<1>6. page = "aim_tracking" /\ AimShown = "skeleton" => calls # {}
  BY MatchSlotsAre DEF MatchHeld, OtherTabsAwaited, AimShown
<1>7. page = "head_to_head" /\ ComparedShown = "skeleton" => calls # {}
  BY DEF MatchHeld, OtherTabsAwaited, ComparedShown, Returned
<1> QED BY <1>2, <1>3, <1>4, <1>5, <1>6, <1>7 DEF MatchSkeletonsEnd

\* A step of a tab: of the requests the old ones stay, and slots S ask with the
\* selection q; what the other slots show is kept, an answer or an error.
KeepsData(s) == \/ view'[s].data = Nothing
                \/ view[s].data # Nothing /\ view'[s].data.key = view[s].data.key
OrLands(s) ==
    \/ landed'[s] = landed[s] /\ view'[s].error = view[s].error /\ KeepsData(s)
    \/ \E c \in calls : c.slot = s /\ landed'[s] = c.n /\ view'[s].data.key = c.key
    \/ (view'[s].error \/ s \in FixedSlots) /\ KeepsData(s)
TabSteps(old, new, S, q) ==
    /\ page' = page /\ sel' = q /\ IsSel(q) /\ q.first \in BOOLEAN
    /\ old \subseteq calls /\ calls' = old \cup new /\ S \subseteq DOMAIN view \ FixedSlots
    /\ asked' \in Nat /\ asked <= asked' /\ sent' \in [DOMAIN view -> Nat]
    /\ \A s \in S : asked < sent'[s] /\ sent'[s] <= asked'
    /\ \A s \in DOMAIN view \ S : sent'[s] = sent[s]
    /\ landed' = landed \/ \E c \in calls : landed' = [landed EXCEPT ![c.slot] = c.n]
    /\ \A d \in new : /\ IsCall(d) /\ d.slot \in S /\ d.n \in Nat /\ asked < d.n /\ d.n <= asked'
                      /\ d.n = sent'[d.slot] => KeyFits(d.slot, d.key, q)
    /\ DOMAIN view' = DOMAIN view /\ \A s \in DOMAIN view : Shape(view'[s])
    /\ \A s \in DOMAIN view \ S : OrLands(s) /\ \A k : KeyFits(s, k, sel) => KeyFits(s, k, q)

LEMMA TabStepsHeld ==
  ASSUME MatchHeld, page # "match", NEW old, NEW new, NEW S, NEW q, TabSteps(old, new, S, q),
         OtherTabsAwaited'
  PROVE  MatchHeld' /\ page' = page
<1> USE DEF TabSteps
<1>1. /\ asked \in Nat /\ sent \in [DOMAIN view -> Nat] /\ landed \in [DOMAIN view -> Nat]
      /\ \A s \in DOMAIN view : sent[s] <= asked /\ landed[s] <= asked
      /\ \A c \in calls : IsCall(c) /\ c.slot \in DOMAIN view /\ c.n \in Nat /\ c.n <= asked
  BY DEF MatchHeld, Fetched
<1>2. /\ landed' \in [DOMAIN view -> Nat] /\ \A s \in DOMAIN view : landed'[s] <= asked
  BY <1>1
<1>3. Fetched'
  <2>1. \A s \in DOMAIN view : sent'[s] <= asked' /\ landed'[s] <= asked'
    BY <1>1, <1>2
  <2>2. \A d \in calls' : IsCall(d) /\ d.slot \in DOMAIN view /\ d.n \in Nat /\ d.n <= asked'
    BY <1>1
  <2> QED BY <1>2, <2>1, <2>2 DEF Fetched
<1>4. OtherTabsFit'
  <2>1. ASSUME NEW s \in S
        PROVE  /\ \A d \in calls' : d.slot = s /\ d.n = sent'[s] => KeyFits(s, d.key, q)
               /\ landed'[s] # sent'[s] /\ s \notin FixedSlots
    BY <1>1, <1>2
  <2>2. ASSUME NEW s \in DOMAIN view \ S
        PROVE  /\ \A d \in calls' : d.slot = s /\ (d.n = sent'[s] \/ s \in FixedSlots) => KeyFits(s, d.key, q)
               /\ (landed'[s] = sent'[s] /\ ~view'[s].error) \/ s \in FixedSlots =>
                      (view'[s].data # Nothing => KeyFits(s, view'[s].data.key, q))
    <3>1. /\ \A c \in calls : c.slot = s /\ (c.n = sent[s] \/ s \in FixedSlots) => KeyFits(s, c.key, q)
          /\ (landed[s] = sent[s] /\ ~view[s].error) \/ s \in FixedSlots =>
               (view[s].data # Nothing => KeyFits(s, view[s].data.key, q))
      BY DEF MatchHeld, OtherTabsFit
    <3>2. \A d \in calls' : d.slot = s => d \in calls
      OBVIOUS
    <3>3. ASSUME (landed'[s] = sent'[s] /\ ~view'[s].error) \/ s \in FixedSlots, view'[s].data # Nothing
          PROVE  KeyFits(s, view'[s].data.key, q)
      <4>1. CASE landed'[s] = landed[s] /\ view'[s].error = view[s].error /\ KeepsData(s)
        BY <3>1, <3>3, <4>1 DEF KeepsData
      <4>2. CASE \E c \in calls : c.slot = s /\ landed'[s] = c.n /\ view'[s].data.key = c.key
        BY <3>1, <3>3, <4>2
      <4>3. CASE (view'[s].error \/ s \in FixedSlots) /\ KeepsData(s)
        BY <3>1, <3>3, <4>3 DEF KeepsData
      <4> QED BY <4>1, <4>2, <4>3 DEF OrLands
    <3> QED BY <3>1, <3>2, <3>3
  <2> QED BY <2>1, <2>2 DEF OtherTabsFit
<1> QED BY <1>3, <1>4 DEF MatchHeld

\* One slot asks, or one after the answer c.
LEMMA SentIs ==
  ASSUME Fetched, NEW S, asked' = asked + 1, sent' = SentBy(S, asked + 1)
  PROVE  /\ asked' \in Nat /\ asked <= asked' /\ sent' \in [DOMAIN view -> Nat]
         /\ \A s \in S \cap DOMAIN view : sent'[s] = asked + 1 /\ asked < sent'[s] /\ sent'[s] <= asked'
         /\ \A s \in DOMAIN view \ S : sent'[s] = sent[s]
BY DEF Fetched, SentBy

MatchCalls(S, q, n) == {[slot |-> s, key |-> MatchKey(s, q), n |-> n] : s \in S}
LEMMA MatchCallsAre ==
  ASSUME NEW S, NEW q, NEW n, NEW new, new = MatchCalls(S, q, n)
  PROVE  /\ \A d \in new : IsCall(d) /\ d.slot \in S /\ d.n = n /\ d.key = MatchKey(d.slot, q)
         /\ \A s \in S : \E d \in new : d.slot = s
<1>1. \A d \in new : IsCall(d) /\ d.slot \in S /\ d.n = n /\ d.key = MatchKey(d.slot, q)
  BY DEF IsCall, MatchCalls
<1>2. ASSUME NEW s \in S PROVE \E d \in new : d.slot = s
  <2>1. [slot |-> s, key |-> MatchKey(s, q), n |-> n] \in new
    BY DEF MatchCalls
  <2> QED BY <2>1
<1> QED BY <1>1, <1>2
LEMMA OwnKeyFits ==
  ASSUME NEW s, NEW q
  PROVE  KeyFits(s, MatchKey(s, q), q)
<1>1. CASE s = "stats"
  BY <1>1 DEF KeyFits, MatchKey, PlayerParams
<1>2. CASE s = "analysis"
  BY <1>2 DEF KeyFits, MatchKey, UtilityTabParams
<1>3. CASE s \notin {"stats", "analysis"}
  BY <1>3 DEF KeyFits
<1> QED BY <1>1, <1>2, <1>3

\* The usual step: one round of requests of slots S, for the selection r, or none.
TabAsks(old, S, r, q) ==
    /\ old \subseteq calls /\ S \subseteq DOMAIN view \ FixedSlots
    /\ IsSel(q) /\ q.first \in BOOLEAN /\ page' = page /\ sel' = q
    /\ \/ /\ calls' = old \cup MatchCalls(S, r, asked + 1)
          /\ asked' = asked + 1 /\ sent' = SentBy(S, asked + 1)
       \/ S = {} /\ calls' = old /\ UNCHANGED <<asked, sent>>
    /\ \A s \in S : KeyFits(s, MatchKey(s, r), q)
    /\ landed' = landed \/ \E c \in calls : landed' = [landed EXCEPT ![c.slot] = c.n]
    /\ DOMAIN view' = DOMAIN view /\ \A s \in DOMAIN view : Shape(view'[s])
    /\ \A s \in DOMAIN view \ S : OrLands(s)
    /\ \A s \in DOMAIN view \ S : \A k : KeyFits(s, k, sel) => KeyFits(s, k, q)
LEMMA TabAsksHeld ==
  ASSUME MatchHeld, page # "match", NEW old, NEW S, NEW r, NEW q, TabAsks(old, S, r, q),
         OtherTabsAwaited'
  PROVE  MatchHeld' /\ page' = page
<1> USE DEF TabAsks
<1>0. Fetched /\ asked \in Nat /\ sent \in [DOMAIN view -> Nat]
  BY DEF MatchHeld, Fetched
<1>1. CASE S = {} /\ calls' = old /\ UNCHANGED <<asked, sent>>
  <2>1. PICK new : new = {}
    OBVIOUS
  <2>2. TabSteps(old, new, S, q)
    BY <1>0, <1>1, <2>1 DEF TabSteps
  <2> QED BY <2>2, TabStepsHeld
<1>2. CASE /\ calls' = old \cup MatchCalls(S, r, asked + 1)
           /\ asked' = asked + 1 /\ sent' = SentBy(S, asked + 1)
  <2>1. PICK new : new = MatchCalls(S, r, asked + 1)
    OBVIOUS
  <2>2. \A d \in new : IsCall(d) /\ d.slot \in S /\ d.n = asked + 1 /\ d.key = MatchKey(d.slot, r)
    BY <2>1, MatchCallsAre
  <2>3. \A d \in new : KeyFits(d.slot, d.key, q) /\ d.n \in Nat /\ asked < d.n /\ d.n <= asked'
    BY <1>0, <1>2, <2>2
  <2>4. /\ asked' \in Nat /\ asked <= asked' /\ sent' \in [DOMAIN view -> Nat]
        /\ \A s \in S : asked < sent'[s] /\ sent'[s] <= asked'
        /\ \A s \in DOMAIN view \ S : sent'[s] = sent[s]
    BY <1>0, <1>2, SentIs
  <2>5. TabSteps(old, new, S, q)
    BY <1>2, <2>1, <2>2, <2>3, <2>4 DEF TabSteps
  <2> QED BY <2>5, TabStepsHeld
<1> QED BY <1>1, <1>2

\* Selections of another player, round, weapon or match.
LEMMA PlayerSelected ==
  ASSUME NEW q, IsSel(q), NEW r, NEW x, r = [q EXCEPT !.player = x]
  PROVE  /\ IsSel(r) /\ r.first = q.first /\ r.player = x /\ r.id = q.id
         /\ r.rival = q.rival /\ r.round = q.round /\ r.gun = q.gun
BY DEF IsSel
LEMMA PlayerGiven ==
  ASSUME NEW q, IsSel(q), NEW r, NEW x, r = [q EXCEPT !.player = x, !.first = FALSE]
  PROVE  /\ IsSel(r) /\ r.first = FALSE /\ r.player = x /\ r.id = q.id
         /\ r.rival = q.rival /\ r.round = q.round /\ r.gun = q.gun
BY DEF IsSel
LEMMA FirstOver ==
  ASSUME NEW q, IsSel(q), NEW r, r = [q EXCEPT !.first = FALSE]
  PROVE  /\ IsSel(r) /\ r.first = FALSE /\ r.player = q.player /\ r.id = q.id
         /\ r.rival = q.rival /\ r.round = q.round /\ r.gun = q.gun
BY DEF IsSel
LEMMA RoundSelected ==
  ASSUME NEW q, IsSel(q), NEW r, NEW x, NEW y, r = [q EXCEPT !.player = x, !.round = y]
  PROVE  /\ IsSel(r) /\ r.first = q.first /\ r.player = x /\ r.id = q.id
         /\ r.rival = q.rival /\ r.round = y /\ r.gun = q.gun
BY DEF IsSel
LEMMA GunSelected ==
  ASSUME NEW q, IsSel(q), NEW r, NEW x, r = [q EXCEPT !.gun = x]
  PROVE  /\ IsSel(r) /\ r.first = q.first /\ r.player = q.player /\ r.id = q.id
         /\ r.rival = q.rival /\ r.round = q.round /\ r.gun = x
BY DEF IsSel
LEMMA RivalSelected ==
  ASSUME NEW q, IsSel(q), NEW r, NEW x, r = [q EXCEPT !.rival = x]
  PROVE  /\ IsSel(r) /\ r.first = q.first /\ r.player = q.player /\ r.id = q.id
         /\ r.rival = x /\ r.round = q.round /\ r.gun = q.gun
BY DEF IsSel
LEMMA MatchSelected ==
  ASSUME NEW q, IsSel(q), NEW r, NEW x, r = [q EXCEPT !.id = x]
  PROVE  /\ IsSel(r) /\ r.first = q.first /\ r.player = q.player /\ r.id = x
         /\ r.rival = q.rival /\ r.round = q.round /\ r.gun = q.gun
BY DEF IsSel

\* The statistics and the analysis, which are alone on their tab.
LEMMA AloneOnTab ==
  ASSUME page \in MatchPages, MatchHeld, NEW s \in {"stats", "analysis"}, s \in DOMAIN view
  PROVE  /\ page # "match" /\ DOMAIN view = {s} /\ s \notin FixedSlots
         /\ page = (IF s = "stats" THEN "player_stats" ELSE "match_utility")
         /\ \A c \in calls : c.slot = s
         /\ Shape(view[s]) /\ Fetched
<1>1. DOMAIN view = SlotsOf(page) /\ Fetched
  BY DEF MatchHeld
<1>2. /\ page # "match" /\ DOMAIN view = {s}
      /\ page = (IF s = "stats" THEN "player_stats" ELSE "match_utility")
  BY <1>1, MatchSlotsAre
<1> QED BY <1>1, <1>2 DEF Fetched, FixedSlots

\* The keys of their requests, and of what the statistics show.
IsStatsKey(k) == k = [player |-> k.player, initial |-> k.initial] /\ k.initial \in BOOLEAN
LEMMA AloneAwaited ==
  ASSUME page \in MatchPages, MatchHeld, NEW s \in {"stats", "analysis"}, s \in DOMAIN view,
         page' = page, roster' = roster, DOMAIN view' = DOMAIN view,
         view'[s].loading => \E c \in calls' : c.slot = s,
         s = "stats" =>
           /\ \A c \in calls' : IsStatsKey(c.key)
           /\ view'[s].data # Nothing =>
                /\ IsStatsKey(view'[s].data.key)
                /\ calls' # {} \/ view'[s].error \/ roster = {}
                   \/ ~(view'[s].data.key.player = "" /\ view'[s].data.key.initial)
  PROVE  OtherTabsAwaited'
<1>1. DOMAIN view = {s} /\ page = (IF s = "stats" THEN "player_stats" ELSE "match_utility")
  BY AloneOnTab
<1>2. CASE s = "stats"
  <2>1. StatsFollow'
    BY <1>2 DEF StatsFollow, IsStatsKey
  <2> QED BY <1>1, <1>2, <2>1 DEF OtherTabsAwaited
<1>3. CASE s = "analysis"
  BY <1>1, <1>3 DEF OtherTabsAwaited
<1> QED BY <1>2, <1>3

LEMMA StatsKeysHeld ==
  ASSUME MatchHeld, page = "player_stats"
  PROVE  /\ \A c \in calls : IsStatsKey(c.key)
         /\ view["stats"].data # Nothing =>
              /\ IsStatsKey(view["stats"].data.key)
              /\ calls # {} \/ view["stats"].error \/ roster = {}
                 \/ ~(view["stats"].data.key.player = "" /\ view["stats"].data.key.initial)
<1>1. StatsFollow
  BY DEF MatchHeld, OtherTabsAwaited
<1> QED BY <1>1 DEF StatsFollow, IsStatsKey

\* The user makes one of them ask, for the selection r.
LEMMA TabFetchHeld ==
  ASSUME page \in MatchPages, MatchHeld, NEW s \in {"stats", "analysis"}, s \in DOMAIN view,
         NEW r, NEW q, TabFetch(s, r), sel' = q, roster' = roster,
         IsSel(q), q.first \in BOOLEAN, r.first \in BOOLEAN, r.player = q.player, r.round = q.round
  PROVE  MatchHeld' /\ page' = page
<1>1. /\ page # "match" /\ DOMAIN view = {s} /\ s \notin FixedSlots
      /\ page = (IF s = "stats" THEN "player_stats" ELSE "match_utility")
      /\ Shape(view[s]) /\ Fetched
  BY AloneOnTab
<1>2. PICK S : S = {s}
  OBVIOUS
<1>3. PICK new : new = MatchCalls(S, r, asked + 1)
  OBVIOUS
<1>4. /\ calls' = calls \cup new /\ asked' = asked + 1 /\ sent' = SentBy(S, asked + 1)
      /\ view' = [view EXCEPT ![s] = Starting(@)] /\ UNCHANGED <<page, landed>>
  BY <1>2, <1>3 DEF TabFetch, Ask, Requests, MatchCalls
<1>5. /\ \A d \in new : d.slot \in S /\ d.key = MatchKey(d.slot, r)
      /\ \E d \in new : d.slot = s
  BY <1>2, <1>3, MatchCallsAre
<1>6. PICK v : v = Starting(view[s])
  OBVIOUS
<1>7. Shape(v) /\ v.error = FALSE /\ v.data = view[s].data
  BY <1>1, <1>6, StartingIs
<1>8. view'[s] = v /\ DOMAIN view' = DOMAIN view
  BY <1>1, <1>4, <1>6
<1>9. KeyFits(s, MatchKey(s, r), q)
  <2>1. CASE s = "stats"
    BY <2>1 DEF KeyFits, MatchKey, PlayerParams
  <2>2. CASE s = "analysis"
    BY <2>2 DEF KeyFits, MatchKey, UtilityTabParams
  <2> QED BY <2>1, <2>2
<1>10. TabAsks(calls, S, r, q)
  BY <1>1, <1>2, <1>3, <1>4, <1>7, <1>8, <1>9 DEF TabAsks
<1>11. OtherTabsAwaited'
  <2>1. \E d \in calls' : d.slot = s
    BY <1>4, <1>5
  <2>2. ASSUME s = "stats"
        PROVE  /\ \A c \in calls' : IsStatsKey(c.key)
               /\ view'[s].data # Nothing => IsStatsKey(view'[s].data.key)
    <3>1. IsStatsKey(MatchKey("stats", r))
      BY DEF IsStatsKey, MatchKey, PlayerParams
    <3>2. \A c \in new : IsStatsKey(c.key)
      BY <1>2, <1>5, <2>2, <3>1
    <3> QED BY <1>1, <1>4, <1>7, <1>8, <2>2, <3>2, StatsKeysHeld
  <2>3. calls' # {}
    BY <2>1
  <2> QED BY <1>4, <1>8, <2>1, <2>2, <2>3, AloneAwaited
<1> QED BY <1>1, <1>10, <1>11, TabAsksHeld

\* An answer of one of them; the first is followed by a request.
LEMMA TabFetchedHeld ==
  ASSUME page \in MatchPages, MatchHeld, NEW s \in {"stats", "analysis"}, s \in DOMAIN view,
         NEW c \in calls, TabFetched(s, c), roster' = roster
  PROVE  MatchHeld' /\ page' = page
<1>1. /\ page # "match" /\ DOMAIN view = {s} /\ s \notin FixedSlots /\ c.slot = s
      /\ page = (IF s = "stats" THEN "player_stats" ELSE "match_utility")
      /\ Shape(view[s]) /\ Fetched /\ landed \in [DOMAIN view -> Nat]
      /\ IsSel(sel) /\ sel.first \in BOOLEAN
  BY AloneOnTab DEF MatchHeld, Fetched
<1>2. PICK d : d = [key |-> c.key]
  OBVIOUS
<1>3. d.key = c.key
  BY <1>2
<1>4. PICK u : u = view[s]
  OBVIOUS
<1>5. PICK g : g = Got(u, d)
  OBVIOUS
<1>6. Shape(g) /\ g.loading = FALSE /\ g.data = d /\ g.error = u.error
  BY <1>1, <1>4, <1>5, GotIs
<1>7. CASE c.key.initial /\ c.key.player = "" /\ roster # {}
  <2>1. PICK player \in DefaultPlayers :
          LET q == [sel EXCEPT !.player = player, !.first = FALSE]
              key(t) == MatchKey(t, q)
          IN /\ sel' = q
             /\ LandThenAsk(c, {s}, key)
             /\ view' = [view EXCEPT ![s] = Starting(Got(@, [key |-> c.key]))]
    BY <1>7 DEF TabFetched
  <2>2. PICK q : q = [sel EXCEPT !.player = player, !.first = FALSE]
    OBVIOUS
  <2>3. IsSel(q) /\ q.first = FALSE
    BY <1>1, <2>2, PlayerGiven
  <2>4. PICK S : S = {s}
    OBVIOUS
  <2>5. PICK new : new = MatchCalls(S, q, asked + 1)
    OBVIOUS
  <2>6. PICK old : old = calls \ {c}
    OBVIOUS
  <2>7. /\ calls' = old \cup new /\ asked' = asked + 1 /\ sent' = SentBy(S, asked + 1)
        /\ landed' = [landed EXCEPT ![c.slot] = c.n] /\ page' = page /\ sel' = q
    BY <2>1, <2>2, <2>4, <2>5, <2>6 DEF LandThenAsk, Requests, MatchCalls
  <2>8. PICK v : v = Starting(g)
    OBVIOUS
  <2>9. Shape(v) /\ v.error = FALSE /\ v.data = d
    BY <1>6, <2>8, StartingIs
  <2>10. view'[s] = v /\ DOMAIN view' = DOMAIN view
    BY <1>1, <1>2, <1>4, <1>5, <2>1, <2>8
  <2>11. /\ \A e \in new : e.slot \in S /\ e.key = MatchKey(e.slot, q)
         /\ \E e \in new : e.slot = s
    BY <2>4, <2>5, MatchCallsAre
  <2>12. TabAsks(old, S, q, q)
    BY <1>1, <2>3, <2>4, <2>5, <2>6, <2>7, <2>9, <2>10, OwnKeyFits DEF TabAsks
  <2>13. OtherTabsAwaited'
    <3>1. \E e \in calls' : e.slot = s
      BY <2>7, <2>11
    <3>2. ASSUME s = "stats"
          PROVE  (\A e \in calls' : IsStatsKey(e.key)) /\ IsStatsKey(view'[s].data.key)
      <4>1. IsStatsKey(MatchKey("stats", q))
        BY <2>3 DEF IsStatsKey, MatchKey, PlayerParams
      <4>2. \A e \in new : IsStatsKey(e.key)
        BY <2>4, <2>11, <3>2, <4>1
      <4>3. \A e \in calls : IsStatsKey(e.key)
        BY <1>1, <3>2, StatsKeysHeld
      <4> QED BY <1>3, <2>6, <2>7, <2>9, <2>10, <4>2, <4>3
    <3>3. calls' # {}
      BY <3>1
    <3> QED BY <2>7, <2>10, <3>1, <3>2, <3>3, AloneAwaited
  <2> QED BY <1>1, <2>12, <2>13, TabAsksHeld
<1>8. CASE ~(c.key.initial /\ c.key.player = "" /\ roster # {})
  <2>1. Land(c) /\ view' = [view EXCEPT ![s] = Got(@, [key |-> c.key])] /\ UNCHANGED sel
    BY <1>8 DEF TabFetched
  <2>2. PICK old : old = calls \ {c}
    OBVIOUS
  <2>3. /\ calls' = old /\ UNCHANGED <<page, asked, sent, sel>>
        /\ landed' = [landed EXCEPT ![c.slot] = c.n]
    BY <2>1, <2>2 DEF Land
  <2>4. view'[s] = g /\ DOMAIN view' = DOMAIN view
    BY <1>1, <1>2, <1>4, <1>5, <2>1
  <2>5. PICK S : S = {}
    OBVIOUS
  <2>6. OrLands(s)
    BY <1>1, <1>3, <1>6, <2>3, <2>4 DEF OrLands
  <2>7. PICK q : q = sel
    OBVIOUS
  <2>8. TabAsks(old, S, q, q)
    BY <1>1, <1>6, <2>2, <2>3, <2>4, <2>5, <2>6, <2>7 DEF TabAsks
  <2>9. OtherTabsAwaited'
    <3>1. ~view'[s].loading
      BY <1>6, <2>4
    <3>2. ASSUME s = "stats"
          PROVE  /\ \A e \in calls' : IsStatsKey(e.key)
                 /\ IsStatsKey(view'[s].data.key)
                 /\ roster = {} \/ ~(view'[s].data.key.player = "" /\ view'[s].data.key.initial)
      <4>1. \A e \in calls : IsStatsKey(e.key)
        BY <1>1, <3>2, StatsKeysHeld
      <4> QED BY <1>3, <1>6, <1>8, <2>2, <2>3, <2>4, <4>1
    <3> QED BY <2>3, <2>4, <3>1, <3>2, AloneAwaited
  <2> QED BY <1>1, <2>8, <2>9, TabAsksHeld
<1> QED BY <1>7, <1>8

LEMMA TabFailureHeld ==
  ASSUME page \in MatchPages, MatchHeld, NEW s \in {"stats", "analysis"}, s \in DOMAIN view,
         NEW c \in calls, Land(c), view' = [view EXCEPT ![s] = Failed(@)], UNCHANGED matchExtras
  PROVE  MatchHeld' /\ page' = page
<1>1. /\ page # "match" /\ DOMAIN view = {s} /\ s \notin FixedSlots /\ c.slot = s
      /\ page = (IF s = "stats" THEN "player_stats" ELSE "match_utility")
      /\ Shape(view[s]) /\ Fetched /\ IsSel(sel) /\ sel.first \in BOOLEAN
  BY AloneOnTab DEF MatchHeld
<1>2. PICK v : v = Failed(view[s])
  OBVIOUS
<1>3. Shape(v) /\ v.loading = FALSE /\ v.error = TRUE /\ v.data = view[s].data
  BY <1>1, <1>2, FailedIs
<1>4. view'[s] = v /\ DOMAIN view' = DOMAIN view
  BY <1>1, <1>2
<1>5. PICK old : old = calls \ {c}
  OBVIOUS
<1>6. /\ calls' = old /\ UNCHANGED <<page, asked, sent, sel, roster>>
      /\ landed' = [landed EXCEPT ![c.slot] = c.n]
  BY <1>5 DEF Land, matchExtras
<1>7. PICK S : S = {}
  OBVIOUS
<1>8. PICK q : q = sel
  OBVIOUS
<1>9. OrLands(s)
  BY <1>3, <1>4 DEF OrLands, KeepsData
<1>10. TabAsks(old, S, q, q)
  BY <1>1, <1>3, <1>4, <1>5, <1>6, <1>7, <1>8, <1>9 DEF TabAsks
<1>11. OtherTabsAwaited'
  <2>1. ASSUME s = "stats"
        PROVE  /\ \A e \in calls' : IsStatsKey(e.key)
               /\ view'[s].data # Nothing => IsStatsKey(view'[s].data.key)
    BY <1>1, <1>3, <1>4, <1>5, <1>6, <2>1, StatsKeysHeld
  <2> QED BY <1>3, <1>4, <1>6, <2>1, AloneAwaited
<1> QED BY <1>1, <1>10, <1>11, TabAsksHeld

\* The aim tracking.
IsGraph(data) == data # Nothing => data = [key |-> data.key, numbers |-> data.numbers]
LEMMA AimPage ==
  ASSUME page = "aim_tracking", MatchHeld
  PROVE  /\ page # "match" /\ DOMAIN view = {"players", "aim_stats", "guns", "graph"}
         /\ Fetched /\ landed \in [DOMAIN view -> Nat] /\ IsSel(sel) /\ sel.first \in BOOLEAN
         /\ \A s \in DOMAIN view : Shape(view[s])
         /\ view["players"].loading => \E c \in calls : c.slot = "players"
         /\ IsGraph(view["graph"].data)
<1>1. DOMAIN view = {"players", "aim_stats", "guns", "graph"}
  BY MatchSlotsAre DEF MatchHeld, MatchPages
<1>2. /\ Fetched /\ landed \in [DOMAIN view -> Nat] /\ IsSel(sel) /\ sel.first \in BOOLEAN
      /\ \A s \in DOMAIN view : Shape(view[s])
  BY DEF MatchHeld, Fetched
<1>3. /\ view["players"].loading => \E c \in calls : c.slot = "players"
      /\ IsGraph(view["graph"].data)
  BY <1>1 DEF MatchHeld, OtherTabsAwaited, IsGraph
<1> QED BY <1>1, <1>2, <1>3

LEMMA AimAwaited ==
  ASSUME page = "aim_tracking", MatchHeld, page' = page, DOMAIN view' = DOMAIN view,
         view'["players"].loading => \E c \in calls' : c.slot = "players",
         IsGraph(view'["graph"].data)
  PROVE  OtherTabsAwaited'
<1>1. DOMAIN view = {"players", "aim_stats", "guns", "graph"}
  BY AimPage
<1> QED BY <1>1 DEF OtherTabsAwaited, IsGraph

LEMMA AimPartLands ==
  ASSUME page = "aim_tracking", MatchHeld, NEW c \in calls, c.slot \in {"aim_stats", "guns", "graph"},
         calls' = calls \ {c}, UNCHANGED <<page, asked, sent, sel>>,
         NEW v, Shape(v), view' = [view EXCEPT ![c.slot] = v],
         \/ landed' = [landed EXCEPT ![c.slot] = c.n] /\ v.data.key = c.key
         \/ landed' = landed /\ v.error = view[c.slot].error /\ v.data = view[c.slot].data,
         c.slot = "graph" => IsGraph(v.data)
  PROVE  MatchHeld' /\ page' = page
<1>1. /\ page # "match" /\ DOMAIN view = {"players", "aim_stats", "guns", "graph"}
      /\ landed \in [DOMAIN view -> Nat] /\ IsSel(sel) /\ sel.first \in BOOLEAN
      /\ \A s \in DOMAIN view : Shape(view[s])
      /\ view["players"].loading => \E d \in calls : d.slot = "players"
      /\ IsGraph(view["graph"].data)
  BY AimPage
<1>2. /\ DOMAIN view' = DOMAIN view /\ view'[c.slot] = v
      /\ \A s \in DOMAIN view : s # c.slot => view'[s] = view[s] /\ landed'[s] = landed[s]
  BY <1>1
<1>3. \A s \in DOMAIN view : OrLands(s)
  <2>1. \A s \in DOMAIN view : s # c.slot => OrLands(s)
    BY <1>2 DEF OrLands, KeepsData
  <2>2. OrLands(c.slot)
    <3>1. CASE landed' = [landed EXCEPT ![c.slot] = c.n] /\ v.data.key = c.key
      BY <1>1, <1>2, <3>1 DEF OrLands
    <3>2. CASE landed' = landed /\ v.error = view[c.slot].error /\ v.data = view[c.slot].data
      BY <1>2, <3>2 DEF OrLands, KeepsData
    <3> QED BY <3>1, <3>2
  <2> QED BY <2>1, <2>2
<1>4. PICK S : S = {}
  OBVIOUS
<1>5. PICK q : q = sel
  OBVIOUS
<1>6. PICK old : old = calls \ {c}
  OBVIOUS
<1>7. \A s \in DOMAIN view : Shape(view'[s])
  BY <1>1, <1>2
<1>8. TabAsks(old, S, q, q)
  BY <1>1, <1>2, <1>3, <1>4, <1>5, <1>6, <1>7 DEF TabAsks
<1>9. OtherTabsAwaited'
  <2>1. view'["players"].loading => \E d \in calls' : d.slot = "players"
    BY <1>1, <1>2
  <2>2. IsGraph(view'["graph"].data)
    BY <1>1, <1>2
  <2> QED BY <1>2, <2>1, <2>2, AimAwaited
<1> QED BY <1>1, <1>8, <1>9, TabAsksHeld

LEMMA AimLands ==
  ASSUME page = "aim_tracking", MatchHeld, NEW c \in calls,
         \/ c.slot = "aim_stats" /\ AimStatsGot(c)
         \/ c.slot = "guns" /\ GunsGot(c)
         \/ c.slot = "graph" /\ GraphGot(c)
         \/ c.slot \in {"aim_stats", "guns", "graph"} /\ AimFailed(c),
         UNCHANGED sel
  PROVE  MatchHeld' /\ page' = page
<1>1. /\ DOMAIN view = {"players", "aim_stats", "guns", "graph"}
      /\ \A s \in DOMAIN view : Shape(view[s]) /\ IsGraph(view["graph"].data)
  BY AimPage
<1>2. PICK u : u = view[c.slot]
  OBVIOUS
<1>3. Shape(u)
  BY <1>1, <1>2
<1>4. CASE (c.slot = "aim_stats" /\ AimStatsGot(c)) \/ (c.slot = "guns" /\ GunsGot(c))
  <2>1. PICK d : d = [key |-> c.key]
    OBVIOUS
  <2>2. PICK v : v = Got(u, d)
    OBVIOUS
  <2>3. Shape(v) /\ v.data.key = c.key
    <3>1. Shape(v) /\ v.data = d
      BY <1>3, <2>2, GotIs
    <3> QED BY <2>1, <3>1
  <2>4. view' = [view EXCEPT ![c.slot] = v] /\ Land(c)
    BY <1>1, <1>2, <1>4, <2>1, <2>2 DEF AimStatsGot, GunsGot
  <2> QED BY <1>4, <2>3, <2>4, AimPartLands DEF Land
<1>5. CASE c.slot = "graph" /\ GraphGot(c)
  <2>1. PICK d : d = [key |-> c.key, numbers |-> TRUE]
    OBVIOUS
  <2>2. PICK v : v = Got(u, d)
    OBVIOUS
  <2>3. Shape(v) /\ v.data.key = c.key /\ v.data = d
    <3>1. Shape(v) /\ v.data = d
      BY <1>3, <2>2, GotIs
    <3> QED BY <2>1, <3>1
  <2>4. IsGraph(v.data)
    BY <2>1, <2>3 DEF IsGraph
  <2>5. view' = [view EXCEPT ![c.slot] = v] /\ Land(c)
    BY <1>1, <1>2, <1>5, <2>1, <2>2 DEF GraphGot
  <2> QED BY <1>5, <2>3, <2>4, <2>5, AimPartLands DEF Land
<1>6. CASE c.slot \in {"aim_stats", "guns", "graph"} /\ AimFailed(c)
  <2>1. PICK v : v = [u EXCEPT !.loading = FALSE]
    OBVIOUS
  <2>2. Shape(v) /\ v.error = u.error /\ v.data = u.data
    BY <1>3, <2>1, LoadingSet
  <2>3. view' = [view EXCEPT ![c.slot] = v] /\ LandUnseen(c)
    BY <1>1, <1>2, <1>6, <2>1 DEF AimFailed
  <2>4. c.slot = "graph" => IsGraph(v.data)
    BY <1>1, <1>2, <2>2
  <2> QED BY <1>2, <1>6, <2>2, <2>3, <2>4, AimPartLands DEF LandUnseen
<1> QED BY <1>4, <1>5, <1>6

LEMMA PlayersLand ==
  ASSUME page = "aim_tracking", MatchHeld, NEW c \in calls, c.slot = "players",
         PlayersGot(c) \/ (PlayersFailed(c) /\ UNCHANGED sel)
  PROVE  MatchHeld' /\ page' = page
<1>1. /\ page # "match" /\ DOMAIN view = {"players", "aim_stats", "guns", "graph"}
      /\ landed \in [DOMAIN view -> Nat] /\ IsSel(sel) /\ sel.first \in BOOLEAN
      /\ \A s \in DOMAIN view : Shape(view[s])
      /\ IsGraph(view["graph"].data)
  BY AimPage
<1>2. PICK old : old = calls \ {c}
  OBVIOUS
<1>3. PICK u : u = view["players"]
  OBVIOUS
<1>4. Shape(u)
  BY <1>1, <1>3
<1>5. ASSUME Land(c), UNCHANGED sel, NEW v, Shape(v), view' = [view EXCEPT !["players"] = v],
             ~v.loading, v.data = u.data
      PROVE  MatchHeld' /\ page' = page
  <2>1. /\ calls' = old /\ UNCHANGED <<page, asked, sent, sel>>
        /\ landed' = [landed EXCEPT ![c.slot] = c.n]
    BY <1>2, <1>5 DEF Land
  <2>2. /\ DOMAIN view' = DOMAIN view /\ view'["players"] = v
        /\ \A s \in DOMAIN view : s # "players" => view'[s] = view[s] /\ landed'[s] = landed[s]
    BY <1>1, <1>5, <2>1
  <2>3. \A s \in DOMAIN view : Shape(view'[s]) /\ OrLands(s)
    BY <1>1, <1>3, <1>5, <2>2 DEF OrLands, KeepsData, FixedSlots
  <2>4. PICK S : S = {}
    OBVIOUS
  <2>5. PICK q : q = sel
    OBVIOUS
  <2>6. TabAsks(old, S, q, q)
    BY <1>1, <1>2, <2>1, <2>2, <2>3, <2>4, <2>5 DEF TabAsks
  <2>7. OtherTabsAwaited'
    <3>1. ~view'["players"].loading /\ IsGraph(view'["graph"].data)
      BY <1>1, <1>5, <2>2
    <3> QED BY <2>1, <2>2, <3>1, AimAwaited
  <2> QED BY <1>1, <2>6, <2>7, TabAsksHeld
<1>6. CASE PlayersFailed(c) /\ UNCHANGED sel
  <2>1. PICK v : v = Failed(u)
    OBVIOUS
  <2>2. Shape(v) /\ ~v.loading /\ v.data = u.data
    BY <1>4, <2>1, FailedIs
  <2> QED BY <1>1, <1>3, <1>5, <1>6, <2>1, <2>2 DEF PlayersFailed
<1>7. CASE PlayersGot(c) /\ roster = {}
  <2>1. PICK v : v = [u EXCEPT !.loading = FALSE]
    OBVIOUS
  <2>2. Shape(v) /\ ~v.loading /\ v.data = u.data
    BY <1>4, <2>1, LoadingSet
  <2>3. Land(c) /\ UNCHANGED sel /\ view' = [view EXCEPT !["players"] = v]
    BY <1>1, <1>3, <1>7, <2>1 DEF PlayersGot
  <2> QED BY <1>5, <2>2, <2>3
<1>8. CASE PlayersGot(c) /\ roster # {}
  <2>1. PICK player \in DefaultPlayers :
          LET q == [sel EXCEPT !.player = player, !.first = FALSE]
              key(s) == MatchKey(s, q)
          IN /\ sel' = q
             /\ LandThenAsk(c, {"aim_stats", "guns", "graph"}, key)
             /\ view' = [view EXCEPT !["players"] = Got(@, [key |-> c.key]),
                                     !["guns"].loading = TRUE, !["graph"].loading = TRUE]
    BY <1>8 DEF PlayersGot
  <2>2. PICK q : q = [sel EXCEPT !.player = player, !.first = FALSE]
    OBVIOUS
  <2>3. IsSel(q) /\ q.first = FALSE /\ q.id = sel.id
    BY <1>1, <2>2, PlayerGiven
  <2>4. PICK S : S = {"aim_stats", "guns", "graph"}
    OBVIOUS
  <2>5. PICK d : d = [key |-> c.key]
    OBVIOUS
  <2>6. PICK v : v = Got(u, d)
    OBVIOUS
  <2>7. Shape(v) /\ ~v.loading /\ v.data.key = c.key
    <3>1. Shape(v) /\ v.loading = FALSE /\ v.data = d
      BY <1>4, <2>6, GotIs
    <3> QED BY <2>5, <3>1
  <2>8. PICK g : g = [view["guns"] EXCEPT !.loading = TRUE]
    OBVIOUS
  <2>9. PICK h : h = [view["graph"] EXCEPT !.loading = TRUE]
    OBVIOUS
  <2>10. Shape(g) /\ Shape(h) /\ h.data = view["graph"].data
    <3>1. PICK x : x = view["guns"]
      OBVIOUS
    <3>2. PICK y : y = view["graph"]
      OBVIOUS
    <3>3. Shape(x) /\ Shape(y)
      BY <1>1, <3>1, <3>2
    <3>4. Shape(g)
      BY <2>8, <3>1, <3>3, LoadingSet
    <3>5. Shape(h) /\ h.data = y.data
      BY <2>9, <3>2, <3>3, LoadingSet
    <3> QED BY <3>2, <3>4, <3>5
  <2>11. view' = [view EXCEPT !["players"] = v, !["guns"] = g, !["graph"] = h]
    BY <1>1, <1>3, <2>1, <2>5, <2>6, <2>8, <2>9
  <2>12. /\ DOMAIN view' = DOMAIN view /\ view'["players"] = v /\ view'["guns"] = g
         /\ view'["graph"] = h /\ view'["aim_stats"] = view["aim_stats"]
    BY <1>1, <2>11
  <2>13. /\ calls' = old \cup MatchCalls(S, q, asked + 1)
         /\ asked' = asked + 1 /\ sent' = SentBy(S, asked + 1)
         /\ landed' = [landed EXCEPT ![c.slot] = c.n] /\ page' = page /\ sel' = q
    BY <1>2, <2>1, <2>2, <2>4 DEF LandThenAsk, Requests, MatchCalls
  <2>14. \A s \in DOMAIN view : Shape(view'[s])
    BY <1>1, <2>7, <2>10, <2>12
  <2>15. S \subseteq DOMAIN view \ FixedSlots /\ DOMAIN view \ S = {"players"}
    BY <1>1, <2>4 DEF FixedSlots
  <2>16. OrLands("players")
    BY <1>1, <2>7, <2>12, <2>13 DEF OrLands
  <2>17. \A k : KeyFits("players", k, sel) => KeyFits("players", k, q)
    BY <2>3, FitsMeans
  <2>18. TabAsks(old, S, q, q)
    BY <1>2, <2>3, <2>12, <2>13, <2>14, <2>15, <2>16, <2>17, OwnKeyFits DEF TabAsks
  <2>19. OtherTabsAwaited'
    <3>1. ~view'["players"].loading /\ IsGraph(view'["graph"].data)
      BY <1>1, <2>7, <2>10, <2>12
    <3> QED BY <2>12, <2>13, <3>1, AimAwaited
  <2> QED BY <1>1, <2>18, <2>19, TabAsksHeld
<1> QED BY <1>6, <1>7, <1>8

LEMMA RetryAimHeld ==
  ASSUME MatchHeld, RetryAim
  PROVE  MatchHeld' /\ page' = page
<1>0. page = "aim_tracking"
  BY DEF RetryAim
<1>1. /\ page # "match" /\ DOMAIN view = {"players", "aim_stats", "guns", "graph"}
      /\ IsSel(sel) /\ sel.first \in BOOLEAN
      /\ \A s \in DOMAIN view : Shape(view[s])
      /\ view["players"].loading => \E c \in calls : c.slot = "players"
      /\ IsGraph(view["graph"].data)
  BY <1>0, AimPage
<1>2. PICK v : v = [view["players"] EXCEPT !.error = FALSE]
  OBVIOUS
<1>3. Shape(v) /\ v.loading = view["players"].loading /\ v.data = view["players"].data
  BY <1>1, <1>2, ErrorSet
<1>4. /\ view' = [view EXCEPT !["players"] = v]
      /\ UNCHANGED <<page, calls, asked, sent, landed, sel>>
  BY <1>1, <1>2 DEF RetryAim, NoAsk, matchExtras
<1>5. /\ DOMAIN view' = DOMAIN view /\ view'["players"] = v
      /\ \A s \in DOMAIN view : s # "players" => view'[s] = view[s]
  BY <1>1, <1>4
<1>6. \A s \in DOMAIN view : Shape(view'[s]) /\ OrLands(s)
  BY <1>1, <1>3, <1>4, <1>5 DEF OrLands, KeepsData, FixedSlots
<1>7. PICK S : S = {}
  OBVIOUS
<1>8. PICK q : q = sel
  OBVIOUS
<1>9. TabAsks(calls, S, q, q)
  BY <1>1, <1>4, <1>5, <1>6, <1>7, <1>8 DEF TabAsks
<1>10. OtherTabsAwaited'
  BY <1>0, <1>1, <1>3, <1>4, <1>5, AimAwaited
<1> QED BY <1>1, <1>9, <1>10, TabAsksHeld

LEMMA SelectGunHeld ==
  ASSUME MatchHeld, NEW gun, SelectGun(gun)
  PROVE  MatchHeld' /\ page' = page
<1>0. page = "aim_tracking"
  BY DEF SelectGun
<1>1. /\ page # "match" /\ DOMAIN view = {"players", "aim_stats", "guns", "graph"}
      /\ IsSel(sel) /\ sel.first \in BOOLEAN
      /\ \A s \in DOMAIN view : Shape(view[s])
      /\ view["players"].loading => \E c \in calls : c.slot = "players"
      /\ IsGraph(view["graph"].data)
  BY <1>0, AimPage
<1>2. PICK q : q = [sel EXCEPT !.gun = gun]
  OBVIOUS
<1>3. IsSel(q) /\ q.first = sel.first /\ q.id = sel.id /\ q.player = sel.player
  BY <1>1, <1>2, GunSelected
<1>4. PICK S : S = {"graph"}
  OBVIOUS
<1>5. PICK v : v = [view["graph"] EXCEPT !.loading = TRUE]
  OBVIOUS
<1>6. Shape(v) /\ v.data = view["graph"].data
  <2>1. PICK u : u = view["graph"]
    OBVIOUS
  <2>2. Shape(u)
    BY <1>1, <2>1
  <2> QED BY <1>5, <2>1, <2>2, LoadingSet
<1>7. /\ calls' = calls \cup MatchCalls(S, q, asked + 1)
      /\ asked' = asked + 1 /\ sent' = SentBy(S, asked + 1)
      /\ UNCHANGED <<page, landed>> /\ sel' = q
      /\ view' = [view EXCEPT !["graph"] = v]
  BY <1>1, <1>2, <1>4, <1>5 DEF SelectGun, Ask, Requests, MatchCalls
<1>8. /\ DOMAIN view' = DOMAIN view /\ view'["graph"] = v
      /\ \A s \in DOMAIN view : s # "graph" => view'[s] = view[s]
  BY <1>1, <1>7
<1>9. /\ \A s \in DOMAIN view : Shape(view'[s])
      /\ \A s \in DOMAIN view \ S : OrLands(s)
      /\ S \subseteq DOMAIN view \ FixedSlots
  BY <1>1, <1>4, <1>6, <1>7, <1>8 DEF OrLands, KeepsData, FixedSlots
<1>10. \A s \in DOMAIN view \ S : \A k : KeyFits(s, k, sel) => KeyFits(s, k, q)
  BY <1>1, <1>3, <1>4, FitsMeans
<1>11. TabAsks(calls, S, q, q)
  BY <1>1, <1>3, <1>7, <1>8, <1>9, <1>10, OwnKeyFits DEF TabAsks
<1>12. OtherTabsAwaited'
  BY <1>0, <1>1, <1>6, <1>7, <1>8, AimAwaited
<1> QED BY <1>1, <1>11, <1>12, TabAsksHeld

\* The graph asks twice if its weapon is reset with the player.
LEMMA AimPlayerHeld ==
  ASSUME MatchHeld, NEW player, HandleAimPlayer(player)
  PROVE  MatchHeld' /\ page' = page
<1>0. page = "aim_tracking"
  BY DEF HandleAimPlayer
<1>1. /\ page # "match" /\ DOMAIN view = {"players", "aim_stats", "guns", "graph"}
      /\ Fetched /\ IsSel(sel) /\ sel.first \in BOOLEAN
      /\ \A s \in DOMAIN view : Shape(view[s])
      /\ view["players"].loading => \E c \in calls : c.slot = "players"
      /\ IsGraph(view["graph"].data)
  BY <1>0, AimPage
<1>2. asked \in Nat /\ sent \in [DOMAIN view -> Nat]
  BY <1>1 DEF Fetched
<1>3. PICK q : q = [sel EXCEPT !.player = player]
  OBVIOUS
<1>4. IsSel(q) /\ q.first = sel.first /\ q.id = sel.id /\ q.player = player /\ q.gun = sel.gun
  BY <1>1, <1>3, PlayerSelected
<1>5. PICK r : r = [q EXCEPT !.gun = Unlimited]
  OBVIOUS
<1>6. IsSel(r) /\ r.first = sel.first /\ r.id = sel.id /\ r.player = player /\ r.gun = Unlimited
  BY <1>4, <1>5, GunSelected
<1>7. PICK S : S = {"aim_stats", "guns", "graph"}
  OBVIOUS
<1>8. PICK again : again = IF sel.gun = Unlimited THEN {} ELSE {"graph"}
  OBVIOUS
<1>9. PICK first : first = MatchCalls(S, q, asked + 1)
  OBVIOUS
<1>10. PICK second : second = MatchCalls(again, r, asked + 2)
  OBVIOUS
<1>11. PICK g : g = [view["guns"] EXCEPT !.loading = TRUE]
  OBVIOUS
<1>12. PICK d : d = IF view["graph"].data = Nothing THEN Nothing
                    ELSE [view["graph"].data EXCEPT !.numbers = FALSE]
  OBVIOUS
<1>13. PICK h : h = [view["graph"] EXCEPT !.loading = TRUE, !.data = d]
  OBVIOUS
<1>14. /\ page' = page /\ landed' = landed /\ sel' = r /\ asked' = asked + 2
       /\ calls' = calls \cup (first \cup second)
       /\ sent' = [s \in DOMAIN sent |-> IF s \in again THEN asked + 2
                                         ELSE IF s \in S THEN asked + 1 ELSE sent[s]]
  BY <1>3, <1>5, <1>7, <1>8, <1>9, <1>10 DEF HandleAimPlayer, Requests, MatchCalls
<1>15. view' = [view EXCEPT !["guns"] = g, !["graph"] = h]
  BY <1>1, <1>11, <1>12, <1>13 DEF HandleAimPlayer
<1>16. /\ DOMAIN view' = DOMAIN view /\ view'["guns"] = g /\ view'["graph"] = h
       /\ view'["players"] = view["players"] /\ view'["aim_stats"] = view["aim_stats"]
  BY <1>1, <1>15
<1>17. Shape(g)
  <2>1. PICK x : x = view["guns"]
    OBVIOUS
  <2>2. Shape(x)
    BY <1>1, <2>1
  <2> QED BY <1>11, <2>1, <2>2, LoadingSet
<1>18. Shape(h) /\ IsGraph(h.data)
  <2>1. PICK x : x = view["graph"]
    OBVIOUS
  <2>2. Shape(x)
    BY <1>1, <2>1
  <2>3. Shape(h) /\ h.data = d
    BY <1>13, <2>1, <2>2 DEF Shape
  <2>4. IsGraph(d)
    <3>1. PICK y : y = view["graph"].data
      OBVIOUS
    <3> QED BY <1>1, <1>12, <3>1 DEF IsGraph
  <2> QED BY <2>3, <2>4
<1>19. /\ \A e \in first : IsCall(e) /\ e.slot \in S /\ e.n = asked + 1 /\ e.key = MatchKey(e.slot, q)
       /\ \A e \in second : IsCall(e) /\ e.slot \in again /\ e.n = asked + 2 /\ e.key = MatchKey(e.slot, r)
  <2>1. \A e \in first : IsCall(e) /\ e.slot \in S /\ e.n = asked + 1 /\ e.key = MatchKey(e.slot, q)
    BY <1>9, MatchCallsAre
  <2>2. \A e \in second : IsCall(e) /\ e.slot \in again /\ e.n = asked + 2 /\ e.key = MatchKey(e.slot, r)
    BY <1>10, MatchCallsAre
  <2> QED BY <2>1, <2>2
<1>20. \A e \in first : e.n = sent'[e.slot] => KeyFits(e.slot, e.key, r)
  <2> SUFFICES ASSUME NEW e \in first, e.n = sent'[e.slot]
               PROVE  KeyFits(e.slot, e.key, r)
    OBVIOUS
  <2>1. e.slot \in S /\ e.key = MatchKey(e.slot, q) /\ e.slot \notin again
    BY <1>1, <1>2, <1>7, <1>14, <1>19
  <2>2. KeyFits(e.slot, e.key, q)
    BY <2>1, OwnKeyFits
  <2>3. CASE e.slot = "graph"
    <3>1. q.gun = r.gun
      BY <1>4, <1>6, <1>8, <2>1, <2>3
    <3> QED BY <1>4, <1>6, <2>2, <2>3, <3>1, FitsMeans
  <2>4. CASE e.slot = "aim_stats"
    BY <1>4, <1>6, <2>2, <2>4, FitsMeans
  <2>5. CASE e.slot = "guns"
    BY <1>4, <1>6, <2>2, <2>5, FitsMeans
  <2> QED BY <1>7, <2>1, <2>3, <2>4, <2>5
<1>21. \A e \in second : KeyFits(e.slot, e.key, r)
  BY <1>19, OwnKeyFits
<1>22. again \subseteq S /\ S \subseteq DOMAIN view \ FixedSlots /\ DOMAIN view \ S = {"players"}
  BY <1>1, <1>7, <1>8 DEF FixedSlots
<1>23. /\ asked' \in Nat /\ asked <= asked' /\ sent' \in [DOMAIN view -> Nat]
       /\ \A s \in S : asked < sent'[s] /\ sent'[s] <= asked'
       /\ \A s \in DOMAIN view \ S : sent'[s] = sent[s]
  BY <1>2, <1>14, <1>22
<1>24. PICK new : new = first \cup second
  OBVIOUS
<1>25. \A e \in new : /\ IsCall(e) /\ e.slot \in S /\ e.n \in Nat /\ asked < e.n /\ e.n <= asked'
                      /\ e.n = sent'[e.slot] => KeyFits(e.slot, e.key, r)
  BY <1>2, <1>14, <1>19, <1>20, <1>21, <1>22, <1>24
<1>26. \A s \in DOMAIN view : Shape(view'[s])
  BY <1>1, <1>16, <1>17, <1>18
<1>27. OrLands("players")
  BY <1>14, <1>16 DEF OrLands, KeepsData
<1>28. \A k : KeyFits("players", k, sel) => KeyFits("players", k, r)
  BY <1>6, FitsMeans
<1>29. TabSteps(calls, new, S, r)
  BY <1>1, <1>6, <1>14, <1>16, <1>22, <1>23, <1>24, <1>25, <1>26, <1>27, <1>28 DEF TabSteps
<1>30. OtherTabsAwaited'
  BY <1>0, <1>1, <1>14, <1>16, <1>18, AimAwaited
<1> QED BY <1>1, <1>29, <1>30, TabStepsHeld

\* Head to head.
LEMMA HeadPage ==
  ASSUME page = "head_to_head", MatchHeld
  PROVE  /\ page # "match" /\ DOMAIN view = {"compared", "player1", "player2"}
         /\ Fetched /\ landed \in [DOMAIN view -> Nat] /\ IsSel(sel) /\ sel.first \in BOOLEAN
         /\ \A s \in DOMAIN view : Shape(view[s])
         /\ view["compared"].loading => calls # {}
<1>1. DOMAIN view = {"compared", "player1", "player2"}
  BY MatchSlotsAre DEF MatchHeld, MatchPages
<1>2. /\ Fetched /\ landed \in [DOMAIN view -> Nat] /\ IsSel(sel) /\ sel.first \in BOOLEAN
      /\ \A s \in DOMAIN view : Shape(view[s])
  BY DEF MatchHeld, Fetched
<1>3. view["compared"].loading => calls # {}
  BY DEF MatchHeld, OtherTabsAwaited
<1> QED BY <1>1, <1>2, <1>3

LEMMA HeadAwaited ==
  ASSUME page = "head_to_head", MatchHeld, page' = page, DOMAIN view' = DOMAIN view,
         view'["compared"].loading => calls' # {}
  PROVE  OtherTabsAwaited'
<1>1. DOMAIN view = {"compared", "player1", "player2"}
  BY HeadPage
<1> QED BY <1>1 DEF OtherTabsAwaited

LEMMA ComparedLands ==
  ASSUME page = "head_to_head", MatchHeld, NEW c \in calls, c.slot = "compared",
         ComparedGot(c) \/ ComparedFailed(c)
  PROVE  MatchHeld' /\ page' = page
<1>1. /\ page # "match" /\ DOMAIN view = {"compared", "player1", "player2"}
      /\ landed \in [DOMAIN view -> Nat] /\ IsSel(sel) /\ sel.first \in BOOLEAN
      /\ \A s \in DOMAIN view : Shape(view[s])
  BY HeadPage
<1>2. PICK old : old = calls \ {c}
  OBVIOUS
<1>3. PICK u : u = view["compared"]
  OBVIOUS
<1>4. Shape(u)
  BY <1>1, <1>3
<1>5. PICK d : d = [key |-> c.key]
  OBVIOUS
<1>6. d.key = c.key
  BY <1>5
<1>7. ASSUME Land(c), UNCHANGED sel, NEW v, Shape(v), view' = [view EXCEPT !["compared"] = v],
             ~v.loading, v.data = d \/ (v.error /\ v.data = u.data)
      PROVE  MatchHeld' /\ page' = page
  <2>1. /\ calls' = old /\ UNCHANGED <<page, asked, sent, sel>>
        /\ landed' = [landed EXCEPT ![c.slot] = c.n]
    BY <1>2, <1>7 DEF Land
  <2>2. /\ DOMAIN view' = DOMAIN view /\ view'["compared"] = v /\ landed'["compared"] = c.n
        /\ \A s \in DOMAIN view : s # "compared" => view'[s] = view[s] /\ landed'[s] = landed[s]
    BY <1>1, <1>7, <2>1
  <2>3. OrLands("compared")
    <3>1. CASE v.data = d
      BY <1>6, <2>2, <3>1 DEF OrLands
    <3>2. CASE v.error /\ v.data = u.data
      BY <1>3, <2>2, <3>2 DEF OrLands, KeepsData
    <3> QED BY <1>7, <3>1, <3>2
  <2>4. \A s \in DOMAIN view : Shape(view'[s]) /\ OrLands(s)
    BY <1>1, <1>7, <2>2, <2>3 DEF OrLands, KeepsData
  <2>5. PICK S : S = {}
    OBVIOUS
  <2>6. PICK q : q = sel
    OBVIOUS
  <2>7. TabAsks(old, S, q, q)
    BY <1>1, <1>2, <2>1, <2>2, <2>4, <2>5, <2>6 DEF TabAsks
  <2>8. OtherTabsAwaited'
    BY <1>7, <2>1, <2>2, HeadAwaited
  <2> QED BY <1>1, <2>7, <2>8, TabAsksHeld
<1>8. CASE ComparedFailed(c)
  <2>1. PICK v : v = Failed(u)
    OBVIOUS
  <2>2. Shape(v) /\ ~v.loading /\ v.error /\ v.data = u.data
    BY <1>4, <2>1, FailedIs
  <2>3. Land(c) /\ UNCHANGED sel /\ view' = [view EXCEPT !["compared"] = v]
    BY <1>1, <1>3, <1>8, <2>1 DEF ComparedFailed
  <2> QED BY <1>7, <2>2, <2>3
<1>9. CASE ComparedGot(c) /\ roster = {}
  <2>1. PICK v : v = Got(u, d)
    OBVIOUS
  <2>2. Shape(v) /\ ~v.loading /\ v.data = d
    BY <1>4, <2>1, GotIs
  <2>3. Land(c) /\ UNCHANGED sel /\ view' = [view EXCEPT !["compared"] = v]
    BY <1>1, <1>3, <1>5, <1>9, <2>1 DEF ComparedGot
  <2> QED BY <1>7, <2>2, <2>3
<1>10. CASE ComparedGot(c) /\ roster # {}
  <2>1. PICK player \in DefaultPlayers :
          LET q == [sel EXCEPT !.player = player]
              key(s) == MatchKey(s, q)
          IN /\ sel' = q
             /\ LandThenAsk(c, {"player1"}, key)
             /\ view' = [view EXCEPT !["compared"].data = [key |-> c.key]]
    BY <1>10 DEF ComparedGot
  <2>2. PICK q : q = [sel EXCEPT !.player = player]
    OBVIOUS
  <2>3. IsSel(q) /\ q.first = sel.first /\ q.id = sel.id /\ q.rival = sel.rival
    BY <1>1, <2>2, PlayerSelected
  <2>4. PICK S : S = {"player1"}
    OBVIOUS
  <2>5. PICK new : new = MatchCalls(S, q, asked + 1)
    OBVIOUS
  <2>6. PICK v : v = [u EXCEPT !.data = d]
    OBVIOUS
  <2>7. Shape(v) /\ v.data = d
    BY <1>4, <2>6 DEF Shape
  <2>8. view' = [view EXCEPT !["compared"] = v]
    BY <1>1, <1>3, <1>5, <2>1, <2>6
  <2>9. /\ calls' = old \cup new
        /\ asked' = asked + 1 /\ sent' = SentBy(S, asked + 1)
        /\ landed' = [landed EXCEPT ![c.slot] = c.n] /\ page' = page /\ sel' = q
    BY <1>2, <2>1, <2>2, <2>4, <2>5 DEF LandThenAsk, Requests, MatchCalls
  <2>10. /\ DOMAIN view' = DOMAIN view /\ view'["compared"] = v /\ landed'["compared"] = c.n
         /\ view'["player1"] = view["player1"] /\ view'["player2"] = view["player2"]
         /\ landed'["player2"] = landed["player2"]
    BY <1>1, <2>8, <2>9
  <2>11. OrLands("compared") /\ OrLands("player2")
    BY <1>6, <2>7, <2>10 DEF OrLands, KeepsData
  <2>12. /\ S \subseteq DOMAIN view \ FixedSlots /\ DOMAIN view \ S = {"compared", "player2"}
         /\ \A s \in DOMAIN view : Shape(view'[s])
    BY <1>1, <2>4, <2>7, <2>10 DEF FixedSlots
  <2>13. \A s \in DOMAIN view \ S : \A k : KeyFits(s, k, sel) => KeyFits(s, k, q)
    BY <2>3, <2>12, FitsMeans
  <2>14. TabAsks(old, S, q, q)
    BY <1>1, <1>2, <2>3, <2>5, <2>9, <2>10, <2>11, <2>12, <2>13, OwnKeyFits DEF TabAsks
  <2>15. OtherTabsAwaited'
    <3>1. calls' # {}
      BY <2>4, <2>5, <2>9, MatchCallsAre
    <3> QED BY <2>9, <2>10, <3>1, HeadAwaited
  <2> QED BY <1>1, <2>14, <2>15, TabAsksHeld
<1> QED BY <1>8, <1>9, <1>10

LEMMA NextPlayerHeld ==
  ASSUME page = "head_to_head", MatchHeld, NEW c \in calls, c.slot \in {"player1", "player2"},
         NEW v, Shape(v), v.data.key = c.key \/ (v.error /\ v.data = view[c.slot].data),
         NEW shown, shown = [view EXCEPT ![c.slot] = v], NextPlayer(c, shown)
  PROVE  MatchHeld' /\ page' = page
<1>1. /\ page # "match" /\ DOMAIN view = {"compared", "player1", "player2"}
      /\ landed \in [DOMAIN view -> Nat] /\ IsSel(sel) /\ sel.first \in BOOLEAN
      /\ \A s \in DOMAIN view : Shape(view[s])
  BY HeadPage
<1>2. PICK old : old = calls \ {c}
  OBVIOUS
<1>3. /\ DOMAIN shown = DOMAIN view /\ shown[c.slot] = v
      /\ \A s \in DOMAIN view : s # c.slot => shown[s] = view[s]
  BY <1>1
<1>4. CASE c.slot = "player1" /\ view["compared"].loading /\ Cardinality(roster) > 1
  <2>1. PICK rival \in Rivals :
          LET q == [sel EXCEPT !.rival = rival]
              key(s) == MatchKey(s, q)
          IN sel' = q /\ LandThenAsk(c, {"player2"}, key) /\ view' = shown
    BY <1>4 DEF NextPlayer
  <2>2. PICK q : q = [sel EXCEPT !.rival = rival]
    OBVIOUS
  <2>3. IsSel(q) /\ q.first = sel.first /\ q.id = sel.id /\ q.player = sel.player
    BY <1>1, <2>2, RivalSelected
  <2>4. PICK S : S = {"player2"}
    OBVIOUS
  <2>5. PICK new : new = MatchCalls(S, q, asked + 1)
    OBVIOUS
  <2>6. /\ calls' = old \cup new
        /\ asked' = asked + 1 /\ sent' = SentBy(S, asked + 1)
        /\ landed' = [landed EXCEPT ![c.slot] = c.n] /\ page' = page /\ sel' = q /\ view' = shown
    BY <1>2, <2>1, <2>2, <2>4, <2>5 DEF LandThenAsk, Requests, MatchCalls
  <2>7. /\ DOMAIN view' = DOMAIN view /\ view'["player1"] = v /\ landed'["player1"] = c.n
        /\ view'["compared"] = view["compared"] /\ landed'["compared"] = landed["compared"]
    BY <1>1, <1>3, <1>4, <2>6
  <2>8. OrLands("player1")
    <3>1. CASE v.data.key = c.key
      BY <1>4, <2>7, <3>1 DEF OrLands
    <3>2. CASE v.error /\ v.data = view[c.slot].data
      BY <1>4, <2>7, <3>2 DEF OrLands, KeepsData
    <3> QED BY <3>1, <3>2
  <2>9. OrLands("compared")
    BY <2>7 DEF OrLands, KeepsData
  <2>10. /\ S \subseteq DOMAIN view \ FixedSlots /\ DOMAIN view \ S = {"compared", "player1"}
         /\ \A s \in DOMAIN view : Shape(view'[s])
    BY <1>1, <1>3, <2>4, <2>6 DEF FixedSlots
  <2>11. \A s \in DOMAIN view \ S : \A k : KeyFits(s, k, sel) => KeyFits(s, k, q)
    BY <2>3, <2>10, FitsMeans
  <2>12. TabAsks(old, S, q, q)
    BY <1>1, <1>2, <2>3, <2>5, <2>6, <2>7, <2>8, <2>9, <2>10, <2>11, OwnKeyFits DEF TabAsks
  <2>13. OtherTabsAwaited'
    <3>1. calls' # {}
      BY <2>4, <2>5, <2>6, MatchCallsAre
    <3> QED BY <2>6, <2>7, <3>1, HeadAwaited
  <2> QED BY <1>1, <2>12, <2>13, TabAsksHeld
<1>5. CASE ~(c.slot = "player1" /\ view["compared"].loading /\ Cardinality(roster) > 1)
  <2>1. view' = [shown EXCEPT !["compared"].loading = FALSE] /\ Land(c) /\ UNCHANGED sel
    BY <1>5 DEF NextPlayer
  <2>2. PICK u : u = view["compared"]
    OBVIOUS
  <2>3. PICK w : w = [u EXCEPT !.loading = FALSE]
    OBVIOUS
  <2>4. Shape(w) /\ ~w.loading /\ w.error = u.error /\ w.data = u.data
    <3>1. Shape(u)
      BY <1>1, <2>2
    <3> QED BY <2>3, <3>1, LoadingSet
  <2>5. /\ calls' = old /\ UNCHANGED <<page, asked, sent, sel>>
        /\ landed' = [landed EXCEPT ![c.slot] = c.n]
    BY <1>2, <2>1 DEF Land
  <2>6. /\ DOMAIN view' = DOMAIN view /\ view'["compared"] = w /\ view'[c.slot] = v
        /\ \A s \in DOMAIN view : s \notin {c.slot, "compared"} => view'[s] = view[s]
        /\ \A s \in DOMAIN view : s # c.slot => landed'[s] = landed[s]
        /\ landed'[c.slot] = c.n
    BY <1>1, <1>3, <2>1, <2>2, <2>3, <2>5
  <2>7. OrLands(c.slot)
    <3>1. CASE v.data.key = c.key
      BY <2>6, <3>1 DEF OrLands
    <3>2. CASE v.error /\ v.data = view[c.slot].data
      BY <2>6, <3>2 DEF OrLands, KeepsData
    <3> QED BY <3>1, <3>2
  <2>8. OrLands("compared")
    BY <1>1, <2>2, <2>4, <2>6 DEF OrLands, KeepsData
  <2>9. \A s \in DOMAIN view : s \notin {c.slot, "compared"} => OrLands(s)
    BY <2>6 DEF OrLands, KeepsData
  <2>10. \A s \in DOMAIN view : Shape(view'[s]) /\ OrLands(s)
    BY <1>1, <2>4, <2>6, <2>7, <2>8, <2>9
  <2>11. PICK S : S = {}
    OBVIOUS
  <2>12. PICK q : q = sel
    OBVIOUS
  <2>13. TabAsks(old, S, q, q)
    BY <1>1, <1>2, <2>5, <2>6, <2>10, <2>11, <2>12 DEF TabAsks
  <2>14. OtherTabsAwaited'
    BY <2>4, <2>5, <2>6, HeadAwaited
  <2> QED BY <1>1, <2>13, <2>14, TabAsksHeld
<1> QED BY <1>4, <1>5

LEMMA ComparedPlayerLands ==
  ASSUME page = "head_to_head", MatchHeld, NEW c \in calls, c.slot \in {"player1", "player2"},
         ComparedPlayerGot(c) \/ ComparedPlayerFailed(c)
  PROVE  MatchHeld' /\ page' = page
<1>1. DOMAIN view = {"compared", "player1", "player2"} /\ \A s \in DOMAIN view : Shape(view[s])
  BY HeadPage
<1>2. PICK u : u = view[c.slot]
  OBVIOUS
<1>3. Shape(u)
  BY <1>1, <1>2
<1>4. CASE ComparedPlayerGot(c)
  <2>1. PICK d : d = [key |-> c.key]
    OBVIOUS
  <2>2. PICK v : v = [u EXCEPT !.data = d]
    OBVIOUS
  <2>3. Shape(v) /\ v.data = d
    BY <1>3, <2>2 DEF Shape
  <2>4. v.data.key = c.key
    BY <2>1, <2>3
  <2>5. PICK shown : shown = [view EXCEPT ![c.slot] = v]
    OBVIOUS
  <2>6. shown = [view EXCEPT ![c.slot].data = [key |-> c.key]]
    BY <1>1, <1>2, <2>1, <2>2, <2>5
  <2>7. NextPlayer(c, shown)
    BY <1>4, <2>6 DEF ComparedPlayerGot
  <2> QED BY <2>3, <2>4, <2>5, <2>7, NextPlayerHeld
<1>5. CASE ComparedPlayerFailed(c)
  <2>1. PICK v : v = [u EXCEPT !.error = TRUE]
    OBVIOUS
  <2>2. Shape(v) /\ v.error = TRUE /\ v.data = u.data
    BY <1>3, <2>1, ErrorSet
  <2>3. PICK shown : shown = [view EXCEPT ![c.slot] = v]
    OBVIOUS
  <2>4. shown = [view EXCEPT ![c.slot].error = TRUE]
    BY <1>1, <1>2, <2>1, <2>3
  <2>5. NextPlayer(c, shown)
    BY <1>5, <2>4 DEF ComparedPlayerFailed
  <2> QED BY <1>2, <2>2, <2>3, <2>5, NextPlayerHeld
<1> QED BY <1>4, <1>5

LEMMA PlayerChangeHeld ==
  ASSUME MatchHeld, NEW s \in {"player1", "player2"}, NEW player, HandlePlayerChange(s, player)
  PROVE  MatchHeld' /\ page' = page
<1>0. page = "head_to_head"
  BY DEF HandlePlayerChange
<1>1. /\ page # "match" /\ DOMAIN view = {"compared", "player1", "player2"}
      /\ IsSel(sel) /\ sel.first \in BOOLEAN
      /\ \A t \in DOMAIN view : Shape(view[t])
      /\ view["compared"].loading => calls # {}
  BY <1>0, HeadPage
<1>2. PICK q : q = IF s = "player1" THEN [sel EXCEPT !.player = player] ELSE [sel EXCEPT !.rival = player]
  OBVIOUS
<1>3. /\ IsSel(q) /\ q.first = sel.first /\ q.id = sel.id
      /\ s = "player1" => q.rival = sel.rival
      /\ s = "player2" => q.player = sel.player
  <2>1. CASE s = "player1"
    BY <1>1, <1>2, <2>1, PlayerSelected
  <2>2. CASE s = "player2"
    BY <1>1, <1>2, <2>2, RivalSelected
  <2> QED BY <2>1, <2>2
<1>4. PICK S : S = {s}
  OBVIOUS
<1>5. PICK u : u = view[s]
  OBVIOUS
<1>6. PICK v : v = [u EXCEPT !.error = FALSE]
  OBVIOUS
<1>7. Shape(v)
  BY <1>1, <1>5, <1>6, ErrorSet
<1>8. /\ calls' = calls \cup MatchCalls(S, q, asked + 1)
      /\ asked' = asked + 1 /\ sent' = SentBy(S, asked + 1)
      /\ UNCHANGED <<page, landed>> /\ sel' = q
      /\ view' = [view EXCEPT ![s] = v]
  BY <1>1, <1>2, <1>4, <1>5, <1>6 DEF HandlePlayerChange, Ask, Requests, MatchCalls
<1>9. /\ DOMAIN view' = DOMAIN view /\ view'[s] = v
      /\ \A t \in DOMAIN view : t # s => view'[t] = view[t]
  BY <1>1, <1>8
<1>10. /\ \A t \in DOMAIN view : Shape(view'[t])
       /\ \A t \in DOMAIN view \ S : OrLands(t)
       /\ S \subseteq DOMAIN view \ FixedSlots
  BY <1>1, <1>4, <1>7, <1>8, <1>9 DEF OrLands, KeepsData, FixedSlots
<1>11. \A t \in DOMAIN view \ S : \A k : KeyFits(t, k, sel) => KeyFits(t, k, q)
  BY <1>1, <1>3, <1>4, FitsMeans
<1>12. TabAsks(calls, S, q, q)
  BY <1>1, <1>3, <1>8, <1>9, <1>10, <1>11, OwnKeyFits DEF TabAsks
<1>13. OtherTabsAwaited'
  BY <1>0, <1>1, <1>8, <1>9, HeadAwaited
<1> QED BY <1>1, <1>12, <1>13, TabAsksHeld

\* The match and its best players.
LEMMA MatchPageIs ==
  ASSUME page = "match", MatchHeld
  PROVE  /\ DOMAIN view = {"match", "top_players"} /\ Fetched /\ IsSel(sel) /\ sel.first \in BOOLEAN
         /\ asked \in Nat /\ sent \in [DOMAIN view -> Nat] /\ landed \in [DOMAIN view -> Nat]
         /\ \A s \in DOMAIN view : Shape(view[s]) /\ sent[s] <= asked /\ landed[s] <= asked
         /\ \A c \in calls : IsCall(c) /\ c.slot \in {"match", "top_players"} /\ c.n \in Nat /\ c.n <= asked
         /\ MatchPageHeld
<1>1. DOMAIN view = {"match", "top_players"} /\ Fetched /\ IsSel(sel) /\ sel.first \in BOOLEAN
  BY MatchSlotsAre DEF MatchHeld, MatchPages
<1> QED BY <1>1 DEF MatchHeld, Fetched

LEMMA GoToHeld ==
  ASSUME MatchHeld, NEW id, GoTo(id)
  PROVE  MatchHeld' /\ page' = page
<1>0. page = "match"
  BY DEF GoTo
<1>1. /\ DOMAIN view = {"match", "top_players"} /\ Fetched /\ IsSel(sel) /\ sel.first \in BOOLEAN
      /\ \A s \in DOMAIN view : Shape(view[s])
      /\ asked \in Nat /\ \A s \in DOMAIN view : sent[s] <= asked /\ landed[s] <= asked
      /\ \A c \in calls : IsCall(c) /\ c.slot \in {"match", "top_players"} /\ c.n \in Nat /\ c.n <= asked
  BY <1>0, MatchPageIs
<1>2. PICK q : q = [sel EXCEPT !.id = id]
  OBVIOUS
<1>3. IsSel(q) /\ q.first = sel.first
  BY <1>1, <1>2, MatchSelected
<1>4. PICK S : S = {"match"}
  OBVIOUS
<1>5. PICK new : new = MatchCalls(S, q, asked + 1)
  OBVIOUS
<1>6. PICK v : v = [view["match"] EXCEPT !.loading = TRUE]
  OBVIOUS
<1>7. Shape(v) /\ v.loading = TRUE
  <2>1. PICK u : u = view["match"]
    OBVIOUS
  <2>2. Shape(u)
    BY <1>1, <2>1
  <2> QED BY <1>6, <2>1, <2>2, LoadingSet
<1>8. /\ calls' = ButTopPlayers(calls) \cup new
      /\ asked' = asked + 1 /\ sent' = SentBy(S, asked + 1)
      /\ UNCHANGED <<page, landed>> /\ sel' = q
      /\ view' = [view EXCEPT !["match"] = v]
  BY <1>1, <1>2, <1>4, <1>5, <1>6 DEF GoTo, Requests, MatchCalls
<1>9. /\ \A d \in new : IsCall(d) /\ d.slot = "match" /\ d.n = asked + 1 /\ d.key = MatchKey("match", q)
      /\ \E d \in new : d.slot = "match"
  BY <1>4, <1>5, MatchCallsAre
<1>10. /\ DOMAIN view' = DOMAIN view /\ view'["match"] = v
       /\ view'["top_players"] = view["top_players"]
  BY <1>1, <1>8
<1>11. Fetched' /\ sent'["match"] = asked + 1
  <2>1. \A s \in DOMAIN view : Shape(view'[s])
    BY <1>1, <1>7, <1>10
  <2>2. \A d \in calls' : d \in calls \/ (IsCall(d) /\ d.slot \in DOMAIN view /\ d.n = asked + 1)
    BY <1>1, <1>8, <1>9 DEF ButTopPlayers
  <2>3. /\ Fetched' /\ \A s \in S \cap DOMAIN view : sent'[s] = asked + 1
    BY <1>1, <1>8, <1>10, <2>1, <2>2, AskFetched
  <2> QED BY <1>1, <1>4, <2>3
<1>12. MatchKey("match", q) = MatchParams(q)
  BY DEF MatchKey
<1>13. MatchPageHeld'
  <2>1. \A c \in calls' : c.slot = "match" /\ c.n = sent'["match"] => c.key = MatchParams(q)
    BY <1>1, <1>8, <1>9, <1>11, <1>12 DEF ButTopPlayers
  <2>2. landed'["match"] # sent'["match"]
    BY <1>1, <1>8, <1>11
  <2>3. \E c \in calls' : c.slot = "match"
    BY <1>8, <1>9
  <2>4. ~TopPlayersMounted'
    BY <1>7, <1>10 DEF TopPlayersMounted, MatchShown, Returned
  <2> QED BY <1>8, <2>1, <2>2, <2>3, <2>4 DEF MatchPageHeld
<1>14. DOMAIN view' = SlotsOf(page')
  BY <1>8, <1>10 DEF MatchHeld
<1> QED BY <1>0, <1>1, <1>3, <1>8, <1>11, <1>13, <1>14 DEF MatchHeld

\* The match of an answer is shown, or its failure.
LEMMA MatchLands ==
  ASSUME page = "match", MatchHeld, NEW c \in calls, c.slot = "match",
         MatchGot(c) \/ MatchFailed(c), UNCHANGED matchExtras
  PROVE  MatchHeld' /\ page' = page
<1>1. /\ DOMAIN view = {"match", "top_players"} /\ Fetched /\ IsSel(sel) /\ sel.first \in BOOLEAN
      /\ asked \in Nat /\ landed \in [DOMAIN view -> Nat] /\ sent \in [DOMAIN view -> Nat]
      /\ \A s \in DOMAIN view : Shape(view[s]) /\ sent[s] <= asked /\ landed[s] <= asked
      /\ \A d \in calls : IsCall(d) /\ d.slot \in {"match", "top_players"} /\ d.n \in Nat /\ d.n <= asked
      /\ MatchPageHeld /\ sel' = sel /\ roster' = roster
  BY MatchPageIs DEF matchExtras
<1>2. ASSUME page' = page, Fetched', DOMAIN view' = DOMAIN view, MatchPageHeld'
      PROVE  MatchHeld' /\ page' = page
  BY <1>1, <1>2 DEF MatchHeld
\* Without best players.
<1>3. ASSUME NEW v, Shape(v), view' = [view EXCEPT !["match"] = v], ~v.loading,
             v.error \/ v.data.key = c.key,
             v.error \/ ~v.data.parsed \/ roster = {},
             calls' = ButTopPlayers(calls) \ {c}, landed' = [landed EXCEPT !["match"] = c.n],
             UNCHANGED <<page, asked, sent>>
      PROVE  MatchHeld' /\ page' = page
  <2>1. /\ DOMAIN view' = DOMAIN view /\ view'["match"] = v
        /\ view'["top_players"] = view["top_players"] /\ landed'["match"] = c.n
    BY <1>1, <1>3
  <2>2. \A s \in DOMAIN view : Shape(view'[s])
    BY <1>1, <1>3, <2>1
  <2>3. calls' \subseteq calls
    BY <1>3 DEF ButTopPlayers
  <2>4. landed' = [landed EXCEPT ![c.slot] = c.n]
    BY <1>3
  <2>5. Fetched'
    BY <1>1, <1>3, <2>1, <2>2, <2>3, <2>4, LandFetched
  <2>6. ~TopPlayersMounted'
    BY <1>1, <1>3, <2>1 DEF TopPlayersMounted, MatchShown, Returned
  <2>7. landed'["match"] = sent'["match"] /\ MatchShown' = "content" => v.data.key = MatchParams(sel)
    BY <1>1, <1>3, <2>1 DEF MatchPageHeld, MatchShown, Returned
  <2>8. MatchPageHeld'
    BY <1>1, <1>3, <2>1, <2>3, <2>6, <2>7 DEF MatchPageHeld
  <2> QED BY <1>2, <1>3, <2>1, <2>5, <2>8
<1>4. CASE MatchFailed(c)
  <2>1. PICK u : u = view["match"]
    OBVIOUS
  <2>2. PICK v : v = Failed(u)
    OBVIOUS
  <2>3. Shape(v) /\ v.loading = FALSE /\ v.error = TRUE
    BY <1>1, <2>1, <2>2, FailedIs
  <2>4. /\ view' = [view EXCEPT !["match"] = v] /\ calls' = ButTopPlayers(calls) \ {c}
        /\ landed' = [landed EXCEPT !["match"] = c.n] /\ UNCHANGED <<page, asked, sent>>
    BY <1>1, <1>4, <2>1, <2>2 DEF MatchFailed
  <2> QED BY <1>3, <2>3, <2>4
<1>5. CASE MatchGot(c)
  <2>1. PICK parsed \in BOOLEAN :
          LET m == [key |-> c.key, parsed |-> parsed]
              shown == [view EXCEPT !["match"] = [loading |-> FALSE, error |-> FALSE, data |-> m]]
              key(s) == c.key
          IN IF ~parsed \/ roster = {}
             THEN /\ calls' = ButTopPlayers(calls) \ {c}
                  /\ landed' = [landed EXCEPT !["match"] = c.n]
                  /\ view' = shown /\ UNCHANGED <<page, asked, sent>>
             ELSE IF ~TopPlayersMounted
             THEN /\ LandThenAsk(c, {"top_players"}, key)
                  /\ view' = [shown EXCEPT !["top_players"] = Blank]
             ELSE IF view["match"].data.key # c.key
             THEN /\ LandThenAsk(c, {"top_players"}, key)
                  /\ view' = [shown EXCEPT !["top_players"] = Starting(@)]
             ELSE Land(c) /\ view' = shown
    BY <1>5 DEF MatchGot
  <2>2. PICK m : m = [key |-> c.key, parsed |-> parsed]
    OBVIOUS
  <2>3. PICK v : v = [loading |-> FALSE, error |-> FALSE, data |-> m]
    OBVIOUS
  <2>4. /\ Shape(v) /\ ~v.loading /\ ~v.error /\ v.data = m
        /\ m.key = c.key /\ m.parsed = parsed
    BY <2>2, <2>3 DEF Shape
  <2>5. PICK shown : shown = [view EXCEPT !["match"] = v]
    OBVIOUS
  <2>6. /\ DOMAIN shown = DOMAIN view /\ shown["match"] = v /\ shown["top_players"] = view["top_players"]
    BY <1>1, <2>5
  <2>7. CASE ~parsed \/ roster = {}
    <3>1. /\ view' = [view EXCEPT !["match"] = v] /\ calls' = ButTopPlayers(calls) \ {c}
          /\ landed' = [landed EXCEPT !["match"] = c.n] /\ UNCHANGED <<page, asked, sent>>
      BY <2>1, <2>2, <2>3, <2>7
    <3>2. ~v.data.parsed \/ roster = {}
      BY <2>4, <2>7
    <3> QED BY <1>3, <2>4, <3>1, <3>2
  <2>8. ASSUME parsed, roster # {}, ~TopPlayersMounted \/ view["match"].data.key # c.key
        PROVE  MatchHeld' /\ page' = page
    <3>1. PICK S : S = {"top_players"}
      OBVIOUS
    <3>2. PICK k : k = c.key
      OBVIOUS
    <3>3. PICK new : new = OneCall("top_players", k, asked + 1)
      OBVIOUS
    <3>4. /\ \A d \in new : IsCall(d) /\ d.slot = "top_players" /\ d.n = asked + 1 /\ d.key = k
          /\ \E d \in new : d.slot = "top_players"
      BY <3>3, OneCallIs
    <3>5. PICK t : t = IF ~TopPlayersMounted THEN Blank ELSE Starting(view["top_players"])
      OBVIOUS
    <3>6. Shape(t)
      <4>1. PICK u : u = view["top_players"]
        OBVIOUS
      <4>2. PICK w : w = Starting(u)
        OBVIOUS
      <4>3. Shape(w)
        BY <1>1, <4>1, <4>2, StartingIs
      <4>4. Shape(Blank)
        BY DEF Shape, Blank
      <4> QED BY <3>5, <4>1, <4>2, <4>3, <4>4
    <3>7. /\ calls' = (calls \ {c}) \cup new /\ landed' = [landed EXCEPT ![c.slot] = c.n]
          /\ asked' = asked + 1 /\ sent' = SentBy(S, asked + 1) /\ page' = page
      BY <2>1, <2>8, <3>1, <3>2, <3>3 DEF LandThenAsk, Requests, OneCall
    <3>8. view' = [shown EXCEPT !["top_players"] = t]
      BY <1>1, <2>1, <2>2, <2>3, <2>5, <2>6, <2>8, <3>5
    <3>9. /\ DOMAIN view' = DOMAIN view /\ view'["match"] = v /\ view'["top_players"] = t
      BY <1>1, <2>6, <3>8
    <3>10. /\ Fetched' /\ landed'["top_players"] # sent'["top_players"]
           /\ sent'["top_players"] = asked + 1 /\ sent'["match"] = sent["match"]
           /\ \A d \in calls : d.slot = "top_players" => d.n # sent'["top_players"]
      <4>1. \A s \in DOMAIN view : Shape(view'[s])
        BY <1>1, <2>4, <3>6, <3>9
      <4>2. \A d \in calls' : d \in calls \/ (IsCall(d) /\ d.slot \in DOMAIN view /\ d.n = asked + 1)
        BY <1>1, <3>4, <3>7
      <4>3. /\ Fetched'
            /\ \A s \in S \cap DOMAIN view : sent'[s] = asked + 1 /\ landed'[s] # sent'[s]
            /\ \A s \in DOMAIN view \ S : sent'[s] = sent[s]
            /\ \A d \in calls : d.slot \in S => d.n # sent'[d.slot]
        BY <1>1, <3>7, <3>9, <4>1, <4>2, AskFetched
      <4> QED BY <1>1, <3>1, <4>3
    <3>11. MatchPageHeld'
      <4>1. \A d \in calls' : d.slot = "match" /\ d.n = sent'["match"] => d.key = MatchParams(sel)
        BY <1>1, <3>4, <3>7, <3>10 DEF MatchPageHeld
      <4>2. landed'["match"] = sent'["match"] => v.data.key = MatchParams(sel)
        BY <1>1, <2>4, <3>7, <3>10 DEF MatchPageHeld
      <4>3. \A d \in calls' : d.slot = "top_players" /\ d.n = sent'["top_players"] => d.key = v.data.key
        BY <2>4, <3>2, <3>4, <3>7, <3>10
      <4>4. \E d \in calls' : d.slot = "top_players"
        BY <3>4, <3>7
      <4> QED BY <1>1, <2>4, <3>9, <3>10, <4>1, <4>2, <4>3, <4>4 DEF MatchPageHeld
    <3> QED BY <1>2, <3>7, <3>9, <3>10, <3>11
  <2>9. CASE parsed /\ roster # {} /\ TopPlayersMounted /\ view["match"].data.key = c.key
    <3>1. /\ calls' = calls \ {c} /\ landed' = [landed EXCEPT ![c.slot] = c.n]
          /\ UNCHANGED <<page, asked, sent>> /\ view' = shown
      BY <2>1, <2>2, <2>3, <2>5, <2>9 DEF Land
    <3>2. \A s \in DOMAIN view : Shape(view'[s])
      BY <1>1, <2>4, <2>6, <3>1
    <3>3. Fetched'
      BY <1>1, <2>6, <3>1, <3>2, LandFetched
    <3>4. landed'["match"] = c.n /\ landed'["top_players"] = landed["top_players"]
      BY <1>1, <3>1
    <3>5. landed'["match"] = sent'["match"] => v.data.key = MatchParams(sel)
      BY <1>1, <2>4, <3>1, <3>4 DEF MatchPageHeld
    <3>6. v.data.key = view["match"].data.key
      BY <2>4, <2>9
    <3>7. MatchPageHeld'
      BY <1>1, <2>4, <2>6, <2>9, <3>1, <3>4, <3>5, <3>6 DEF MatchPageHeld
    <3> QED BY <1>2, <2>6, <3>1, <3>3, <3>7
  <2> QED BY <2>7, <2>8, <2>9
<1> QED BY <1>4, <1>5

LEMMA TopPlayersLand ==
  ASSUME page = "match", MatchHeld, NEW c \in calls, c.slot = "top_players",
         TopPlayersGot(c) \/ TopPlayersFailed(c), UNCHANGED matchExtras
  PROVE  MatchHeld' /\ page' = page
<1>1. /\ DOMAIN view = {"match", "top_players"} /\ Fetched /\ IsSel(sel) /\ sel.first \in BOOLEAN
      /\ landed \in [DOMAIN view -> Nat]
      /\ \A s \in DOMAIN view : Shape(view[s])
      /\ MatchPageHeld /\ sel' = sel /\ roster' = roster
  BY MatchPageIs DEF matchExtras
<1>2. PICK u : u = view["top_players"]
  OBVIOUS
<1>3. PICK d : d = [key |-> c.key]
  OBVIOUS
<1>4. PICK v : /\ view' = [view EXCEPT !["top_players"] = v]
               /\ v = Got(u, d) \/ v = Failed(u)
  BY <1>2, <1>3 DEF TopPlayersGot, TopPlayersFailed
<1>5. d.key = c.key
  BY <1>3
<1>6. Shape(v) /\ ~v.loading /\ (v.error \/ v.data.key = c.key)
  <2>1. Shape(u)
    BY <1>1, <1>2
  <2>2. CASE v = Got(u, d)
    <3>1. Shape(v) /\ v.loading = FALSE /\ v.data = d
      BY <2>1, <2>2, GotIs
    <3> QED BY <1>5, <3>1
  <2>3. CASE v = Failed(u)
    BY <2>1, <2>3, FailedIs
  <2> QED BY <1>4, <2>2, <2>3
<1>7. /\ calls' = calls \ {c} /\ landed' = [landed EXCEPT ![c.slot] = c.n]
      /\ UNCHANGED <<page, asked, sent>>
  BY DEF TopPlayersGot, TopPlayersFailed, Land
<1>8. /\ DOMAIN view' = DOMAIN view /\ view'["match"] = view["match"] /\ view'["top_players"] = v
      /\ landed'["match"] = landed["match"] /\ landed'["top_players"] = c.n
  BY <1>1, <1>4, <1>7
<1>9. Fetched'
  <2>1. \A s \in DOMAIN view : Shape(view'[s])
    BY <1>1, <1>6, <1>8
  <2> QED BY <1>1, <1>7, <1>8, <2>1, LandFetched
<1>10. TopPlayersMounted' <=> TopPlayersMounted
  BY <1>1, <1>8 DEF TopPlayersMounted, MatchShown, Returned
<1>11. MatchShown' = MatchShown
  BY <1>8 DEF MatchShown, Returned
<1>12. MatchPageHeld'
  <2>1. \A e \in calls' : e.slot = "match" /\ e.n = sent'["match"] => e.key = MatchParams(sel')
    BY <1>1, <1>7 DEF MatchPageHeld
  <2>2. landed'["match"] = sent'["match"] /\ MatchShown' = "content" =>
           view'["match"].data.key = MatchParams(sel')
    BY <1>1, <1>7, <1>8, <1>11 DEF MatchPageHeld
  <2>3. view'["match"].loading => \E e \in calls' : e.slot = "match"
    BY <1>1, <1>7, <1>8 DEF MatchPageHeld
  <2>4. ASSUME TopPlayersMounted'
        PROVE  /\ \A e \in calls' : e.slot = "top_players" /\ e.n = sent'["top_players"] =>
                      e.key = view'["match"].data.key
               /\ landed'["top_players"] = sent'["top_players"] /\ ~v.error =>
                      v.data.key = view'["match"].data.key
    BY <1>1, <1>6, <1>7, <1>8, <1>10, <2>4 DEF MatchPageHeld
  <2> QED BY <1>6, <1>8, <2>1, <2>2, <2>3, <2>4 DEF MatchPageHeld
<1>13. DOMAIN view' = SlotsOf(page')
  BY <1>7, <1>8 DEF MatchHeld
<1> QED BY <1>1, <1>7, <1>9, <1>12, <1>13 DEF MatchHeld

\* A tab is opened: its first slots ask, for the selection it starts with.
LEMMA FirstSlotsAre ==
  ASSUME NEW p \in MatchPages
  PROVE  /\ FirstSlots(p) \subseteq SlotsOf(p)
         /\ p = "match" => FirstSlots(p) = {"match"} /\ SlotsOf(p) = {"match", "top_players"}
         /\ p = "player_stats" => FirstSlots(p) = {"stats"} /\ SlotsOf(p) = {"stats"}
         /\ {"stats", "analysis", "players", "compared"} \cap SlotsOf(p) \subseteq FirstSlots(p)
         /\ p = "aim_tracking" => "graph" \in SlotsOf(p)
         /\ p = "head_to_head" => "compared" \in SlotsOf(p)
BY DEF FirstSlots, SlotsOf, MatchPages
LEMMA MatchTabOpened ==
  ASSUME NEW p \in MatchPages, NEW id, NEW player, OpenTab(p, id, player)
  PROVE  MatchHeld' /\ page' \in MatchPages
<1>1. PICK T : T = SlotsOf(p)
  OBVIOUS
<1>2. PICK A : A = FirstSlots(p)
  OBVIOUS
<1>3. PICK q : q = Selection(id, player)
  OBVIOUS
<1>4. IsSel(q) /\ q.first = TRUE
  BY <1>3 DEF IsSel, Selection
<1>5. /\ page' = p /\ asked' = 1 /\ sel' = q
      /\ view' = [s \in T |-> IF s \in A THEN Blank ELSE Idle]
      /\ calls' = MatchCalls(A, q, 1)
      /\ sent' = [s \in T |-> IF s \in A THEN 1 ELSE 0] /\ landed' = [s \in T |-> 0]
  BY <1>1, <1>2, <1>3 DEF OpenTab, Mounted, Requests, MatchCalls
<1>6. /\ \A d \in calls' : IsCall(d) /\ d.slot \in A /\ d.n = 1 /\ d.key = MatchKey(d.slot, q)
      /\ \A s \in A : \E d \in calls' : d.slot = s
  <2>1. PICK cs : cs = calls'
    OBVIOUS
  <2>2. PICK n : n = 1
    OBVIOUS
  <2>3. cs = MatchCalls(A, q, n)
    BY <1>5, <2>1, <2>2
  <2>4. /\ \A d \in cs : IsCall(d) /\ d.slot \in A /\ d.n = n /\ d.key = MatchKey(d.slot, q)
        /\ \A s \in A : \E d \in cs : d.slot = s
    BY <2>3, MatchCallsAre
  <2> QED BY <2>1, <2>2, <2>4
<1>7. /\ A \subseteq T
      /\ p = "match" => A = {"match"} /\ T = {"match", "top_players"}
      /\ p = "player_stats" => A = {"stats"} /\ T = {"stats"}
      /\ {"stats", "analysis", "players", "compared"} \cap T \subseteq A
      /\ p = "aim_tracking" => "graph" \in T
      /\ p = "head_to_head" => "compared" \in T
  BY <1>1, <1>2, FirstSlotsAre
<1>8. \A s \in T : Shape(view'[s]) /\ (view'[s].loading <=> s \in A) /\ view'[s].data = Nothing
  BY <1>5 DEF Blank, Idle, Shape
<1>9. Fetched'
  BY <1>5, <1>6, <1>7, <1>8 DEF Fetched
<1>10. ASSUME p = "match" PROVE MatchPageHeld'
  <2>1. MatchKey("match", q) = MatchParams(q)
    BY DEF MatchKey
  <2>2. \A d \in calls' : d.slot = "match" => d.key = MatchParams(q)
    BY <1>6, <2>1
  <2>3. landed'["match"] # sent'["match"] /\ \E d \in calls' : d.slot = "match"
    BY <1>5, <1>6, <1>7, <1>10
  <2>4. ~TopPlayersMounted'
    BY <1>7, <1>8, <1>10 DEF TopPlayersMounted, MatchShown, Returned
  <2> QED BY <1>5, <2>2, <2>3, <2>4 DEF MatchPageHeld
<1>11. OtherTabsFit'
  <2>1. \A d \in calls' : KeyFits(d.slot, d.key, q)
    BY <1>6, OwnKeyFits
  <2> QED BY <1>5, <1>8, <2>1 DEF OtherTabsFit
<1>12. OtherTabsAwaited'
  <2>1. \A s \in T \cap {"stats", "analysis", "players", "compared"} : \E d \in calls' : d.slot = s
    BY <1>6, <1>7
  <2>2. ASSUME p = "player_stats" PROVE StatsFollow'
    <3>1. IsStatsKey(MatchKey("stats", q))
      BY <1>4 DEF IsStatsKey, MatchKey, PlayerParams
    <3>2. \A d \in calls' : IsStatsKey(d.key)
      BY <1>6, <1>7, <2>2, <3>1
    <3> QED BY <1>7, <1>8, <2>2, <3>2 DEF StatsFollow, IsStatsKey
  <2>3. p = "head_to_head" => calls' # {}
    BY <1>7, <2>1
  <2>4. p = "aim_tracking" => view'["graph"].data = Nothing
    BY <1>7, <1>8
  <2>5. DOMAIN view' = T
    BY <1>5
  <2> QED BY <1>5, <2>1, <2>2, <2>3, <2>4, <2>5 DEF OtherTabsAwaited
<1>13. DOMAIN view' = SlotsOf(page')
  BY <1>1, <1>5
<1> QED BY <1>4, <1>5, <1>9, <1>10, <1>11, <1>12, <1>13 DEF MatchHeld

LEMMA MatchAnswersHeld ==
  ASSUME page \in MatchPages, MatchHeld, NEW c \in calls, MatchAnswered(c)
  PROVE  MatchHeld' /\ page' = page
<1>1. c.slot \in SlotsOf(page) /\ DOMAIN view = SlotsOf(page) /\ roster' = roster
  BY DEF MatchHeld, Fetched, MatchAnswered
<1>2. CASE c.slot = "match"
  <2>1. MatchGot(c) /\ UNCHANGED matchExtras
    BY <1>1, <1>2 DEF MatchAnswered, matchExtras
  <2>2. page = "match"
    BY <1>1, <1>2, MatchSlotsAre
  <2> QED BY <1>2, <2>1, <2>2, MatchLands
<1>3. CASE c.slot = "top_players"
  <2>1. TopPlayersGot(c) /\ UNCHANGED matchExtras
    BY <1>1, <1>3 DEF MatchAnswered, matchExtras
  <2>2. page = "match"
    BY <1>1, <1>3, MatchSlotsAre
  <2> QED BY <1>3, <2>1, <2>2, TopPlayersLand
<1>4. CASE c.slot \in {"stats", "analysis"}
  <2>1. PICK s : s = c.slot
    OBVIOUS
  <2>2. TabFetched(s, c)
    BY <1>4, <2>1 DEF MatchAnswered, StatsGot, AnalysisGot
  <2> QED BY <1>1, <1>4, <2>1, <2>2, TabFetchedHeld
<1>5. CASE c.slot = "players"
  <2>1. PlayersGot(c)
    BY <1>5 DEF MatchAnswered
  <2>2. page = "aim_tracking"
    BY <1>1, <1>5, MatchSlotsAre
  <2> QED BY <1>5, <2>1, <2>2, PlayersLand
<1>6. CASE c.slot \in {"aim_stats", "guns", "graph"}
  <2>1. /\ \/ c.slot = "aim_stats" /\ AimStatsGot(c)
           \/ c.slot = "guns" /\ GunsGot(c)
           \/ c.slot = "graph" /\ GraphGot(c)
        /\ UNCHANGED sel
    BY <1>6 DEF MatchAnswered
  <2>2. page = "aim_tracking"
    BY <1>1, <1>6, MatchSlotsAre
  <2> QED BY <2>1, <2>2, AimLands
<1>7. CASE c.slot = "compared"
  <2>1. ComparedGot(c)
    BY <1>7 DEF MatchAnswered
  <2>2. page = "head_to_head"
    BY <1>1, <1>7, MatchSlotsAre
  <2> QED BY <1>7, <2>1, <2>2, ComparedLands
<1>8. CASE c.slot \in {"player1", "player2"}
  <2>1. ComparedPlayerGot(c)
    BY <1>8 DEF MatchAnswered
  <2>2. page = "head_to_head"
    BY <1>1, <1>8, MatchSlotsAre
  <2> QED BY <1>8, <2>1, <2>2, ComparedPlayerLands
<1>9. c.slot \in {"match", "top_players", "stats", "analysis", "players", "aim_stats", "guns",
                  "graph", "compared", "player1", "player2"}
  BY <1>1, MatchSlotsAre
<1> QED BY <1>2, <1>3, <1>4, <1>5, <1>6, <1>7, <1>8, <1>9

LEMMA MatchFailuresHeld ==
  ASSUME page \in MatchPages, MatchHeld, NEW c \in calls, MatchRequestFailed(c)
  PROVE  MatchHeld' /\ page' = page
<1>1. c.slot \in SlotsOf(page) /\ DOMAIN view = SlotsOf(page) /\ roster' = roster
  BY DEF MatchHeld, Fetched, MatchRequestFailed
<1>2. CASE c.slot = "match"
  <2>1. MatchFailed(c) /\ UNCHANGED matchExtras
    BY <1>1, <1>2 DEF MatchRequestFailed, matchExtras
  <2>2. page = "match"
    BY <1>1, <1>2, MatchSlotsAre
  <2> QED BY <1>2, <2>1, <2>2, MatchLands
<1>3. CASE c.slot = "top_players"
  <2>1. TopPlayersFailed(c) /\ UNCHANGED matchExtras
    BY <1>1, <1>3 DEF MatchRequestFailed, matchExtras
  <2>2. page = "match"
    BY <1>1, <1>3, MatchSlotsAre
  <2> QED BY <1>3, <2>1, <2>2, TopPlayersLand
<1>4. CASE c.slot \in {"stats", "analysis"}
  <2>1. PICK s : s = c.slot
    OBVIOUS
  <2>2. Land(c) /\ view' = [view EXCEPT ![s] = Failed(@)] /\ UNCHANGED matchExtras
    BY <1>1, <1>4, <2>1 DEF MatchRequestFailed, StatsFailed, AnalysisFailed, matchExtras
  <2> QED BY <1>1, <1>4, <2>1, <2>2, TabFailureHeld
<1>5. CASE c.slot = "players"
  <2>1. PlayersFailed(c) /\ UNCHANGED sel
    BY <1>5 DEF MatchRequestFailed, PlayersFailed
  <2>2. page = "aim_tracking"
    BY <1>1, <1>5, MatchSlotsAre
  <2> QED BY <1>5, <2>1, <2>2, PlayersLand
<1>6. CASE c.slot \in {"aim_stats", "guns", "graph"}
  <2>1. AimFailed(c) /\ UNCHANGED sel
    BY <1>6 DEF MatchRequestFailed
  <2>2. page = "aim_tracking"
    BY <1>1, <1>6, MatchSlotsAre
  <2> QED BY <1>6, <2>1, <2>2, AimLands
<1>7. CASE c.slot = "compared"
  <2>1. ComparedFailed(c)
    BY <1>7 DEF MatchRequestFailed
  <2>2. page = "head_to_head"
    BY <1>1, <1>7, MatchSlotsAre
  <2> QED BY <1>7, <2>1, <2>2, ComparedLands
<1>8. CASE c.slot \in {"player1", "player2"}
  <2>1. ComparedPlayerFailed(c)
    BY <1>8 DEF MatchRequestFailed
  <2>2. page = "head_to_head"
    BY <1>1, <1>8, MatchSlotsAre
  <2> QED BY <1>8, <2>1, <2>2, ComparedPlayerLands
<1>9. c.slot \in {"match", "top_players", "stats", "analysis", "players", "aim_stats", "guns",
                  "graph", "compared", "player1", "player2"}
  BY <1>1, MatchSlotsAre
<1> QED BY <1>2, <1>3, <1>4, <1>5, <1>6, <1>7, <1>8, <1>9

\* What the user does on the statistics and the analysis.
LEMMA TabRequestsHeld ==
  ASSUME page \in MatchPages, MatchHeld,
         \/ \E player \in Players : HandleStatsPlayer(player)
         \/ RetryStats
         \/ \E player \in Players \cup {""}, round \in Rounds \cup {Unlimited} :
              HandleAnalysisFilters(player, round)
         \/ RetryAnalysis
  PROVE  MatchHeld' /\ page' = page
<1>1. IsSel(sel) /\ sel.first \in BOOLEAN /\ DOMAIN view = SlotsOf(page)
  BY DEF MatchHeld
<1>2. ASSUME NEW player \in Players, HandleStatsPlayer(player) PROVE MatchHeld' /\ page' = page
  <2>1. PICK q : q = [sel EXCEPT !.player = player]
    OBVIOUS
  <2>2. IsSel(q) /\ q.first = sel.first
    BY <1>1, <2>1, PlayerSelected
  <2>3. sel' = q /\ TabFetch("stats", q) /\ roster' = roster /\ page = "player_stats"
    BY <1>2, <2>1 DEF HandleStatsPlayer
  <2>4. "stats" \in DOMAIN view
    BY <1>1, <2>3, MatchSlotsAre
  <2> QED BY <1>1, <2>2, <2>3, <2>4, TabFetchHeld
<1>3. ASSUME NEW player, NEW round, HandleAnalysisFilters(player, round) PROVE MatchHeld' /\ page' = page
  <2>1. PICK q : q = [sel EXCEPT !.player = player, !.round = round]
    OBVIOUS
  <2>2. IsSel(q) /\ q.first = sel.first
    BY <1>1, <2>1, RoundSelected
  <2>3. sel' = q /\ TabFetch("analysis", q) /\ roster' = roster /\ page = "match_utility"
    BY <1>3, <2>1 DEF HandleAnalysisFilters
  <2>4. "analysis" \in DOMAIN view
    BY <1>1, <2>3, MatchSlotsAre
  <2> QED BY <1>1, <2>2, <2>3, <2>4, TabFetchHeld
<1>4. ASSUME RetryStats \/ RetryAnalysis PROVE MatchHeld' /\ page' = page
  <2>1. PICK r : r = [sel EXCEPT !.first = FALSE]
    OBVIOUS
  <2>2. r.first = FALSE /\ r.player = sel.player /\ r.round = sel.round
    BY <1>1, <2>1, FirstOver
  <2>3. PICK s : \/ s = "stats" /\ page = "player_stats" /\ TabFetch(s, r)
                 \/ s = "analysis" /\ page = "match_utility" /\ TabFetch(s, r)
    BY <1>4, <2>1 DEF RetryStats, RetryAnalysis
  <2>4. PICK q : q = sel
    OBVIOUS
  <2>5. sel' = q /\ roster' = roster
    BY <1>4, <2>4 DEF RetryStats, RetryAnalysis, matchExtras
  <2>6. s \in {"stats", "analysis"} /\ s \in DOMAIN view
    BY <1>1, <2>3, MatchSlotsAre
  <2> QED BY <1>1, <2>2, <2>3, <2>4, <2>5, <2>6, TabFetchHeld
<1> QED BY <1>2, <1>3, <1>4

LEMMA MatchGoesOn ==
  ASSUME page \in MatchPages, MatchHeld, MatchNext
  PROVE  MatchHeld' /\ page' \in MatchPages
<1>1. ASSUME NEW id, GoTo(id) PROVE MatchHeld' /\ page' = page
  BY <1>1, GoToHeld
<1>2. ASSUME OpenTopPlayer PROVE MatchHeld' /\ page' \in MatchPages
  <2>1. PICK t \in {"player_stats", "match_utility"}, player \in roster :
          OpenTab(t, view["top_players"].data.key.id, player)
    BY <1>2 DEF OpenTopPlayer
  <2>2. t \in MatchPages
    BY DEF MatchPages
  <2> QED BY <2>1, <2>2, MatchTabOpened
<1>3. ASSUME NEW t \in MatchPages, HandleTabChange(t) PROVE MatchHeld' /\ page' \in MatchPages
  <2>1. OpenTab(t, sel.id, "")
    BY <1>3 DEF HandleTabChange
  <2> QED BY <2>1, MatchTabOpened
<1>4. ASSUME \/ \E player \in Players : HandleStatsPlayer(player)
             \/ RetryStats
             \/ \E player \in Players \cup {""}, round \in Rounds \cup {Unlimited} :
                  HandleAnalysisFilters(player, round)
             \/ RetryAnalysis
      PROVE  MatchHeld' /\ page' = page
  BY <1>4, TabRequestsHeld
<1>5. ASSUME RetryAim PROVE MatchHeld' /\ page' = page
  BY <1>5, RetryAimHeld
<1>6. ASSUME NEW player, HandleAimPlayer(player) PROVE MatchHeld' /\ page' = page
  BY <1>6, AimPlayerHeld
<1>7. ASSUME NEW gun, SelectGun(gun) PROVE MatchHeld' /\ page' = page
  BY <1>7, SelectGunHeld
<1>8. ASSUME NEW s \in {"player1", "player2"}, NEW player, HandlePlayerChange(s, player)
      PROVE  MatchHeld' /\ page' = page
  BY <1>8, PlayerChangeHeld
<1>9. ASSUME NEW c \in calls, MatchAnswered(c) PROVE MatchHeld' /\ page' = page
  BY <1>9, MatchAnswersHeld
<1>10. ASSUME NEW c \in calls, MatchRequestFailed(c) PROVE MatchHeld' /\ page' = page
  BY <1>10, MatchFailuresHeld
<1> QED BY <1>1, <1>2, <1>3, <1>4, <1>5, <1>6, <1>7, <1>8, <1>9, <1>10 DEF MatchNext

-----------------------------------------------------------------------------
(* All the pages.                                                          *)

\* Every mounted page is held by the invariant of its kind, and no button of a
\* clan page waits elsewhere.
FrontEndInv == /\ page \in DashboardPages => DashboardsHeld
               /\ page \in MatchPages => MatchHeld
               /\ ClanInv
               /\ GrenadesInv

\* The kinds of pages.
LEMMA PagesApart ==
  /\ NoPage \notin DashboardPages /\ NoPage \notin MatchPages
  /\ NoPage \notin ClanPageNames /\ NoPage \notin GrenadePageNames
  /\ \A p \in DashboardPages : p \notin MatchPages /\ p \notin ClanPageNames /\ p \notin GrenadePageNames
  /\ \A p \in MatchPages : p \notin DashboardPages /\ p \notin ClanPageNames /\ p \notin GrenadePageNames
  /\ \A p \in ClanPageNames : p \notin DashboardPages /\ p \notin MatchPages /\ p \notin GrenadePageNames
  /\ \A p \in GrenadePageNames : p \notin DashboardPages /\ p \notin MatchPages /\ p \notin ClanPageNames
BY DEF NoPage, DashboardPages, MatchPages, ClanPageNames, GrenadePageNames

\* A page of one kind, whose invariant holds, while nothing waits on a clan page.
LEMMA PageOfKind ==
  ASSUME NEW p, page' = p,
         \/ p = NoPage /\ busy' = {}
         \/ p \in DashboardPages /\ DashboardsHeld' /\ busy' = {}
         \/ p \in MatchPages /\ MatchHeld' /\ busy' = {}
         \/ p \in ClanPageNames /\ ClanHeld'
         \/ p \in GrenadePageNames /\ GrenadesHeld' /\ busy' = {}
  PROVE  FrontEndInv'
BY PagesApart DEF FrontEndInv, ClanInv, GrenadesInv

LEMMA FrontEndGiven == FrontEndInv => PagesShowSelection /\ LoadingEnds /\ StarsRemovable
BY DashboardsGiven, MatchGiven, ClanGiven, GrenadesGiven
   DEF FrontEndInv, PagesShowSelection, LoadingEnds

LEMMA FrontEndStarts == FrontEndInit => FrontEndInv
<1>1. FrontEndInit => page = NoPage /\ busy = {}
  BY DEF FrontEndInit, NoClan
<1> QED BY <1>1, PagesApart DEF FrontEndInv, ClanInv, GrenadesInv

LEMMA FrontEndStays ==
  ASSUME FrontEndInv, UNCHANGED frontEndVars
  PROVE  FrontEndInv'
<1> USE DEF frontEndVars, fetchVars, dashboardExtras, matchExtras, clanPageExtras, grenadeExtras
<1>1. DashboardsHeld => DashboardsHeld'
  BY DEF DashboardsHeld, Fetched, TabsFit, TabsAwaited
<1>2. MatchHeld => MatchHeld'
  <2>1. Fetched' = Fetched /\ MatchPageHeld' = MatchPageHeld
    BY DEF Fetched, MatchPageHeld, TopPlayersMounted, MatchShown, Returned
  <2>2. OtherTabsFit' = OtherTabsFit /\ OtherTabsAwaited' = OtherTabsAwaited
    BY DEF OtherTabsFit, OtherTabsAwaited, StatsFollow
  <2> QED BY <2>1, <2>2 DEF MatchHeld
<1>3. ClanHeld => ClanHeld'
  BY DEF ClanHeld, Fetched, PartsAwaited, ButtonsAwaited, PickFits
<1>4. GrenadesHeld => GrenadesHeld'
  <2>1. Fetched' = Fetched /\ Grenades' = Grenades
    BY DEF Fetched, Grenades
  <2>2. LoadsFilters' = LoadsFilters
    BY <2>1 DEF LoadsFilters
  <2>3. LoadAwaited' = LoadAwaited /\ StarsAwaited' = StarsAwaited
    BY <2>1 DEF LoadAwaited, StarsAwaited, Current
  <2> QED BY <2>1, <2>2, <2>3 DEF GrenadesHeld
<1> QED BY <1>1, <1>2, <1>3, <1>4 DEF FrontEndInv, ClanInv, GrenadesInv

LEMMA FrontEndGoesOn ==
  ASSUME FrontEndInv, FrontEndNext
  PROVE  FrontEndInv'
<1>1. CASE LeavePage
  BY <1>1, PageOfKind DEF LeavePage, LeaveClan
<1>2. CASE OpenPage
  <2>1. busy = {}
    BY <1>2, PagesApart DEF OpenPage, FrontEndInv, ClanInv
  <2>2. ASSUME NEW p \in DashboardPages, OpensDashboard(p) PROVE FrontEndInv'
    <3>1. busy' = {} /\ DashboardsHeld' /\ page' \in DashboardPages
      BY <2>1, <2>2, DashboardOpened DEF OpensDashboard, clanPageExtras
    <3> QED BY <3>1, PageOfKind
  <2>3. ASSUME NEW p \in MatchPages, OpensMatch(p) PROVE FrontEndInv'
    <3>1. PICK id \in Matches, player \in Players \cup {""} : OpenTab(p, id, player)
      BY <2>3 DEF OpensMatch
    <3>2. busy' = {}
      BY <2>1, <2>3 DEF OpensMatch, clanPageExtras
    <3>3. MatchHeld' /\ page' \in MatchPages
      BY <3>1, MatchTabOpened
    <3> QED BY <3>2, <3>3, PageOfKind
  <2>4. ASSUME NEW p \in ClanPageNames, OpensClan(p) PROVE FrontEndInv'
    <3>1. ClanHeld' /\ page' \in ClanPageNames
      BY <2>4, ClanPageOpened DEF OpensClan
    <3> QED BY <3>1, PageOfKind
  <2>5. ASSUME NEW p \in GrenadePageNames, OpensGrenades(p) PROVE FrontEndInv'
    <3>1. busy' = {} /\ GrenadesHeld'
      BY <2>1, <2>5, GrenadesOpened DEF OpensGrenades, clanPageExtras
    <3>2. page' = p
      BY <2>5 DEF OpensGrenades, OpenGrenades, Mounted
    <3> QED BY <3>1, <3>2, PageOfKind
  <2> QED BY <1>2, <2>2, <2>3, <2>4, <2>5 DEF OpenPage
<1>3. CASE page \in DashboardPages /\ DashboardsNext /\ UNCHANGED <<matchExtras, clanPageExtras, grenadeExtras>>
  <2>1. busy' = {} /\ DashboardsHeld
    BY <1>3, PagesApart DEF FrontEndInv, ClanInv, clanPageExtras
  <2>2. DashboardsHeld' /\ page' \in DashboardPages
    BY <1>3, <2>1, DashboardsGoOn
  <2> QED BY <2>1, <2>2, PageOfKind
<1>4. CASE page \in MatchPages /\ MatchNext /\ UNCHANGED <<dashboardExtras, clanPageExtras, grenadeExtras>>
  <2>1. busy' = {} /\ MatchHeld
    BY <1>4, PagesApart DEF FrontEndInv, ClanInv, clanPageExtras
  <2>2. MatchHeld' /\ page' \in MatchPages
    BY <1>4, <2>1, MatchGoesOn
  <2> QED BY <2>1, <2>2, PageOfKind
<1>5. CASE page \in ClanPageNames /\ ClanPagesNext /\ UNCHANGED <<dashboardExtras, matchExtras, grenadeExtras>>
  <2>1. ClanHeld' /\ page' \in ClanPageNames
    BY <1>5, ClanGoesOn DEF FrontEndInv, ClanInv
  <2> QED BY <2>1, PageOfKind
<1>6. CASE page \in GrenadePageNames /\ GrenadesNext /\ UNCHANGED <<dashboardExtras, matchExtras, clanPageExtras>>
  <2>1. busy' = {} /\ GrenadesHeld
    BY <1>6, PagesApart DEF FrontEndInv, ClanInv, GrenadesInv, clanPageExtras
  <2>2. GrenadesHeld' /\ page' = page
    BY <1>6, <2>1, GrenadesGoOn
  <2> QED BY <1>6, <2>1, <2>2, PageOfKind
<1> QED BY <1>1, <1>2, <1>3, <1>4, <1>5, <1>6 DEF FrontEndNext

LEMMA FrontEndHeld == FrontEndSpec => []FrontEndInv
<1>1. FrontEndInv /\ [FrontEndNext]_frontEndVars => FrontEndInv'
  BY FrontEndGoesOn, FrontEndStays
<1> QED BY <1>1, FrontEndStarts, PTL DEF FrontEndSpec

\* Whenever nothing is on its way to a part of a page, and the answer to its last
\* request came last, the part shows what is selected: after any selections, tab
\* changes and answers of the effects that fetch (the tabs under
\* components/dashboard and match-detail, the clan pages, use-grenade-library.tsx).
THEOREM SelectionShown == FrontEndSpec => []PagesShowSelection
BY FrontEndHeld, FrontEndGiven, PTL

\* Whatever says that it is loading waits for an answer, though no request is
\* cancelled and each of its answers sets the state, success or failure.
THEOREM SkeletonsEnd == FrontEndSpec => []LoadingEnds
BY FrontEndHeld, FrontEndGiven, PTL

\* Every grenade with a star in the list can lose it: the list knows the id of
\* the favourite that is to be deleted, however the answers of older lists,
\* checks and toggles come in (use-grenade-library.tsx, grenade-list.tsx).
THEOREM StarsTaken == FrontEndSpec => []StarsRemovable
BY FrontEndHeld, FrontEndGiven, PTL
=============================================================================
