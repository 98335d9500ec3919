------------------------------ MODULE Dashboards ------------------------------
(***************************************************************************)
(* The statistics pages: dashboard (summary and player statistics), aim    *)
(* (with the weapon list and hit distribution), utility, maps and ranks.   *)
(* Each keeps its filters and its tabs ask whenever the filters change.    *)
(***************************************************************************)
EXTENDS Fetching

CONSTANTS Periods,  \* what the date, match count and other filters select
          Maps,     \* the maps that have ranks
          Chosen,   \* bound: those a filter chooses
          Weapons   \* the weapons of the hit distribution

All == "all"  \* no map or weapon chosen

VARIABLES filters,   \* [period, map] of the page
          weapon,    \* selectedWeapon of the aim tab
          rankMap    \* selectedCompetitiveMap of the ranks tab
dashboardExtras == <<filters, weapon, rankMap>>
dashboardVars == <<fetchVars, dashboardExtras>>

DashboardPages == {"dashboard", "aim", "utility", "map_stats", "ranks"}
TabsOf(p) == CASE p = "dashboard" -> {"summary", "player_stats"}
               [] p = "aim"       -> {"aim", "weapons", "hits"}
               [] p = "utility"   -> {"utility_stats"}
               [] p = "map_stats" -> {"map_stats"}
               [] p = "ranks"     -> {"ranks"}

DashboardFilters == [period |-> CHOOSE d \in Periods : TRUE, map |-> All]

-----------------------------------------------------------------------------
(* What each tab asks the API for.                                         *)

\* A filter that is "all" is not sent.
ButAll(f) == [k \in {k \in DOMAIN f : f[k] # All} |-> f[k]]

SummaryParams(f) == ButAll(f)
PlayerStatsParams(f) == ButAll(f)
AimParams(f) == ButAll(f)
WeaponsParams(f) == ButAll(f)
HitsParams(f, w) == ButAll([period |-> f.period, map |-> f.map, weapon |-> w])
UtilityParams(f) == ButAll(f)
MapStatsParams(f) == ButAll(f)
RanksParams(f) == [period |-> f.period]

Params(s, f, w) ==
    CASE s = "summary" -> SummaryParams(f)       [] s = "player_stats" -> PlayerStatsParams(f)
      [] s = "aim" -> AimParams(f)               [] s = "weapons" -> WeaponsParams(f)
      [] s = "hits" -> HitsParams(f, w)          [] s = "utility_stats" -> UtilityParams(f)
      [] s = "map_stats" -> MapStatsParams(f)    [] s = "ranks" -> RanksParams(f)

\* What the API can answer: the maps or weapons of the rows, none if it has none;
\* ranks also of Premier or Faceit, which have no map.
Elsewhere == "premier or faceit"
Answers(s) == CASE s \in {"hits", "map_stats"} -> {{}, Maps}
                [] s = "ranks"   -> SUBSET (Maps \cup {Elsewhere})
                [] s = "weapons" -> {{}, Weapons}
                [] OTHER         -> {Maps}

-----------------------------------------------------------------------------
(* The state of a tab when it asks, gets an answer and fails.              *)

\* All set loading and clear the error, but the weapon list and the hit
\* distribution, which have no error.
TabStarts(s) == Starting(view[s])

TabGot(s, data) == Got(view[s], data)
\* an answer without fields is no hit distribution
HitsGot(data) == [view["hits"] EXCEPT !.loading = FALSE,
                                     !.data = IF data.rows = {} THEN Nothing ELSE data]

TabFailed(s) == Failed(view[s])
\* A wrong WeaponsFailed: the failure leaves it loading.
WeaponsFailedLoading == view["weapons"]
WeaponsFailed == [view["weapons"] EXCEPT !.loading = FALSE]
HitsFailed == [view["hits"] EXCEPT !.loading = FALSE, !.data = Nothing]

\* The ranks tab chooses the first map if the chosen one is not there (any map
\* can be the first).
RankedMaps(data) == data.rows \ {Elsewhere}
RankMaps(data) == IF RankedMaps(data) = {} \/ rankMap \in RankedMaps(data)
                  THEN {rankMap} ELSE RankedMaps(data)

-----------------------------------------------------------------------------
(* What the user sees.                                                     *)

\* The early returns all tabs begin with.
TabShown(s) == IF view[s].loading THEN "skeleton"
            ELSE IF view[s].error THEN "error"
            ELSE IF view[s].data = Nothing THEN "nothing"
            ELSE "content"
SummaryTabShown == TabShown("summary")
PlayerStatsTabShown == TabShown("player_stats")
UtilityTabShown == TabShown("utility_stats")
AimTabShown == TabShown("aim")
MapStatsTabShown == IF TabShown("map_stats") = "content" /\ view["map_stats"].data.rows = {}
                    THEN "nothing" ELSE TabShown("map_stats")
\* Ranks of any kind will do; those of maps have a card of their own.
RanksTabShown == IF TabShown("ranks") = "content" /\ view["ranks"].data.rows = {}
                 THEN "nothing" ELSE TabShown("ranks")
\* The ranks of the chosen map, which the tab looks up in what it got.
RanksOfMap == rankMap \in view["ranks"].data.rows
\* Inside the aim tab: the hit chart, or a note that there is none.
HitsShown == IF AimTabShown # "content" THEN AimTabShown
             ELSE IF view["hits"].loading THEN "skeleton"
             ELSE IF view["hits"].data = Nothing THEN "nothing" ELSE "content"
\* The weapon can be chosen in the hit chart only.
WeaponSelectable == HitsShown = "content" /\ ~view["weapons"].loading
                    /\ view["weapons"].data # Nothing

\* The map and game type cannot be chosen on the ranks page.
Selectable(p) == [period : Periods, map : IF p = "ranks" THEN {All} ELSE Chosen \cup {All}]

-----------------------------------------------------------------------------
DefaultKey(s) == Params(s, DashboardFilters, All)
OpenDashboard(p) ==
    /\ Mounted(p, TabsOf(p), TabsOf(p), DefaultKey)
    /\ filters' = DashboardFilters /\ weapon' = All /\ rankMap' = ""

DashboardsInit ==
    /\ page \in DashboardPages
    /\ view = [s \in TabsOf(page) |-> Blank]
    /\ calls = Requests(TabsOf(page), DefaultKey, 1)
    /\ asked = 1 /\ sent = [s \in TabsOf(page) |-> 1] /\ landed = [s \in TabsOf(page) |-> 0]
    /\ filters = DashboardFilters /\ weapon = All /\ rankMap = ""

\* A wrong HandleFilterChange: the hit distribution depends on the weapon only.
FilterChangeWithoutHits(f) == LET key(s) == Params(s, f, weapon) IN
    /\ page \in DashboardPages /\ MayAsk
    /\ filters' = f
    /\ Ask(TabsOf(page) \ {"hits"}, key)
    /\ view' = [s \in TabsOf(page) |-> IF s = "hits" THEN view[s] ELSE TabStarts(s)]
    /\ UNCHANGED <<page, landed, weapon, rankMap>>
\* The user changes a filter: a new filter object, and every tab asks again.
HandleFilterChange(f) == LET key(s) == Params(s, f, weapon) IN
    /\ page \in DashboardPages /\ MayAsk
    /\ filters' = f
    /\ Ask(TabsOf(page), key)
    /\ view' = [s \in TabsOf(page) |-> TabStarts(s)]
    /\ UNCHANGED <<page, landed, weapon, rankMap>>

\* The user chooses a weapon: the hit distribution asks again.
SelectWeapon(w) == LET key(s) == Params(s, filters, w) IN
    /\ page = "aim" /\ MayAsk /\ WeaponSelectable /\ w # weapon
    /\ w = All \/ w \in view["weapons"].data.rows
    /\ weapon' = w
    /\ Ask({"hits"}, key)
    /\ view' = [view EXCEPT !["hits"] = TabStarts("hits")]
    /\ UNCHANGED <<page, landed, filters, rankMap>>

\* The user chooses another map of the ranks.
SelectRankMap(m) ==
    /\ page = "ranks" /\ RanksTabShown = "content"
    /\ m \in RankedMaps(view["ranks"].data) /\ m # rankMap
    /\ rankMap' = m
    /\ UNCHANGED <<fetchVars, filters, weapon>>

\* The API answers request c, and the tab's effect on new data runs.
TabAnswered(c) ==
    /\ page \in DashboardPages /\ Land(c)
    /\ \E rows \in Answers(c.slot) : LET data == [key |-> c.key, rows |-> rows] IN
         /\ view' = [view EXCEPT ![c.slot] = IF c.slot = "hits" THEN HitsGot(data)
                                             ELSE TabGot(c.slot, data)]
         /\ IF c.slot = "ranks" THEN rankMap' \in RankMaps(data) ELSE UNCHANGED rankMap
    /\ UNCHANGED <<filters, weapon>>

\* Request c fails: refused, timed out or without a connection.
TabRequestFailed(c) ==
    /\ page \in DashboardPages
    /\ IF c.slot = "weapons" THEN LandUnseen(c) ELSE Land(c)
    /\ view' = [view EXCEPT ![c.slot] = CASE c.slot = "weapons" -> WeaponsFailed
                                          [] c.slot = "hits"    -> HitsFailed
                                          [] OTHER              -> TabFailed(c.slot)]
    /\ UNCHANGED dashboardExtras

DashboardsNext ==
    \/ \E p \in DashboardPages \ {page} : OpenDashboard(p)
    \/ page \in DashboardPages /\ \E f \in Selectable(page) : HandleFilterChange(f)
    \/ \E w \in Weapons \cup {All} : SelectWeapon(w)
    \/ \E m \in Maps : SelectRankMap(m)
    \/ \E c \in calls : TabAnswered(c)
    \/ \E c \in calls : TabRequestFailed(c)

DashboardsSpec == /\ DashboardsInit /\ [][DashboardsNext]_dashboardVars
                  /\ WF_dashboardVars(\E c \in calls : TabAnswered(c) \/ TabRequestFailed(c))
-----------------------------------------------------------------------------
(* What must be true of the tabs.                                          *)

\* Once everything asked is answered, in order, a tab shows what is selected:
\* no filter, weapon or map change is missed by a tab (no cancellation: a late
\* answer of an older selection is excepted, and then stays).
TabsShowSelection ==
    page \in DashboardPages =>
        \A s \in DOMAIN view : Settled(s) /\ TabShown(s) = "content" =>
            view[s].data.key = Params(s, filters, weapon)

\* The ranks tab never shows the chart of a map it has no ranks of, although
\* the map was chosen among those of an earlier answer (ranks-tab.tsx:216).
ChosenRankExists == page = "ranks" /\ RanksTabShown = "content" /\ RankedMaps(view["ranks"].data) # {}
                        => RanksOfMap

\* A skeleton is shown only while a request is under way.
TabSkeletonsEnd ==
    page \in DashboardPages => \A s \in DOMAIN view : view[s].loading => Pending(s) # {}
=============================================================================
