------------------------------- MODULE FrontEnd -------------------------------
(***************************************************************************)
(* The pages of the front end under their router: the statistics, a match  *)
(* with its tabs, a clan with its tabs, and the grenades.  A page is left  *)
(* for any other, at any time, by a link or an address; its state and its  *)
(* requests are gone then.                                                 *)
(***************************************************************************)
EXTENDS Dashboards, MatchTabs, ClanPages, GrenadePages

NoPage == "none"  \* between two pages
frontEndVars == <<fetchVars, dashboardExtras, matchExtras, clanPageExtras, grenadeExtras>>

\* The state of pages that are not mounted, and of a server that is not asked.
NoDashboard == /\ filters = DashboardFilters /\ weapon = All /\ rankMap = ""
NoMatch == /\ sel = Selection("", "") /\ roster = {}
NoClan == /\ pick = FirstPick /\ dialog = NoDialog /\ busy = {}
          /\ link = 0 /\ owner = User
NoGrenades == /\ provider = FirstProvider("library") /\ list = EmptyList /\ kept = {}

LeaveDashboard == /\ filters' = DashboardFilters /\ weapon' = All /\ rankMap' = ""
LeaveMatch == /\ sel' = Selection("", "") /\ roster' = {}
LeaveClan == /\ pick' = FirstPick /\ dialog' = NoDialog /\ busy' = {}
             /\ link' = 0 /\ owner' = User
LeaveGrenades == /\ provider' = FirstProvider("library") /\ list' = EmptyList /\ kept' = {}

FrontEndInit == /\ page = NoPage /\ view = <<>> /\ calls = {} /\ asked = 0
                /\ sent = <<>> /\ landed = <<>>
                /\ NoDashboard /\ NoMatch /\ NoClan /\ NoGrenades

-----------------------------------------------------------------------------
(* The routes: a page is unmounted, and another mounted, of the same match *)
(* or clan or another one.                                                 *)

LeavePage ==
    /\ page # NoPage /\ page' = NoPage
    /\ view' = <<>> /\ calls' = {} /\ asked' = 0 /\ sent' = <<>> /\ landed' = <<>>
    /\ LeaveDashboard /\ LeaveMatch /\ LeaveClan /\ LeaveGrenades

OpensDashboard(p) ==
    OpenDashboard(p) /\ UNCHANGED <<matchExtras, clanPageExtras, grenadeExtras>>
OpensMatch(p) ==
    /\ roster' \in Rosters
    /\ \E id \in Matches, player \in Players \cup {""} :
         /\ player = "" \/ p \in {"player_stats", "match_utility"}
         /\ OpenTab(p, id, player)
    /\ UNCHANGED <<dashboardExtras, clanPageExtras, grenadeExtras>>
OpensClan(p) ==
    /\ OpenClanPage(p) /\ owner' \in Members
    /\ UNCHANGED <<link, dashboardExtras, matchExtras, grenadeExtras>>
OpensGrenades(p) ==
    /\ OpenGrenades(p) /\ kept' \in {{}, Lineups}
    /\ UNCHANGED <<dashboardExtras, matchExtras, clanPageExtras>>
OpenPage ==
    /\ page = NoPage
    /\ \/ \E p \in DashboardPages : OpensDashboard(p)
       \/ \E p \in MatchPages : OpensMatch(p)
       \/ \E p \in ClanPageNames : OpensClan(p)
       \/ \E p \in GrenadePageNames : OpensGrenades(p)

FrontEndNext ==
    \/ LeavePage
    \/ OpenPage
    \/ /\ page \in DashboardPages /\ DashboardsNext
       /\ UNCHANGED <<matchExtras, clanPageExtras, grenadeExtras>>
    \/ /\ page \in MatchPages /\ MatchNext
       /\ UNCHANGED <<dashboardExtras, clanPageExtras, grenadeExtras>>
    \/ /\ page \in ClanPageNames /\ ClanPagesNext
       /\ UNCHANGED <<dashboardExtras, matchExtras, grenadeExtras>>
    \/ /\ page \in GrenadePageNames /\ GrenadesNext
       /\ UNCHANGED <<dashboardExtras, matchExtras, clanPageExtras>>

FrontEndSpec == FrontEndInit /\ [][FrontEndNext]_frontEndVars
-----------------------------------------------------------------------------
(* What must be true of every page.                                        *)

\* When nothing is on its way to a part of a page, and the answer to its last
\* request came last, it shows what is selected: no selection of the user, of a
\* default or of an earlier answer is missed by a part it concerns.  (A late
\* answer of an older selection is excepted: it is shown, and stays.)
PagesShowSelection == /\ TabsShowSelection /\ MatchTabsShowSelection
                      /\ ClanPagesShowSelection /\ GrenadesShowFilters

\* What says that it is loading waits for an answer, whatever failed, was
\* selected, repeated or left before.
LoadingEnds == /\ TabSkeletonsEnd /\ MatchSkeletonsEnd
               /\ ClanSkeletonsEnd /\ GrenadesLoadingEnds
=============================================================================
