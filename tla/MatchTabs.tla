------------------------------- MODULE MatchTabs -------------------------------
(***************************************************************************)
(* The page of a match and its tabs: the match with its best players, the  *)
(* player statistics, the utility analysis, the aim tracking with its hit  *)
(* graph, and the comparison of two players.  A tab is a page of its own   *)
(* here: the match it belongs to does not change while it is open.         *)
(***************************************************************************)
EXTENDS Fetching

CONSTANTS Matches,  \* the matches whose pages are opened
          Players,  \* the players of a match
          Me,       \* the user, who may have played it
          Rounds,   \* the rounds that can be chosen
          Guns      \* the weapons of the hit graph

Unlimited == "all"  \* all rounds, all weapons

\* sel: what is chosen on the page.  first is initialLoad of its tab.
VARIABLES sel, roster  \* roster: the players the API knows of the match
matchExtras == <<sel, roster>>
matchVars == <<fetchVars, matchExtras>>

MatchPages == {"match", "player_stats", "match_utility", "aim_tracking", "head_to_head"}
SlotsOf(p) == CASE p = "match"        -> {"match", "top_players"}
                [] p = "player_stats" -> {"stats"}
                [] p = "match_utility"      -> {"analysis"}
                [] p = "aim_tracking" -> {"players", "aim_stats", "guns", "graph"}
                [] p = "head_to_head" -> {"compared", "player1", "player2"}
\* the slots that ask when the tab is mounted; the others wait for their answer
FirstSlots(p) == CASE p = "match"        -> {"match"}
                   [] p = "player_stats" -> {"stats"}
                   [] p = "match_utility"      -> {"analysis"}
                   [] p = "aim_tracking" -> {"players"}
                   [] p = "head_to_head" -> {"compared"}

Rosters == {{}, Players, Players \ {Me}}
\* useState of the tab, with the player the URL names ("" if it names none)
Selection(id, player) ==
    [id |-> id, first |-> TRUE, player |-> player, rival |-> "", round |-> Unlimited, gun |-> Unlimited]
\* the user if the list has him, or else the first of the list
DefaultPlayers == IF Me \in roster THEN {Me} ELSE roster

\* The first selection is made by the tab itself: the bound counts from there.
MayChoose == asked <= MaxAsked

-----------------------------------------------------------------------------
(* What the slots ask for, given the selection.                            *)

MatchParams(q) == [id |-> q.id]
PlayerParams(q) == [player |-> q.player, initial |-> q.first]
UtilityTabParams(q) == [player |-> q.player, round |-> q.round, initial |-> q.first]
AimStatsParams(q) == [player |-> q.player]
GraphParams(q) == [player |-> q.player, gun |-> q.gun]
MatchKey(s, q) ==
    CASE s \in {"match", "top_players"} -> MatchParams(q)
      [] s = "stats"    -> PlayerParams(q)     [] s = "analysis" -> UtilityTabParams(q)
      [] s = "players"  -> MatchParams(q)
      [] s = "aim_stats" -> AimStatsParams(q)  [] s = "guns" -> AimStatsParams(q)
      [] s = "graph"    -> GraphParams(q)
      [] s = "compared" -> MatchParams(q)
      [] s = "player1"  -> [player |-> q.player]
      [] s = "player2"  -> [player |-> q.rival]

OpenTab(p, id, player) == LET key(s) == MatchKey(s, Selection(id, player)) IN
    /\ Mounted(p, SlotsOf(p), FirstSlots(p), key)
    /\ sel' = Selection(id, player)

MatchInit ==
    /\ page \in MatchPages
    /\ roster \in Rosters
    /\ \E id \in Matches, player \in Players \cup {""} :
         /\ player = "" \/ page \in {"player_stats", "match_utility"}
         /\ sel = Selection(id, player)
    /\ view = [s \in SlotsOf(page) |-> IF s \in FirstSlots(page) THEN Blank ELSE Idle]
    /\ calls = {[slot |-> s, key |-> MatchKey(s, sel), n |-> 1] : s \in FirstSlots(page)}
    /\ asked = 1
    /\ sent = [s \in SlotsOf(page) |-> IF s \in FirstSlots(page) THEN 1 ELSE 0]
    /\ landed = [s \in SlotsOf(page) |-> 0]

-----------------------------------------------------------------------------
(* The match and its best players.                                         *)

Returned(s) == IF view[s].loading THEN "skeleton"
               ELSE IF view[s].error THEN "error"
               ELSE IF view[s].data = Nothing THEN "nothing" ELSE "content"
MatchShown == Returned("match")
\* The best players are mounted with the match.
TopPlayersMounted == MatchShown = "content" /\ view["match"].data.parsed /\ roster # {}
TopPlayersShown == IF TopPlayersMounted THEN Returned("top_players") ELSE "none"
\* the tabs are there once the match is parsed
TabsShown == IF page = "match" THEN MatchShown = "content" /\ view["match"].data.parsed ELSE TRUE

\* What they still wait for when the match is reloaded lands nowhere.
ButTopPlayers(cs) == {c \in cs : c.slot # "top_players"}

\* Another match's URL while the page is mounted: the link in the error of a
\* match uploaded before, or back from it.
GoTo(id) == LET q == [sel EXCEPT !.id = id]
                key(s) == MatchKey(s, q) IN
    /\ page = "match" /\ MayChoose /\ id # sel.id
    /\ sel' = q
    /\ view' = [view EXCEPT !["match"].loading = TRUE]
    /\ asked' = asked + 1 /\ sent' = SentBy({"match"}, asked + 1)
    /\ calls' = ButTopPlayers(calls) \cup Requests({"match"}, key, asked + 1)
    /\ UNCHANGED <<page, landed, roster>>

\* An answer shows its match, also a late one; the best players ask when they
\* are mounted, and anew for a match of another id.
MatchGot(c) == \E parsed \in BOOLEAN :
    LET m == [key |-> c.key, parsed |-> parsed]
        shown == [view EXCEPT !["match"] = [loading |-> FALSE, error |-> FALSE, data |-> m]]
        key(s) == c.key
    IN IF ~parsed \/ roster = {}
       THEN /\ calls' = ButTopPlayers(calls) \ {c}
            /\ landed' = [landed EXCEPT !["match"] = c.n]
            /\ view' = shown /\ UNCHANGED <<page, asked, sent>>
       ELSE IF ~TopPlayersMounted
       THEN /\ LandThenAsk(c, {"top_players"}, key)
            /\ view' = [shown EXCEPT !["top_players"] = Blank]
       ELSE IF view["match"].data.key # c.key
       THEN /\ LandThenAsk(c, {"top_players"}, key)
            /\ view' = [shown EXCEPT !["top_players"] = Starting(@)]
       ELSE Land(c) /\ view' = shown
MatchFailed(c) ==
    /\ calls' = ButTopPlayers(calls) \ {c}
    /\ landed' = [landed EXCEPT !["match"] = c.n]
    /\ view' = [view EXCEPT !["match"] = Failed(@)]
    /\ UNCHANGED <<page, asked, sent>>

TopPlayersGot(c) == Land(c) /\ view' = [view EXCEPT !["top_players"] = Got(@, [key |-> c.key])]
TopPlayersFailed(c) == Land(c) /\ view' = [view EXCEPT !["top_players"] = Failed(@)]

\* A card of the best players, and the tabs themselves.
OpenTopPlayer == /\ TopPlayersShown = "content"
                 /\ \E t \in {"player_stats", "match_utility"}, player \in roster :
                      OpenTab(t, view["top_players"].data.key.id, player)
                 /\ UNCHANGED roster
HandleTabChange(t) == TabsShown /\ t # page /\ OpenTab(t, sel.id, "") /\ UNCHANGED roster

-----------------------------------------------------------------------------
(* The player statistics.                                                  *)

NoPlayers == view["stats"].data # Nothing /\ roster = {}
StatsShown == IF NoPlayers THEN "no players"
              ELSE IF view["stats"].loading /\ sel.first THEN "skeleton"
              ELSE IF view["stats"].error THEN "error"
              ELSE IF view["stats"].data = Nothing THEN "nothing"
              ELSE IF view["stats"].data.key.player = "" THEN "skeleton" ELSE "content"

\* fetchData(first) with the selection q, of the statistics or the analysis.
TabFetch(s, q) == LET key(t) == MatchKey(t, q) IN
    /\ Ask({s}, key)
    /\ view' = [view EXCEPT ![s] = Starting(@)]
    /\ UNCHANGED <<page, landed>>

\* The first answer chooses a player, and the effect asks for him.
TabFetched(s, c) ==
    IF c.key.initial /\ c.key.player = "" /\ roster # {}
    THEN \E player \in DefaultPlayers :
           LET q == [sel EXCEPT !.player = player, !.first = FALSE]
               key(t) == MatchKey(t, q)
           IN /\ sel' = q
              /\ LandThenAsk(c, {s}, key)
              /\ view' = [view EXCEPT ![s] = Starting(Got(@, [key |-> c.key]))]
    ELSE /\ Land(c) /\ view' = [view EXCEPT ![s] = Got(@, [key |-> c.key])]
         /\ UNCHANGED sel

StatsGot(c) == TabFetched("stats", c)
StatsFailed(c) == Land(c) /\ view' = [view EXCEPT !["stats"] = Failed(@)] /\ UNCHANGED sel

HandleStatsPlayer(player) ==
    /\ page = "player_stats" /\ MayChoose /\ StatsShown = "content"
    /\ player \in roster \ {sel.player}
    /\ sel' = [sel EXCEPT !.player = player]
    /\ TabFetch("stats", sel') /\ UNCHANGED roster

\* The Retry button of the statistics asks as if it were not the first time.
RetryStats == /\ page = "player_stats" /\ MayChoose /\ StatsShown = "error"
              /\ TabFetch("stats", [sel EXCEPT !.first = FALSE])
              /\ UNCHANGED matchExtras

-----------------------------------------------------------------------------
(* The utility analysis.                                                   *)

AnalysisShown == IF view["analysis"].loading /\ sel.first THEN "skeleton"
                 ELSE IF view["analysis"].error THEN "error"
                 ELSE IF view["analysis"].data = Nothing THEN "nothing" ELSE "content"

AnalysisGot(c) == TabFetched("analysis", c)
AnalysisFailed(c) == Land(c) /\ view' = [view EXCEPT !["analysis"] = Failed(@)] /\ UNCHANGED sel

HandleAnalysisFilters(player, round) ==
    /\ page = "match_utility" /\ MayChoose /\ AnalysisShown = "content"
    /\ \/ player \in roster \ {sel.player} /\ round = sel.round
       \/ player = sel.player /\ round # sel.round
    /\ sel' = [sel EXCEPT !.player = player, !.round = round]
    /\ TabFetch("analysis", sel') /\ UNCHANGED roster

RetryAnalysis == /\ page = "match_utility" /\ MayChoose /\ AnalysisShown = "error"
                 /\ TabFetch("analysis", [sel EXCEPT !.first = FALSE])
                 /\ UNCHANGED matchExtras

-----------------------------------------------------------------------------
(* The aim tracking: the players, then of the chosen one the statistics    *)
(* and the weapons, and the hit graph with its own choice of a weapon.     *)

AimShown == IF view["players"].loading /\ sel.first THEN "skeleton"
            ELSE IF view["players"].data # Nothing THEN "content"
            ELSE IF view["players"].error THEN "error" ELSE "no players"
GraphShown == IF AimShown # "content" THEN "none"
              ELSE IF view["graph"].data # Nothing THEN "content"
              ELSE IF view["graph"].loading THEN "zeros" ELSE "nothing"

PlayersGot(c) ==
    IF roster = {}
    THEN Land(c) /\ view' = [view EXCEPT !["players"].loading = FALSE] /\ UNCHANGED sel
    ELSE \E player \in DefaultPlayers :
           LET q == [sel EXCEPT !.player = player, !.first = FALSE]
               key(s) == MatchKey(s, q)
           IN /\ sel' = q
              /\ LandThenAsk(c, {"aim_stats", "guns", "graph"}, key)
              /\ view' = [view EXCEPT !["players"] = Got(@, [key |-> c.key]),
                                      !["guns"].loading = TRUE, !["graph"].loading = TRUE]
PlayersFailed(c) == Land(c) /\ view' = [view EXCEPT !["players"] = Failed(@)] /\ UNCHANGED sel

\* The Retry button asks for the statistics of a player who is not chosen yet:
\* it clears the error and asks for nothing.
RetryAim == /\ page = "aim_tracking" /\ AimShown = "error"
            /\ view' = [view EXCEPT !["players"].error = FALSE]
            /\ NoAsk /\ UNCHANGED <<page, landed, matchExtras>>

\* Failures are not shown while there are players.
AimStatsGot(c) == Land(c) /\ view' = [view EXCEPT !["aim_stats"] = Got(@, [key |-> c.key])]
GunsGot(c) == Land(c) /\ view' = [view EXCEPT !["guns"] = Got(@, [key |-> c.key])]
GraphGot(c) == Land(c) /\ view' = [view EXCEPT !["graph"] = Got(@, [key |-> c.key, numbers |-> TRUE])]
AimFailed(c) == LandUnseen(c) /\ view' = [view EXCEPT ![c.slot].loading = FALSE]

\* Statistics and weapons of another player; the graph asks for him with its
\* weapon first, and again when the weapon is reset.
HandleAimPlayer(player) ==
    LET q == [sel EXCEPT !.player = player]
        reset == [q EXCEPT !.gun = Unlimited]
        key(s) == MatchKey(s, q)
        resetKey(s) == MatchKey(s, reset)
        again == IF sel.gun = Unlimited THEN {} ELSE {"graph"}
    IN /\ page = "aim_tracking" /\ MayChoose /\ AimShown = "content"
       /\ player \in roster \ {sel.player}
       /\ sel' = reset
       /\ asked' = asked + 2
       /\ calls' = calls \cup Requests({"aim_stats", "guns", "graph"}, key, asked + 1)
                         \cup Requests(again, resetKey, asked + 2)
       /\ sent' = [s \in DOMAIN sent |->
                     IF s \in again THEN asked + 2
                     ELSE IF s \in {"aim_stats", "guns", "graph"} THEN asked + 1 ELSE sent[s]]
       /\ view' = [view EXCEPT !["guns"].loading = TRUE, !["graph"].loading = TRUE,
                               !["graph"].data = IF @ = Nothing THEN @
                                                 ELSE [@ EXCEPT !.numbers = FALSE]]
       /\ UNCHANGED <<page, landed, roster>>

\* A weapon is chosen in the graph, from the list of the player.
SelectGun(gun) ==
    LET q == [sel EXCEPT !.gun = gun]
        key(s) == MatchKey(s, q)
    IN /\ page = "aim_tracking" /\ MayChoose /\ AimShown = "content"
       /\ ~view["guns"].loading /\ view["guns"].data # Nothing /\ gun # sel.gun
       /\ sel' = q
       /\ Ask({"graph"}, key)
       /\ view' = [view EXCEPT !["graph"].loading = TRUE]
       /\ UNCHANGED <<page, landed, roster>>

-----------------------------------------------------------------------------
(* Head to head: the players, then the first, then the second.             *)

ComparedShown == Returned("compared")

ComparedGot(c) ==
    IF roster = {}
    THEN Land(c) /\ view' = [view EXCEPT !["compared"] = Got(@, [key |-> c.key])] /\ UNCHANGED sel
    ELSE \E player \in DefaultPlayers :
           LET q == [sel EXCEPT !.player = player]
               key(s) == MatchKey(s, q)
           IN /\ sel' = q
              /\ LandThenAsk(c, {"player1"}, key)
              /\ view' = [view EXCEPT !["compared"].data = [key |-> c.key]]
ComparedFailed(c) == Land(c) /\ view' = [view EXCEPT !["compared"] = Failed(@)] /\ UNCHANGED sel

\* The second of the list, who is the user himself if he is the second.
Rivals == IF Me \in roster THEN roster ELSE roster \ {sel.player}

\* What fetchData awaits before it ends, whether it came or failed.
NextPlayer(c, shown) ==
    IF c.slot = "player1" /\ view["compared"].loading /\ Cardinality(roster) > 1
    THEN \E rival \in Rivals :
           LET q == [sel EXCEPT !.rival = rival]
               key(s) == MatchKey(s, q)
           IN sel' = q /\ LandThenAsk(c, {"player2"}, key) /\ view' = shown
    ELSE /\ view' = [shown EXCEPT !["compared"].loading = FALSE]
         /\ Land(c) /\ UNCHANGED sel
ComparedPlayerGot(c) == NextPlayer(c, [view EXCEPT ![c.slot].data = [key |-> c.key]])
\* the card keeps what it shows
ComparedPlayerFailed(c) == NextPlayer(c, [view EXCEPT ![c.slot].error = TRUE])

HandlePlayerChange(s, player) ==
    LET q == IF s = "player1" THEN [sel EXCEPT !.player = player] ELSE [sel EXCEPT !.rival = player]
        key(t) == MatchKey(t, q)
    IN /\ page = "head_to_head" /\ MayChoose /\ ComparedShown = "content"
       /\ player \in roster /\ sel # q
       /\ sel' = q
       /\ Ask({s}, key)
       /\ view' = [view EXCEPT ![s].error = FALSE]
       /\ UNCHANGED <<page, landed, roster>>
-----------------------------------------------------------------------------
MatchAnswered(c) ==
    /\ page \in MatchPages
    /\ CASE c.slot = "match"       -> MatchGot(c) /\ UNCHANGED sel
         [] c.slot = "top_players" -> TopPlayersGot(c) /\ UNCHANGED sel
         [] c.slot = "stats"       -> StatsGot(c)
         [] c.slot = "analysis"    -> AnalysisGot(c)
         [] c.slot = "players"     -> PlayersGot(c)
         [] c.slot = "aim_stats"   -> AimStatsGot(c) /\ UNCHANGED sel
         [] c.slot = "guns"        -> GunsGot(c) /\ UNCHANGED sel
         [] c.slot = "graph"       -> GraphGot(c) /\ UNCHANGED sel
         [] c.slot = "compared"    -> ComparedGot(c)
         [] c.slot \in {"player1", "player2"} -> ComparedPlayerGot(c)
    /\ UNCHANGED roster

MatchRequestFailed(c) ==
    /\ page \in MatchPages
    /\ CASE c.slot = "match"       -> MatchFailed(c) /\ UNCHANGED sel
         [] c.slot = "top_players" -> TopPlayersFailed(c) /\ UNCHANGED sel
         [] c.slot = "stats"       -> StatsFailed(c)
         [] c.slot = "analysis"    -> AnalysisFailed(c)
         [] c.slot = "players"     -> PlayersFailed(c)
         [] c.slot \in {"aim_stats", "guns", "graph"} -> AimFailed(c) /\ UNCHANGED sel
         [] c.slot = "compared"    -> ComparedFailed(c)
         [] c.slot \in {"player1", "player2"} -> ComparedPlayerFailed(c)
    /\ UNCHANGED roster

MatchNext ==
    \/ \E id \in Matches : GoTo(id)
    \/ page = "match" /\ OpenTopPlayer
    \/ page \in MatchPages /\ \E t \in MatchPages \ {"match"} : HandleTabChange(t)
    \/ \E player \in Players : HandleStatsPlayer(player)
    \/ RetryStats
    \/ \E player \in Players \cup {""}, round \in Rounds \cup {Unlimited} : HandleAnalysisFilters(player, round)
    \/ RetryAnalysis
    \/ RetryAim
    \/ \E player \in Players : HandleAimPlayer(player)
    \/ \E gun \in Guns \cup {Unlimited} : SelectGun(gun)
    \/ \E s \in {"player1", "player2"}, player \in Players : HandlePlayerChange(s, player)
    \/ \E c \in calls : MatchAnswered(c)
    \/ \E c \in calls : MatchRequestFailed(c)

MatchSpec == /\ MatchInit /\ [][MatchNext]_matchVars
             /\ WF_matchVars(\E c \in calls : MatchAnswered(c) \/ MatchRequestFailed(c))
-----------------------------------------------------------------------------
(* What must be true of the tabs.                                          *)

\* Whose data slot s shows.
ShownFor(s) == LET k == view[s].data.key IN
    CASE s \in {"match", "players", "compared"} -> k = MatchParams(sel)
      [] s = "top_players" -> TopPlayersMounted => k = view["match"].data.key
      [] s = "stats"    -> k.player = sel.player
      [] s = "analysis" -> k.player = sel.player /\ k.round = sel.round
      [] OTHER          -> k = MatchKey(s, sel)

\* Once everything asked is answered, in order, a tab shows the match, player,
\* round and weapon selected: no selection made by the tab itself (the default
\* player, the weapon reset with the player) leaves data of another beside it.
MatchTabsShowSelection ==
    page \in MatchPages =>
        \A s \in DOMAIN view :
            Settled(s) /\ view[s].data # Nothing /\ ~view[s].error => ShownFor(s)

\* A tab says "loading" only while something is under way, whatever failed,
\* except after Retry of the first load of the player statistics.
MatchSkeletonsEnd ==
    /\ page = "match" /\ "skeleton" \in {MatchShown, TopPlayersShown} => calls # {}
    /\ page = "player_stats" /\ StatsShown = "skeleton" /\ calls = {} =>
           view["stats"].data.key = [player |-> "", initial |-> FALSE]
    /\ page = "match_utility" /\ AnalysisShown = "skeleton" => calls # {}
    /\ page = "aim_tracking" /\ AimShown = "skeleton" => calls # {}
    /\ page = "head_to_head" /\ ComparedShown = "skeleton" => calls # {}

\* The same without the exception, which the code does not keep
\* (player-stats.tsx:191 and 209).
RetryLoadsStats == page = "player_stats" /\ StatsShown = "skeleton" => calls # {}

\* "No players available for this match." (aim-tracking.tsx:214) is said only
\* of a match without players; Retry of a failed first load breaks it.
NoPlayersTrue == page = "aim_tracking" /\ AimShown = "no players" => roster = {}
=============================================================================
