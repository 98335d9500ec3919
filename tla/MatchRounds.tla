---------------------------- MODULE MatchRounds ----------------------------
(***************************************************************************)
(* The score and the sides EventProcessor and MatchHandler derive from the *)
(* events of a demo.  A demo names sides; the parser names teams: whoever  *)
(* is first seen as CT in rounds 1 to 12 is in team "A", as T in "B", and  *)
(* the side each team plays is switched by the number of the round.        *)
(*                                                                         *)
(* The demo is the environment: two rosters that swap their sides after    *)
(* Half rounds and every OTHalf overtime rounds from the second overtime   *)
(* half on, the rule checkForSideSwitch states.  The two rounds counters   *)
(* of the code, matchState.CurrentRound and currentRound, are always       *)
(* equal and are one variable.                                             *)
(***************************************************************************)
EXTENDS Integers, FiniteSets

CONSTANTS
  Players,      \* players that appear in the demo
  Roster,       \* Roster[p]: "home" starts the first counted round as CT
  Known,        \* players on a side when the demo begins
  FullTeams,    \* players in two full teams, 10 in the code
  Half,         \* rounds per half, 12 in the code
  OTHalf,       \* rounds per overtime half, 3 in the code
  MaxRounds,    \* bound on the rounds of the demo
  Servers,      \* who may host the match, "valve" or "faceit"
  KnifeSwap,    \* the rosters swap sides after the round FACEIT plays first
  MidRound,     \* the demo may begin inside a round
  QuietRounds,  \* a round may end before anybody has been assigned a team
  DrawnRounds,  \* rounds that may end without a winner
  BreakJoins    \* players may first be seen between the halves

Teams   == {"A", "B"}
Sides   == {"CT", "T"}
Rosters == {"home", "away"}

ASSUME RosterAssumption == Roster \in [Players -> Rosters]
ASSUME KnownAssumption == Known \subseteq Players /\ IsFiniteSet(Players)
ASSUME RoundsAssumption == /\ {FullTeams, Half} \subseteq Nat \ {0}
                           /\ OTHalf \in Nat \ {0, 1} /\ MaxRounds \in Nat
ASSUME ServersAssumption == Servers \subseteq {"valve", "faceit"}
ASSUME SwitchAssumptions == {KnifeSwap, MidRound, QuietRounds, BreakJoins}
                              \subseteq BOOLEAN

VARIABLES
  \* the demo
  server,       \* the host its header names
  phase,        \* "warmup", "round", "over" or "break" (sides just swapped)
  played,       \* counted rounds that are over
  homeSide,     \* the side of the home roster
  won,          \* won[r]: rounds won by roster r
  present,      \* players on a side
  \* the parser
  currentRound,
  teamAssignments, \* partial: the team a player was assigned
  team,         \* partial: Team of the player in matchState.Players
  currentSide,  \* teamACurrentSide and teamBCurrentSide
  teamWins,     \* teamAWins and teamBWins
  ends,         \* "end" events in matchState.RoundEvents
  gunfight,     \* the players and sides of the last gunfight event
  failed        \* ProgressManager.criticalErrorOccurred

demo == <<server, phase, played, homeSide, won, present>>
vars == <<server, phase, played, homeSide, won, present, currentRound, teamAssignments,
          team, currentSide, teamWins, ends, gunfight, failed>>

NoSide == ""  \* of a team whose side is not set
NoGunfight == [side |-> <<>>]

-----------------------------------------------------------------------------
(* The demo.                                                                 *)

Other(s) == IF s = "CT" THEN "T" ELSE "CT"
TrueSide(p) == IF Roster[p] = "home" THEN homeSide ELSE Other(homeSide)
getTeamString(p) == IF p \in present THEN TrueSide(p) ELSE "Unknown"

RosterOn(s) == IF homeSide = s THEN "home" ELSE "away"

\* The swap that follows this many counted rounds.
SwapAfter(n) == \/ n = Half
                \/ n >= 2 * Half + OTHalf /\ (n - 2 * Half) % OTHalf = 0
SwapDue == /\ phase = "over"
           /\ IF played = 0 THEN KnifeSwap ELSE SwapAfter(played)

\* The sides swap between two rounds; PlayerTeamChange events follow.
SwapSides ==
  /\ SwapDue
  /\ phase' = "break"
  /\ homeSide' = Other(homeSide)
  /\ UNCHANGED <<server, played, won, present, currentRound, teamAssignments,
                 team, currentSide, teamWins, ends, gunfight, failed>>

isFaceitMatch == server = "faceit"
shouldSkipCurrentRound == isFaceitMatch /\ currentRound = 1

MayAppear(p) ==
  BreakJoins \/ phase # "break" \/ played # Half \/ p \in DOMAIN teamAssignments

-----------------------------------------------------------------------------
(* Team assignment.                                                          *)

assignmentComplete(t) == Cardinality(DOMAIN t) = FullTeams

\* The partial map t with an entry x for p, unless it has one.
PutIfAbsent(t, p, x) ==
  [q \in DOMAIN t \cup {p} |-> IF q \in DOMAIN t THEN t[q] ELSE x]

\* A wrong assignment: by the side of the moment, whatever the round.
assignTeamInAnyRound(t, p, side) ==
  IF ~assignmentComplete(t) /\ p \notin DOMAIN t /\ side \in Sides
    THEN PutIfAbsent(t, p, IF side = "CT" THEN "A" ELSE "B")
    ELSE t

assignTeamBasedOnRound1To12(t, p, side) ==
  IF currentRound <= Half /\ ~assignmentComplete(t) /\ p \notin DOMAIN t /\ side \in Sides
    THEN PutIfAbsent(t, p, IF side = "CT" THEN "A" ELSE "B")
    ELSE t

getAssignedTeam(t, p) == IF p \in DOMAIN t THEN t[p] ELSE "A"

\* ensurePlayerTracked on the pair of maps it writes.  A player who is known
\* keeps the team he was recorded with.
ensurePlayerTracked(s, p, side) ==
  LET t == assignTeamBasedOnRound1To12(s.assigned, p, side)
  IN [assigned |-> t, team |-> PutIfAbsent(s.team, p, getAssignedTeam(t, p))]

Maps == [assigned |-> teamAssignments, team |-> team]

\* The first assignment also sets the teams' sides.
SetMaps(s) ==
  /\ teamAssignments' = s.assigned
  /\ team' = s.team
  /\ currentSide' = IF currentSide["A"] = NoSide /\ DOMAIN s.assigned # {}
                      THEN [A |-> "CT", B |-> "T"] ELSE currentSide

HandlePlayerConnect(p) ==
  /\ MayAppear(p)
  /\ SetMaps(ensurePlayerTracked(Maps, p, getTeamString(p)))
  /\ UNCHANGED <<demo, currentRound, teamWins, ends, gunfight, failed>>

\* A player joins a side, or swapped sides with his team.
HandlePlayerTeamChange(p) ==
  /\ MayAppear(p)
  /\ present' = present \cup {p}
  /\ LET t == assignTeamBasedOnRound1To12(teamAssignments, p, TrueSide(p))
     IN SetMaps([assigned |-> t,
                 team |-> [q \in DOMAIN team |->
                             IF q = p THEN getAssignedTeam(t, p) ELSE team[q]]])
  /\ UNCHANGED <<server, phase, played, homeSide, won, currentRound, teamWins, ends,
                 gunfight, failed>>

\* A shot; a PlayerHurt or a thrown grenade tracks its players in the same way.
HandleWeaponFire(p) ==
  /\ p \in present /\ MayAppear(p)
  /\ ~shouldSkipCurrentRound
  /\ SetMaps(ensurePlayerTracked(Maps, p, getTeamString(p)))
  /\ UNCHANGED <<demo, currentRound, teamWins, ends, gunfight, failed>>

getPlayerCurrentSide(t, sides, p) ==
  IF p \in DOMAIN t THEN sides[t[p]] ELSE "Unknown"

HandlePlayerKilled(k, v) ==
  /\ {k, v} \subseteq present /\ k # v
  /\ phase # "break" /\ ~shouldSkipCurrentRound
  /\ SetMaps(ensurePlayerTracked(ensurePlayerTracked(Maps, k, getTeamString(k)),
                                 v, getTeamString(v)))
  /\ gunfight' =
       [side |-> [p \in {k, v} |->
                    getPlayerCurrentSide(teamAssignments', currentSide', p)]]
  /\ UNCHANGED <<demo, currentRound, teamWins, ends, failed>>

-----------------------------------------------------------------------------
(* Rounds.                                                                   *)

\* A FACEIT match's first round is counted by the number and skipped.
HandleRoundStart ==
  /\ phase \in {"warmup", "over", "break"} /\ ~SwapDue
  /\ played < MaxRounds
  /\ phase' = "round"
  /\ currentRound' = currentRound + 1
  /\ UNCHANGED <<server, played, homeSide, won, present, teamAssignments, team,
                 currentSide, teamWins, ends, gunfight, failed>>

\* A wrong rule: the sides also switch at the start of overtime.
switchInOvertimeRound1(n) ==
  \/ n = Half + 1
  \/ n > 2 * Half /\ (n - 2 * Half) % OTHalf = 1

\* checkForSideSwitch: the rounds at whose end it switches the sides.
switchAt(n) ==
  \/ n = Half + 1
  \/ n > 2 * Half /\ (n - 2 * Half) % OTHalf = 1 /\ n - 2 * Half > OTHalf

checkForSideSwitch ==
  IF switchAt(currentRound) THEN [A |-> currentSide["B"], B |-> currentSide["A"]]
                            ELSE currentSide

updateTeamWins(winner) ==
  /\ currentSide' = checkForSideSwitch
  /\ teamWins' = [t \in Teams |->
                    IF currentSide'[t] = winner THEN teamWins[t] + 1 ELSE teamWins[t]]

\* ProcessRoundEnd fails without a round or without players.
ProcessRoundEndFails == currentRound <= 0 \/ DOMAIN team = {}

\* The match handler, the round handler, then processAimTrackingForRound, which
\* fails where the map's files or the round's ticks cannot be read.  After an
\* error of theirs the parse stops: wrapped, it is no warning any more.
HandleRoundEnd(winner) ==
  /\ phase = "round" /\ ~shouldSkipCurrentRound
  /\ QuietRounds \/ DOMAIN teamAssignments # {}
  /\ winner \in Sides \/ played + 1 \in DrawnRounds
  /\ phase' = "over"
  /\ played' = played + 1
  /\ won' = IF winner \in Sides THEN [won EXCEPT ![RosterOn(winner)] = @ + 1] ELSE won
  /\ ends' = ends + 1
  /\ IF winner \in Sides THEN updateTeamWins(winner)
                         ELSE UNCHANGED <<currentSide, teamWins>>
  /\ \E aimFails \in BOOLEAN : failed' = (ProcessRoundEndFails \/ aimFails)
  /\ UNCHANGED <<server, homeSide, present, currentRound, teamAssignments, team, gunfight>>

SkipRoundEnd ==
  /\ phase = "round" /\ shouldSkipCurrentRound
  /\ phase' = "over"
  /\ UNCHANGED <<server, played, homeSide, won, present, currentRound, teamAssignments,
                 team, currentSide, teamWins, ends, gunfight, failed>>

-----------------------------------------------------------------------------
Init ==
  /\ server \in Servers
  /\ phase \in {"warmup"} \cup (IF MidRound THEN {"round"} ELSE {})
  /\ played = 0
  /\ homeSide = IF isFaceitMatch /\ KnifeSwap THEN "T" ELSE "CT"
  /\ won = [r \in Rosters |-> 0]
  /\ present = Known
  /\ currentRound = 0
  /\ teamAssignments = <<>>
  /\ team = <<>>
  /\ currentSide = [t \in Teams |-> NoSide]
  /\ teamWins = [t \in Teams |-> 0]
  /\ ends = 0
  /\ gunfight = NoGunfight
  /\ failed = FALSE

PlayerEvent == \E p \in Players :
  \/ HandlePlayerConnect(p)
  \/ HandlePlayerTeamChange(p)
  \/ HandleWeaponFire(p)
  \/ \E v \in Players : HandlePlayerKilled(p, v)

\* registerEventHandlers: no handler runs after a critical error.
Next ==
  /\ ~failed
  /\ \/ HandleRoundStart
     \/ \E winner \in Sides \cup {"Unknown"} : HandleRoundEnd(winner)
     \/ SkipRoundEnd
     \/ SwapSides
     \/ PlayerEvent

Spec == Init /\ [][Next]_vars

-----------------------------------------------------------------------------
\* The variables have their types; the teams never share a side, and every
\* recorded round has an end event (buildParsedData counts these).
TypeOK ==
  /\ server \in Servers
  /\ phase \in {"warmup", "round", "over", "break"}
  /\ played \in 0..(MaxRounds + 1) /\ ends = played
  /\ homeSide \in Sides
  /\ won \in [Rosters -> Nat]
  /\ present \subseteq Players
  /\ currentRound \in 0..(MaxRounds + 1)
  /\ (DOMAIN teamAssignments \cup DOMAIN team) \subseteq Players
  /\ \A p \in DOMAIN teamAssignments : teamAssignments[p] \in Teams
  /\ \A p \in DOMAIN team : team[p] \in Teams
  /\ IF DOMAIN teamAssignments = {} THEN currentSide = [t \in Teams |-> NoSide]
     ELSE currentSide \in [Teams -> Sides] /\ currentSide["A"] # currentSide["B"]
  /\ teamWins \in [Teams -> Nat]
  /\ failed \in BOOLEAN

TeamsHoldScore ==
  ~failed => \A p \in DOMAIN teamAssignments :
               teamWins[teamAssignments[p]] = won[Roster[p]]

\* Across halftime and overtime of a matchmaking demo, the rounds credited to a
\* player's team are the rounds his roster has won.
RightTeamCredited == ~isFaceitMatch => TeamsHoldScore

\* The same of a FACEIT demo.
FaceitTeamCredited == isFaceitMatch => TeamsHoldScore

\* The sides of an assigned player's gunfight event are those he played on.
TrueSides(g) == \A p \in DOMAIN g.side :
  p \in DOMAIN teamAssignments' => g.side[p] = TrueSide(p)
SidesAreTrue == [][gunfight' # gunfight => TrueSides(gunfight')]_vars

\* The same of a matchmaking demo, but for the first round of a half, whose
\* switch of the sides only comes with its end.
SidesTrueLater ==
  [][gunfight' # gunfight => \/ isFaceitMatch
                             \/ phase = "round" /\ switchAt(currentRound)
                             \/ TrueSides(gunfight')]_vars

\* The progress reported at a round's start is one the web application accepts.
ProgressInRange == phase = "round" => 20 + 2 * currentRound <= 100
=============================================================================
