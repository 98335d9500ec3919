---------------------------- MODULE RoundMetrics ----------------------------
(***************************************************************************)
(* The rows the first round leaves of its players: kills and deaths, the   *)
(* opening duel, trades and clutches, aggregated at the round end from the *)
(* gunfights, which are the kills the parser has seen.  What the game      *)
(* knows besides, who lives, is kept to compare the rows with.             *)
(***************************************************************************)
EXTENDS Integers, Sequences, FiniteSets, SequencesExt

CONSTANTS
  Entered,       \* matchState.Players: whoever ever connected
  AssignedTeam,  \* teamAssignments
  Spots,         \* positions; two are within TradeDistanceThreshold if they are equal
  Gaps,          \* ticks from one kill to the next
  Window,        \* TradeTimeWindowSeconds in ticks, 192 in the code
  MaxDeaths,     \* bound on the deaths of a round
  MaxQuiet,      \* bound on deaths without a killer
  MaxGone        \* bound on players who have left the match

ASSUME EnteredAssumption == IsFiniteSet(Entered) /\ DOMAIN AssignedTeam = Entered
ASSUME WindowAssumption == Window \in Nat /\ Gaps \subseteq Nat

VARIABLES
  standing,  \* the game's: standing[i] live after i - 1 deaths
  fights,    \* the GunfightEvents of the round
  rows       \* its PlayerRoundEvents, once it is over
metricVars == <<standing, fights, rows>>

Mates(p) == {q \in Entered \ {p} : AssignedTeam[q] = AssignedTeam[p]}
Enemies(p) == {q \in Entered : AssignedTeam[q] # AssignedTeam[p]}

-----------------------------------------------------------------------------
(* Kills and deaths.                                                       *)

\* The victor is the killer, always; nobody dies where the killer is the victim.
roundDeaths == {i \in DOMAIN fights : fights[i].killer # fights[i].victim}
KillsOf(p) == Cardinality({i \in DOMAIN fights : fights[i].killer = p})
DeathsOf(S) == {i \in roundDeaths : fights[i].victim \in S}
Died(p) == DeathsOf({p}) # {}
\* FirstKillPlayer and FirstDeathPlayer are those of the first gunfight.
FirstKill(p) == fights # <<>> /\ fights[1].killer = p
FirstDeath(p) == Died(p) /\ fights[1].victim = p

-----------------------------------------------------------------------------
(* Trades.                                                                 *)

\* getPlayerPositionAtTime: that of the player's gunfight nearest in time, the
\* first of two.
Involved(p) == {i \in DOMAIN fights : p \in {fights[i].killer, fights[i].victim}}
Away(i, t) == IF fights[i].at < t THEN t - fights[i].at ELSE fights[i].at - t
Nearest(p, t) ==
    CHOOSE i \in Involved(p) : \A j \in Involved(p) :
        Away(i, t) < Away(j, t) \/ (Away(i, t) = Away(j, t) /\ i <= j)
PositionAtTime(p, t) == LET g == fights[Nearest(p, t)]
                        IN IF g.killer = p THEN g.from ELSE g.to
InReach(p, d) == Involved(p) # {} /\ PositionAtTime(p, d.at) = d.to

\* A wrong window: a kill of anybody trades.
TradedByAnyKill(p, d) == \E i \in roundDeaths :
    /\ fights[i].killer = p
    /\ fights[i].at \in d.at..(d.at + Window)
\* p has killed the killer of death d in time.
TradedBy(p, d) == \E i \in roundDeaths :
    /\ fights[i].killer = p /\ fights[i].victim = d.killer
    /\ fights[i].at \in d.at..(d.at + Window)

PossibleTrades(p) == {i \in DeathsOf(Mates(p)) : InReach(p, fights[i])}
SuccessfulTrades(p) == {i \in PossibleTrades(p) : TradedBy(p, fights[i])}
PossibleTraders(i) == {q \in Mates(fights[i].victim) : InReach(q, fights[i])}
PossibleTradedDeaths == {i \in roundDeaths : PossibleTraders(i) # {}}
\* Of the mates in reach of a death one is asked, the first of a map in random
\* order: the sets of deaths that may be found traded.
SuccessfulTradedDeaths ==
    {traded \in SUBSET PossibleTradedDeaths : \A i \in PossibleTradedDeaths :
        \E q \in PossibleTraders(i) : i \in traded <=> TradedBy(q, fights[i])}

-----------------------------------------------------------------------------
(* Clutches.                                                               *)

None == [n \in 1..5 |-> 0]
Count(tally, n) == [tally EXCEPT ![n] = @ + 1]
NoClutch == [alive |-> Entered, against |-> 0, attempts |-> None, wins |-> None]

\* A wrong step: every death counts as an attempt anew.
AttemptAgain(p, c, d) ==
    LET alive == c.alive \ {d.victim}
        n == Cardinality(alive \cap Enemies(p))
    IN CASE d.killer = d.victim -> c
         [] d.killer # d.victim /\ p \notin alive -> [c EXCEPT !.alive = alive, !.against = 0]
         [] d.killer # d.victim /\ p \in alive /\ alive \cap Mates(p) = {} /\ n \in 1..5 ->
              [c EXCEPT !.alive = alive, !.against = n, !.attempts = Count(@, n)]
         [] OTHER -> [c EXCEPT !.alive = alive, !.against = 0,
                        !.wins = IF c.against # 0 /\ n = 0 THEN Count(@, c.against) ELSE @]

\* What a gunfight does to the clutch of p: against is activeClutchScenario,
\* which follows the enemies left.  A killer who is the victim is no death.
ClutchStep(p, c, d) ==
    LET alive == c.alive \ {d.victim}
        n == Cardinality(alive \cap Enemies(p))
    IN CASE d.killer = d.victim -> c
         [] d.killer # d.victim /\ p \notin alive -> [c EXCEPT !.alive = alive, !.against = 0]
         [] d.killer # d.victim /\ p \in alive /\ alive \cap Mates(p) = {} /\ n \in 1..5 ->
              [c EXCEPT !.alive = alive, !.against = n,
                        !.attempts = IF c.against = 0 THEN Count(@, n) ELSE @]
         [] OTHER -> [c EXCEPT !.alive = alive, !.against = 0,
                        !.wins = IF c.against # 0 /\ n = 0 THEN Count(@, c.against) ELSE @]

\* aggregateClutchMetrics.
Clutch(p) == FoldLeft(LAMBDA c, d : ClutchStep(p, c, d), NoClutch, fights)

-----------------------------------------------------------------------------
(* The round.                                                              *)

MetricsInit ==
    /\ standing \in {<<Entered \ gone>> : gone \in {S \in SUBSET Entered : Cardinality(S) <= MaxGone}}
    /\ fights = <<>> /\ rows = <<>>

Playing == rows = <<>>
Dies(v) == /\ Playing /\ Len(standing) <= MaxDeaths
           /\ v \in Last(standing)
           /\ standing' = Append(standing, Last(standing) \ {v})
           /\ UNCHANGED rows

\* HandlePlayerKilled: also of a player who is dead himself, by his grenade.
MetricsPlayerKilled(k, v) ==
    /\ k \in standing[1] /\ Dies(v)
    /\ \E x \in Spots, y \in Spots, gap \in Gaps :
         /\ k = v => x = y
         /\ fights' = Append(fights, [killer |-> k, victim |-> v, from |-> x, to |-> y,
                                      at |-> IF fights = <<>> THEN 0 ELSE Last(fights).at + gap])

\* A fall, or the bomb: a Kill without a killer, which is refused.
DiesUnseen(v) == /\ Len(standing) - 1 - Len(fights) < MaxQuiet
                 /\ Dies(v) /\ UNCHANGED fights

\* ProcessRoundEnd.
MetricsRoundEnd ==
    /\ Playing
    /\ \E traded \in SuccessfulTradedDeaths :
         rows' = [p \in Entered |->
              LET clutch == Clutch(p)
              IN [kills |-> KillsOf(p), died |-> Died(p),
                  firstKill |-> FirstKill(p), firstDeath |-> FirstDeath(p),
                  possible |-> PossibleTrades(p), trades |-> SuccessfulTrades(p),
                  tradable |-> DeathsOf({p}) \cap PossibleTradedDeaths,
                  traded |-> DeathsOf({p}) \cap traded,
                  attempts |-> clutch.attempts, wins |-> clutch.wins]]
    /\ UNCHANGED <<standing, fights>>

MetricsNext ==
    \/ \E k, v \in Entered : MetricsPlayerKilled(k, v)
    \/ \E v \in Entered : DiesUnseen(v)
    \/ MetricsRoundEnd
MetricsSpec == MetricsInit /\ [][MetricsNext]_metricVars
-----------------------------------------------------------------------------
(* What must be true of the rows.                                          *)

MetricsTypeOK ==
    /\ Len(standing) \in 1..(MaxDeaths + 1)
    /\ Len(fights) < Len(standing)
    /\ \A i \in DOMAIN standing : standing[i] \subseteq Entered
    /\ \A i \in DOMAIN fights : fights[i].killer \in Entered /\ fights[i].victim \in Entered

\* The parser has seen who lives: nobody has left, and every death has a killer.
Seen == standing[1] = Entered /\ Cardinality(roundDeaths) = Len(standing) - 1

\* A clutch of p: he is the last of his team to live while n enemies do, and was
\* not before.
Alone(p, i) == p \in standing[i] /\ Mates(p) \cap standing[i] = {} /\ Enemies(p) \cap standing[i] # {}
Begins(p, i) == i > 1 /\ Alone(p, i) /\ (i > 2 => ~Alone(p, i - 1))
Clutches(p, n) == {i \in DOMAIN standing : Begins(p, i) /\ Cardinality(Enemies(p) \cap standing[i]) = n}

\* A row counts a clutch against n exactly if its player was left alone with n
\* enemies, and a clutch won, against whatever number, exactly if he outlived
\* them, however the kills of the round follow each other.
ClutchesTrue ==
    rows # <<>> /\ Seen => \A p \in Entered :
        /\ \A n \in 1..5 : rows[p].attempts[n] = Cardinality(Clutches(p, n))
        /\ (\E n \in 1..5 : rows[p].wins[n] = 1) <=>
             \E i, j \in DOMAIN standing : /\ i < j /\ Begins(p, i) /\ p \in standing[j]
                                           /\ Enemies(p) \cap standing[j] = {}
\* It does not where a fall, or a player who has left, is not among the kills.
ClutchesTrueAlways ==
    rows # <<>> => \A p \in Entered, n \in 1..5 : rows[p].attempts[n] = Cardinality(Clutches(p, n))

\* A clutch that is won was attempted: not against that number, for a clutch is
\* won against the enemies left before the last of them fell.
WinsAttempted == rows # <<>> => \A p \in Entered, n \in 1..5 : rows[p].wins[n] <= rows[p].attempts[n]

\* Over all numbers they are, whatever the parser has not seen: a round wins a
\* player no more clutches than it has him attempt, so that the percentage of a
\* match's clutches is one.
Total(t) == t[1] + t[2] + t[3] + t[4] + t[5]
WinsWithinAttempts ==
    rows # <<>> => \A p \in Entered : Total(rows[p].wins) <= Total(rows[p].attempts)

\* The two sides of a trade, counted each for itself, agree: the death that a
\* row counts as traded is a trade in the row of a mate, and its killer is dead.
TradesAgree ==
    rows # <<>> => \A p \in Entered : \A i \in rows[p].traded :
        /\ \E q \in Mates(p) : i \in rows[q].trades
        /\ fights[i].killer \notin Last(standing)
\* The other way round they do not: the mate asked may be another one.
TradesTraded ==
    rows # <<>> => \A q \in Entered : \A i \in rows[q].trades : i \in rows[fights[i].victim].traded

\* Who might have traded a death was alive; the code does not ask.
PossibleByLiving ==
    rows # <<>> /\ Seen => \A q \in Entered : \A i \in rows[q].possible : q \in standing[i]
=============================================================================
