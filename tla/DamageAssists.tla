--------------------------- MODULE DamageAssists ---------------------------
(***************************************************************************)
(* Damage assists, computed twice: findDamageAssist when a kill is handled *)
(* and again by postProcessDamageAssists after the demo, when the player   *)
(* round events have already been made from the first result.              *)
(*                                                                         *)
(* findDamageAssist keeps the attacker with the most damage while it       *)
(* ranges over a Go map: between equals the choice is arbitrary.           *)
(***************************************************************************)
EXTENDS Integers, Sequences, FiniteSets, FiniteSetsExt

CONSTANTS
  Fighters,     \* the players
  Nobody,       \* no assister
  Hits,         \* damages a hit may do
  Threshold,    \* DamageAssistThreshold, 41 in the code
  MaxHits,      \* bound on hits per demo
  LastRound     \* bound on rounds

ASSUME FightersAssumption == IsFiniteSet(Fighters) /\ Nobody \notin Fighters
ASSUME HitsAssumption == Hits \subseteq 1..100 /\ Threshold \in 1..100
ASSUME BoundsAssumption == {MaxHits, LastRound} \subseteq Nat

VARIABLES
  CurrentRound,
  hits,         \* hits so far
  health,       \* health[p], 0 when dead
  killer,       \* who has just taken the last health of a player: <<k, v>>
  damage,       \* damage[r][v][a]: HealthDamage of a to v in round r
  gunfights,    \* matchState.GunfightEvents; late is one after its round's end event
  rounds,       \* rounds[r][p]: Kills and Assists of p's PlayerRoundEvent
  done          \* the demo is over and post-processed

assistVars == <<CurrentRound, hits, health, killer, damage, gunfights, rounds, done>>

NoDamage == [v \in Fighters |-> [a \in Fighters |-> 0]]

-----------------------------------------------------------------------------
\* Who has dealt v enough damage in round r to be credited besides k.
Helpers(r, v, k) == {a \in Fighters \ {k} : damage[r][v][a] >= Threshold}

\* A wrong search: the killer's own damage counts.
findDamageAssistOfAll(r, v, k) ==
  LET helpers == Helpers(r, v, Nobody)
      most == {a \in helpers : \A b \in helpers : damage[r][v][b] <= damage[r][v][a]}
  IN IF helpers = {} THEN {Nobody} ELSE most

\* The possible results of findDamageAssist.
findDamageAssist(r, v, k) ==
  LET helpers == Helpers(r, v, k)
      most == {a \in helpers : \A b \in helpers : damage[r][v][b] <= damage[r][v][a]}
  IN IF helpers = {} THEN {Nobody} ELSE most

\* The damage is what the hit took, at most the victim's health.  Players go on
\* hurting each other after the round's end, until the next one starts or the
\* demo is over.
DamageHandlePlayerHurt(a, v, hit) ==
  /\ ~done /\ killer = <<>> /\ CurrentRound > 0
  /\ health[a] > 0 /\ health[v] > 0
  /\ LET actual == Min({hit, health[v]})
     IN /\ damage' = [damage EXCEPT ![CurrentRound][v][a] = @ + actual]
        /\ health' = [health EXCEPT ![v] = @ - actual]
  /\ killer' = IF health'[v] = 0 THEN <<a, v>> ELSE <<>>
  /\ hits < MaxHits /\ hits' = hits + 1
  /\ UNCHANGED <<CurrentRound, gunfights, rounds, done>>

\* The Kill event that follows a last hit; TickTimestamp tells a late one.
GunfightHandlePlayerKilled ==
  /\ ~done /\ killer # <<>>
  /\ killer' = <<>>
  /\ \E assist \in findDamageAssist(CurrentRound, killer[2], killer[1]) :
       gunfights' = Append(gunfights, [round |-> CurrentRound, killer |-> killer[1],
                                       victim |-> killer[2], assist |-> assist,
                                       late |-> CurrentRound = Len(rounds)])
  /\ UNCHANGED <<CurrentRound, hits, health, damage, rounds, done>>

DamageHandleRoundStart ==
  /\ ~done /\ killer = <<>>
  /\ CurrentRound < LastRound
  /\ CurrentRound = Len(rounds)
  /\ CurrentRound' = CurrentRound + 1
  /\ health' = [p \in Fighters |-> 100]
  /\ damage' = Append(damage, NoDamage)
  /\ UNCHANGED <<hits, killer, gunfights, rounds, done>>

\* aggregateGunfightMetrics, for every player.
Kills(r, p) ==
  Cardinality({i \in DOMAIN gunfights : gunfights[i].round = r /\ gunfights[i].killer = p})
Assists(r, p) ==
  Cardinality({i \in DOMAIN gunfights : gunfights[i].round = r /\ gunfights[i].assist = p})

AggregateRoundEnd ==
  /\ ~done /\ killer = <<>>
  /\ CurrentRound > Len(rounds)
  /\ rounds' = Append(rounds, [p \in Fighters |->
       [kills |-> Kills(CurrentRound, p), assists |-> Assists(CurrentRound, p)]])
  /\ UNCHANGED <<CurrentRound, hits, health, killer, damage, gunfights, done>>

\* A wrong second pass: it only clears what it should search again.
postProcessForgets ==
  /\ ~done /\ killer = <<>> /\ CurrentRound = LastRound /\ Len(rounds) = LastRound
  /\ done' = TRUE
  /\ gunfights' = [i \in DOMAIN gunfights |-> [gunfights[i] EXCEPT !.assist = Nobody]]
  /\ UNCHANGED <<CurrentRound, hits, health, killer, damage, rounds>>

\* Every gunfight is searched again, in matchState.CurrentRound, whatever its
\* own round was.
postProcessDamageAssists ==
  /\ ~done /\ killer = <<>> /\ CurrentRound = LastRound /\ Len(rounds) = LastRound
  /\ done' = TRUE
  /\ \E new \in [DOMAIN gunfights -> Fighters \cup {Nobody}] :
       /\ \A i \in DOMAIN gunfights :
            new[i] \in findDamageAssist(CurrentRound, gunfights[i].victim,
                                        gunfights[i].killer)
       /\ gunfights' = [i \in DOMAIN gunfights |-> [gunfights[i] EXCEPT !.assist = new[i]]]
  /\ UNCHANGED <<CurrentRound, hits, health, killer, damage, rounds>>

AssistsInit ==
  /\ CurrentRound = 0
  /\ hits = 0
  /\ health = [p \in Fighters |-> 100]
  /\ killer = <<>>
  /\ damage = <<>>
  /\ gunfights = <<>>
  /\ rounds = <<>>
  /\ done = FALSE

AssistsNext ==
  \/ \E a, v \in Fighters, hit \in Hits : DamageHandlePlayerHurt(a, v, hit)
  \/ GunfightHandlePlayerKilled
  \/ DamageHandleRoundStart
  \/ AggregateRoundEnd
  \/ postProcessDamageAssists

AssistsSpec == AssistsInit /\ [][AssistsNext]_assistVars

-----------------------------------------------------------------------------
\* The variables have their types, and no victim loses more than his health.
AssistsTypeOK ==
  /\ CurrentRound \in 0..LastRound /\ Len(damage) = CurrentRound
  /\ health \in [Fighters -> 0..100]
  /\ damage \in Seq([Fighters -> [Fighters -> 0..100]])
  /\ hits \in 0..MaxHits /\ Len(gunfights) <= hits
  /\ rounds \in Seq([Fighters -> [kills : 0..MaxHits, assists : 0..MaxHits]])
  /\ \A v \in Fighters : CurrentRound > 0 =>
       health[v] + MapThenSumSet(LAMBDA a : damage[CurrentRound][v][a], Fighters) = 100

\* Whoever is credited with an assist while the demo is read has hurt that
\* victim in that round, for at least the threshold, and did not kill him.
AssistsAreEarned == ~done => \A i \in DOMAIN gunfights :
  LET g == gunfights[i]
  IN g.assist # Nobody => /\ g.assist # g.killer
                          /\ damage[g.round][g.victim][g.assist] >= Threshold

\* The gunfights that are sent give each player the assists of his round event.
AssistsAggregated ==
  done => \A r \in 1..LastRound, p \in Fighters : rounds[r][p].assists = Assists(r, p)

\* And the kills.
KillsAggregated ==
  done => \A r \in 1..LastRound, p \in Fighters : rounds[r][p].kills = Kills(r, p)

\* Neither is true: a kill after the round's end is in no round event.  Of the
\* kills before it every one is counted, and a later one in no round.
InTime(r) == {i \in DOMAIN gunfights : gunfights[i].round = r /\ ~gunfights[i].late}
KillsInTime == \A r \in DOMAIN rounds, p \in Fighters :
  rounds[r][p].kills = Cardinality({i \in InTime(r) : gunfights[i].killer = p})

\* The assists of the last round are those of its gunfights before its end, though
\* these are searched again after hits and kills that followed it: unless two
\* helpers hurt a victim of theirs alike.
Equals(g) == \E a, b \in Helpers(g.round, g.victim, g.killer) :
  a # b /\ damage[g.round][g.victim][a] = damage[g.round][g.victim][b]
LastRoundAggregated ==
  done /\ (\A i \in InTime(LastRound) : ~Equals(gunfights[i])) =>
    \A p \in Fighters : rounds[LastRound][p].assists
                           = Cardinality({i \in InTime(LastRound) : gunfights[i].assist = p})
=============================================================================
