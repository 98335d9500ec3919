----------------------------- MODULE MCParsing -----------------------------
(* Instances of what the parser makes of a demo, for TLC: its rounds and    *)
(* teams, its damage assists or the rows of one round.  They share no       *)
(* state, so each is run by itself, with the others at rest.                *)
EXTENDS MatchRounds, DamageAssists, RoundMetrics, TLC

CONSTANTS h1, h2, a1, p1, p2, p3, y1

VARIABLE part

HomeAway == [p \in Players |-> IF p = a1 THEN "away" ELSE "home"]
MCTeams == [p \in Entered |-> IF p = y1 THEN "B" ELSE "A"]
FighterSymmetry == Permutations(Fighters)

ParsingInit ==
    /\ part \in {"rounds", "assists", "metrics"}
    /\ Init /\ AssistsInit /\ MetricsInit
    /\ part # "rounds" => server = "valve" /\ phase = "warmup"
    /\ part # "metrics" => standing = <<Entered>>

ParsingNext ==
    \/ part = "rounds" /\ Next /\ UNCHANGED <<part, assistVars, metricVars>>
    \/ part = "assists" /\ AssistsNext /\ UNCHANGED <<part, vars, metricVars>>
    \/ part = "metrics" /\ MetricsNext /\ UNCHANGED <<part, vars, assistVars>>

ParsingSpec == ParsingInit /\ [][ParsingNext]_<<part, vars, assistVars, metricVars>>
=============================================================================
