-------------------------- MODULE MCEventDelivery --------------------------
(* Instances of EventDelivery for TLC.                                      *)
EXTENDS EventDelivery, TLC

CONSTANTS j1, j2, h1, h2

Load(f) == [k \in Kinds |-> IF k \in DOMAIN f THEN f[k] ELSE 0]

\* Lists that fill one batch or more, with and without a rest, between empty
\* lists.  Of three players the first is not known to the web application, the
\* second has no rank.
MCLoads ==
  {Load([k \in {"damage", "aim"} |-> IF k = "damage" THEN 3 ELSE 1]),
   Load([k \in {"grenade", "round"} |-> 1]),
   Load([k \in {"player-match", "achievements"} |->
           IF k = "player-match" THEN 4 ELSE 3])}
MCSizeOf ==
  [k \in Batched |-> CASE k = "grenade" -> 1 [] k = "player-match" -> 3 [] OTHER -> 2]

\* The smallest loads.
MCShortLoads == {Load([k \in {"round"} |-> 1])}

OneHost  == [j \in Jobs |-> h1]
TwoHosts == [j \in Jobs |-> IF j = j1 THEN h1 ELSE h2]
=============================================================================
