------------------------------ MODULE MCClans ------------------------------
(* Instances of Clans for TLC.                                              *)
EXTENDS Clans, TLC

CONSTANTS u1, u2, u3, m1, r1, r2

\* u1 and u2 play m1 together against u3.
MCTeamOf ==
  [m \in Matches |-> [u \in {u1, u2, u3} |-> IF u = u3 THEN "T" ELSE "CT"]]

RequestSymmetry == Permutations(Requests)
=============================================================================
