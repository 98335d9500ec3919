---------------------------- MODULE MCDemoQueue ----------------------------
(* Instances of DemoQueue for TLC.                                          *)
EXTENDS DemoQueue, TLC

CONSTANTS d1, d2, d3, d4, w1, w2, w3

DemoSymmetry == Permutations(Workers) \cup Permutations(Jobs)
=============================================================================
