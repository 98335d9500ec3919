---------------------------- MODULE MCParserJob ----------------------------
(* Instances of ParserJob for TLC.                                          *)
EXTENDS ParserJob, TLC

\* Round 41 is reached in a sixth overtime; its percentage passes 100.
MCRoundMarks == <<1, 41>>

\* A demo without rounds: only the updates around the parse remain.
MCNoRounds == <<>>

RunSymmetry == Permutations(Runs)
=============================================================================
