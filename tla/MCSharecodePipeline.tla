------------------------ MODULE MCSharecodePipeline ------------------------
(* Instances of SharecodePipeline for TLC.                                  *)
EXTENDS SharecodePipeline, TLC

CONSTANTS u1, u2, c1, c2, c3

\* u1 played c1 alone and c2 with u2.
MCChain == [u \in Users |-> IF u = u1 THEN <<c1, c2>> ELSE <<c2>>]
\* One user, three matches.
MCLongChain == [u \in Users |-> <<c1, c2, c3>>]
=============================================================================
