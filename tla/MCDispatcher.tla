---------------------------- MODULE MCDispatcher ----------------------------
(* Small instances of Dispatcher for TLC. *)
EXTENDS Dispatcher

CONSTANTS a, b, c, h, k

\* a and b are copies of the same bytes in one album, c has bytes of its own
\* and an album of its own.
TwinHash == [i \in Item |-> IF i = c THEN k ELSE h]
TwinGroup == [i \in Item |-> IF i = c THEN "g2" ELSE "g1"]
OwnGroup == [i \in Item |-> i]
=============================================================================
