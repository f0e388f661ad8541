--------------------------- MODULE MCMentalPoker ----------------------------
(* Two players with any two keys modulo 11, a deck of two, and two steps   *)
(* of each player on their way.                                            *)
EXTENDS MentalPoker

MCKeys == {3, 7, 9}
=============================================================================
