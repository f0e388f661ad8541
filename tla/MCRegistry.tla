----------------------------- MODULE MCRegistry -----------------------------
(* Two requests at a time, three in all, for rooms of a server that takes  *)
(* one, over definitions of two lengths, and two crashes.  The files are   *)
(* never all in use.                                                       *)
EXTENDS Registry, TLC

MCDefinitions == {1, 2}
MCFiles == 1..6
MCSymmetry == Permutations(Ids) \union Permutations(Requests)
=============================================================================
