------------------------------- MODULE MCRoom -------------------------------
(***************************************************************************)
(* Room for TLC: a game of two named players with one trigger, and a game  *)
(* of two players with one simultaneous phase.                             *)
(***************************************************************************)
EXTENDS Room

CONSTANTS c1, c2, c3

MCPair == {c1, c2}
MCTrio == {c1, c2, c3}

MCTriggers ==
  <<[onAction |-> "place", eligible |-> "all_except_current",
     actions |-> {"pon"}, priority |-> <<"pon">>, default |-> "skip"]>>

MCNoTriggers == <<>>

MCPlace == {"place"}
MCPlaceOrPass == {"place", "pass"}

MCOneAtATime == <<>>
MCAllAtOnce == <<TRUE>>
=============================================================================
