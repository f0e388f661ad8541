----------------------------- MODULE MCGameTurn -----------------------------
(***************************************************************************)
(* GameTurn for TLC: three players, one ordinary and one simultaneous      *)
(* phase, and a definition with a trigger of every kind the engine tells   *)
(* apart.                                                                  *)
(***************************************************************************)
EXTENDS GameTurn

(* In this order: a discard claim as in the shipped mahjong definition     *)
(* (on an action type the engine implements), with a claim that has no     *)
(* priority; a window for the next player whose default is also ranked;    *)
(* an eligibility rule the engine does not know; and a trigger that opens  *)
(* a window on a finished game.                                            *)
MCTriggers ==
  <<[onAction |-> "place", eligible |-> "all_except_current",
     actions |-> {"ron", "pon"}, priority |-> <<"ron", "pon">>, default |-> "skip"],
    [onAction |-> "flip", eligible |-> "next_in_order",
     actions |-> {"take", "bid"}, priority |-> <<"skip", "take">>, default |-> "skip"],
    [onAction |-> "commit", eligible |-> "owner_only",
     actions |-> {"pon"}, priority |-> <<"pon">>, default |-> "skip"],
    [onAction |-> "resign", eligible |-> "all_except_current",
     actions |-> {"pon"}, priority |-> <<"pon">>, default |-> "skip"]>>

MCKinds == {"place", "flip", "resign", "commit", "reveal"}

MCPhases == <<FALSE, TRUE>>
=============================================================================
