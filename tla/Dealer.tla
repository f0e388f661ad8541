------------------------------- MODULE Dealer -------------------------------
(* What a shuffled deck promises: every card is dealt at most once, to one *)
(* player, and stays his.  mental_poker.rs implements it without a dealer. *)
EXTENDS Naturals

CONSTANTS Cards, Recipients, Undealt

VARIABLE hand   (* who has a card *)

DealerInit == hand = [c \in Cards |-> Undealt]

DealTo(r) ==
  \E c \in Cards : /\ hand[c] = Undealt
                   /\ hand' = [hand EXCEPT ![c] = r]

DealerNext == \E r \in Recipients : DealTo(r)

DealerSpec == DealerInit /\ [][DealerNext]_hand
=============================================================================
