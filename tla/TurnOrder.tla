----------------------------- MODULE TurnOrder -----------------------------
(***************************************************************************)
(* What the turn machinery of the engine promises to everybody who plays,  *)
(* stated without buffers, budgets, triggers or claims lists: one seat     *)
(* holds the turn; the turn passes to the next seat in order and the round *)
(* number grows with it, or a resolved claim window awards the turn to a   *)
(* seat without a new round; nothing happens once the game is over.        *)
(* GameTurn implements this specification.                                 *)
(***************************************************************************)
EXTENDS Integers

CONSTANT NumPlayers

VARIABLES
  holder,     (* the seat whose turn it is                                 *)
  round,      (* how often the turn has been passed on                     *)
  claiming,   (* claims on the last action are being collected             *)
  over        (* the game has ended                                        *)

vars == <<holder, round, claiming, over>>

Seats == 0..(NumPlayers - 1)

Init ==
  /\ holder = 0
  /\ round = 0
  /\ claiming = FALSE
  /\ over = FALSE

PassedOn ==
  /\ holder' = (holder + 1) % NumPlayers
  /\ round' = round + 1

(* An ordinary turn; a resignation passes the turn on and ends the game.   *)
TakeTurn ==
  /\ ~over /\ ~claiming
  /\ PassedOn
  /\ over' \in BOOLEAN
  /\ UNCHANGED claiming

(* An end condition is met: the player who moved keeps the turn.           *)
Finish ==
  /\ ~over /\ ~claiming
  /\ over' = TRUE
  /\ UNCHANGED <<holder, round, claiming>>

(* The action just taken may be claimed by others; that action may have    *)
(* been a resignation.                                                     *)
CallForClaims ==
  /\ ~over /\ ~claiming
  /\ claiming' = TRUE
  /\ over' \in BOOLEAN
  /\ UNCHANGED <<holder, round>>

(* Nobody wants it.                                                        *)
EverybodyDeclines ==
  /\ claiming
  /\ claiming' = FALSE
  /\ PassedOn
  /\ UNCHANGED over

(* One seat gets it, and moves next.                                       *)
Award ==
  /\ claiming
  /\ claiming' = FALSE
  /\ holder' \in Seats
  /\ UNCHANGED <<round, over>>

Next == TakeTurn \/ Finish \/ CallForClaims \/ EverybodyDeclines \/ Award

Spec == Init /\ [][Next]_vars
=============================================================================
