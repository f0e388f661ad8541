---------------------------- MODULE MentalPoker -----------------------------
(***************************************************************************)
(* The mental poker of mental_poker.rs: a MentalPokerSession and the       *)
(* players who encrypt, shuffle and deal, with the shuffle steps in any    *)
(* order, late and more than once on their way.                            *)
(*                                                                         *)
(* The arithmetic is the code's, over a small prime.  A hash of a deck is  *)
(* the deck: hash_deck is taken to have no collisions; step_hash, which    *)
(* nothing compares, is left out.  Players are the positions of            *)
(* player_names, and they follow the protocol: a step is the deck they saw *)
(* encrypted and permuted.  Nothing sets the phase Revealed.               *)
(***************************************************************************)
EXTENDS Integers, FiniteSets, Sequences, SequencesExt

CONSTANTS
  Prime,        (* the modulus                                             *)
  DeckSize,     (* deck_size                                               *)
  NumPlayers,   (* the number of player_names                              *)
  Keys,         (* the encryption keys that generate_keypair may pick      *)
  MaxSteps      (* a bound on the steps a player computes                  *)

ASSUME PokerAssumption ==
  /\ DeckSize \in 1..(Prime - 2)
  /\ NumPlayers \in Nat \ {0} /\ MaxSteps \in Nat

ASSUME PrimeAssumption ==
  Prime \in Nat \ {0, 1} /\ \A k \in 2..(Prime - 1) : Prime % k # 0

Players == 1..NumPlayers
Cards == 0..(DeckSize - 1)
Positions == 1..DeckSize
Unknown == 0           (* a recipient who is not in player_names *)

(* The phases: Setup, Shuffling with the player expected, and Ready.       *)
Setup == 0
Ready == NumPlayers + 1

-----------------------------------------------------------------------------
(* Keys and cards *)

(* m^k mod p                                                               *)
PowMod(m, k) == LET power[j \in 0..k] == IF j = 0 THEN 1 ELSE (power[j - 1] * m) % Prime
                IN power[k]

Coprime(a, b) == \A k \in 2..a : ~(a % k = 0 /\ b % k = 0)

(* What generate_keypair accepts, and the inverse it computes.             *)
IsKey(e) == e \in 2..(Prime - 2) /\ Coprime(e, Prime - 1)
(* A slip: the inverse is taken modulo the prime.                          *)
DecryptKeyModPrime(e) == CHOOSE d \in 1..(Prime - 1) : (e * d) % Prime = 1

DecryptKey(e) == CHOOSE d \in 1..(Prime - 2) : (e * d) % (Prime - 1) = 1

ASSUME KeysAssumption == \A e \in Keys : IsKey(e)

Encrypt(deck, e) == [i \in DOMAIN deck |-> PowMod(deck[i], e)]

(* 0 and 1 stand for themselves under every key and are not used.          *)
EncodeCard(c) == c + 2
DecodeCard(x) == x - 2
BuildDeck == [i \in Positions |-> EncodeCard(i - 1)]

-----------------------------------------------------------------------------
VARIABLES
  key,      (* the encryption key of a player                              *)
  sent,     (* the steps on their way, which stay there                    *)
  steps,    (* how many steps a player has computed                        *)
  phase,    (* Setup, the player expected to shuffle, or Ready             *)
  deck,     (* session.deck                                                *)
  history,  (* session.shuffle_history                                     *)
  dealt     (* session.dealt_cards, by position                            *)

session == <<phase, deck, history, dealt>>
vars == <<key, sent, steps, session>>

NotDealt == [to |-> Unknown, card |-> 0]
IsDealt(i) == dealt[i] # NotDealt

PokerInit ==
  /\ key \in [Players -> Keys]
  /\ sent = {}
  /\ steps = [n \in Players |-> 0]
  /\ phase = Setup
  /\ deck = BuildDeck
  /\ history = <<>>
  /\ dealt = [i \in Positions |-> NotDealt]

(* encrypt_and_shuffle: every card encrypted, and then any permutation.    *)
Permuted(d) == {[i \in DOMAIN d |-> d[f[i]]] :
                  f \in {g \in [DOMAIN d -> DOMAIN d] : Cardinality({g[i] : i \in DOMAIN d}) = Len(d)}}

(* A player shuffles the deck as he sees it now, in his turn or not, and   *)
(* again when he heard nothing.                                            *)
EncryptAndShuffle(n) ==
  /\ steps[n] < MaxSteps
  /\ \E d \in Permuted(Encrypt(deck, key[n])) :
       sent' = sent \union {[player |-> n, deck |-> d, prev |-> deck]}
  /\ steps' = [steps EXCEPT ![n] = @ + 1]
  /\ UNCHANGED <<key, session>>

(* A slip: it is always the first player's turn.                           *)
ExpectedFirst == 1

(* The player of the step, in the phase as the recursive call leaves it.   *)
Expected == IF phase = Setup THEN 1 ELSE phase

(* A slip: whoever comes next may shuffle.                                 *)
FitsAnyPlayer(step) == step.prev = deck /\ Len(step.deck) = DeckSize
(* A slip: the deck the step starts from is not compared.                  *)
FitsAnyDeck(step) == step.player = Expected /\ Len(step.deck) = DeckSize

Fits(step) ==
  /\ step.player = Expected
  /\ step.prev = deck
  /\ Len(step.deck) = DeckSize

ApplyShuffleStep(step) ==
  /\ phase # Ready
  /\ IF Fits(step)
       THEN /\ deck' = step.deck
            /\ history' = Append(history, step)
            /\ phase' = Expected + 1        (* Ready after the last *)
       ELSE /\ phase' = Expected         (* setup is over, refused or not *)
            /\ UNCHANGED <<deck, history>>
  /\ UNCHANGED <<key, sent, steps, dealt>>

(* The encryption of these players taken off, in their order.              *)
Opened(x, who) ==
  LET opened[n \in 0..NumPlayers] ==
        IF n = 0 THEN x
        ELSE IF n \in who THEN PowMod(opened[n - 1], DecryptKey(key[n]))
        ELSE opened[n - 1]
  IN opened[NumPlayers]

(* deal_card_with_keys: the others take their encryption off, and then the *)
(* recipient his own.                                                      *)
DealWithKeys(x, n) == PowMod(Opened(x, Players \ {n}), DecryptKey(key[n]))

(* A slip: a position may be dealt again.                                  *)
MayDealAgain(i) == phase = Ready

MayDeal(i) == phase = Ready /\ ~IsDealt(i)

(* record_deal of what the players uncovered together.                     *)
RecordDeal(i, n) ==
  /\ MayDeal(i)
  /\ dealt' = [dealt EXCEPT ![i] = [to |-> n, card |-> DecodeCard(DealWithKeys(deck[i], n))]]
  /\ UNCHANGED <<key, sent, steps, phase, deck, history>>

PokerNext ==
  \/ \E n \in Players : EncryptAndShuffle(n)
  \/ \E step \in sent : ApplyShuffleStep(step)
  \/ \E i \in Positions, n \in Players : RecordDeal(i, n)

PokerSpec == PokerInit /\ [][PokerNext]_vars

-----------------------------------------------------------------------------
(* verify_game *)

ChainHolds ==
  \A k \in DOMAIN history :
    history[k].prev = IF k = 1 THEN BuildDeck ELSE history[k - 1].deck

FinalDeck == IF history = <<>> THEN BuildDeck ELSE Last(history).deck

DecryptAll(x) == Opened(x, Players)

VerifyGame ==
  /\ ChainHolds
  /\ \A i \in Positions : IsDealt(i) => DecryptAll(FinalDeck[i]) = EncodeCard(dealt[i].card)

-----------------------------------------------------------------------------
(* Properties *)

(* Every variable has its type, the player expected is the one after those *)
(* whose steps were taken, and nothing is dealt before the last step.      *)
PokerTypeOK ==
  /\ key \in [Players -> Keys]
  /\ \A step \in sent : step.player \in Players
  /\ phase \in Setup..Ready
  /\ phase = Setup => history = <<>>
  /\ phase # Setup => Len(history) = phase - 1
  /\ \A i \in Positions : IsDealt(i) => phase = Ready

(* Whatever steps arrive late, twice or in the wrong order: with everybody *)
(* through, the keys of all players open the deck to exactly the cards it  *)
(* was built from (mental_poker.rs:463).                                   *)
DeckIsAllCards ==
  phase = Ready =>
    {DecryptAll(deck[i]) : i \in Positions} = {EncodeCard(c) : c \in Cards}

(* A game whose players followed the protocol passes verify_game whenever  *)
(* it is asked (mental_poker.rs:339): the steps that were refused have     *)
(* left nothing in the history, and the order in which keys are taken off  *)
(* does not matter.                                                        *)
HonestGameVerifies == VerifyGame

(* Dealing is dealing from one deck: with hand for who was dealt a card,   *)
(* the session implements Dealer.                                          *)
CardHolder(c) ==
  LET at == {i \in Positions : IsDealt(i) /\ dealt[i].card = c}
  IN IF at = {} THEN Unknown ELSE dealt[CHOOSE i \in at : TRUE].to

Ideal == INSTANCE Dealer WITH
  Recipients <- Players, Undealt <- Unknown,
  hand <- [c \in Cards |-> CardHolder(c)]

ImplementsDealer == Ideal!DealerSpec
=============================================================================
