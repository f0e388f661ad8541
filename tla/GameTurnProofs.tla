--------------------------- MODULE GameTurnProofs ---------------------------
(***************************************************************************)
(* Proofs about GameTurn, for every number of players, every definition    *)
(* (triggers, priorities, phases) and every budget.                        *)
(***************************************************************************)
EXTENDS GameTurn, FiniteSetTheorems, WellFoundedInduction, TLAPS

-----------------------------------------------------------------------------
(* Helpers *)

(* A non-empty set of numbers has a least element: Min is well defined.    *)
LEMMA LeastExists ==
  ASSUME NEW S \in SUBSET Nat, S # {}
  PROVE  \E x \in S : \A y \in S : x <= y
<1>1. \E x \in S : \A y \in S : ~ (<<y, x>> \in OpToRel(<, Nat))
  BY NatLessThanWellFounded, WFMin
<1>2. PICK x \in S : \A y \in S : ~ (<<y, x>> \in OpToRel(<, Nat))
  BY <1>1
<1>3. \A y \in S : ~ (y < x)
  BY <1>2 DEF OpToRel
<1> QED BY <1>3

(* What the two searches of resolve_claim_window rely on: the minimum of a *)
(* non-empty set of positions is one of them.                              *)
LEMMA MinIsLeast ==
  ASSUME NEW S \in SUBSET Nat, S # {}
  PROVE  Min(S) \in S /\ \A x \in S : Min(S) <= x
BY LeastExists DEF Min

(* The next player in order is a player.                                   *)
LEMMA NextPlayer == ASSUME turn \in Players PROVE (turn + 1) % NumPlayers \in Players
BY NumPlayersAssumption DEF Players

LEMMA TriggerType ==
  /\ Len(Triggers) \in Nat
  /\ DOMAIN Triggers = 1..Len(Triggers)
  /\ \A t \in DOMAIN Triggers : Triggers[t] \in Trigger
BY TriggersAssumption

(* An executed action is matched by one of the definition's triggers, and  *)
(* the first of them exists.                                               *)
LEMMA FirstMatchingType ==
  ASSUME NEW kind, Matching(kind) # {}
  PROVE  FirstMatching(kind) \in DOMAIN Triggers /\ FirstMatching(kind) # 0
<1>1. Matching(kind) \in SUBSET Nat
  BY TriggerType DEF Matching
<1>2. FirstMatching(kind) \in Matching(kind)
  BY <1>1, MinIsLeast DEF FirstMatching
<1> QED BY <1>2, TriggerType DEF Matching

(* The eligible players are players, and with two or more of them the one  *)
(* whose turn it is is not among them.                                     *)
LEMMA EligibleType ==
  ASSUME turn \in Players, NEW rule
  PROVE  /\ EligiblePlayers(rule) \in SUBSET Players
         /\ NumPlayers > 1 => turn \notin EligiblePlayers(rule)
<1>1. NumPlayers > 1 => (turn + 1) % NumPlayers # turn
  BY NumPlayersAssumption DEF Players
<1> QED BY <1>1, NextPlayer DEF EligiblePlayers

LEMMA EventsOfType == ASSUME NEW kind PROVE EventsOf(kind) \in SUBSET (0..3)
BY DEF EventsOf

LEMMA RunningCountType ==
  ASSUME NEW b, NEW c \in RunningCounts(b)
  PROVE  c[NumPlayers - 1] \in Nat
BY NumPlayersAssumption DEF RunningCounts, Players

-----------------------------------------------------------------------------
(* Types *)

LEMMA CommitsAfterType ==
  ASSUME commits \in SUBSET Players, NEW p \in Players, NEW kind
  PROVE  CommitsAfter(p, kind) \in SUBSET Players
BY DEF CommitsAfter

(* finalize_turn keeps every type, whichever way it ends.                  *)
LEMMA FinalizeType ==
  ASSUME TypeOK, NEW n \in Nat, NEW kind, NEW st \in {"in_progress", "finished"},
         NEW c \in SUBSET Players, FinalizeTurn(n, kind, st, c)
  PROVE  /\ status' \in {"in_progress", "finished"}
         /\ decided' \in BOOLEAN
         /\ turn' \in Players
         /\ sequence' \in Nat
         /\ events' \in Nat
         /\ trigger' \in {0} \union DOMAIN Triggers
         /\ eligible' \in SUBSET Players
         /\ claims' \in Seq(Claim)
         /\ commits' \in SUBSET Players
         /\ phase' = phase
<1>1. CASE FinalizeRefused(n, kind, st, c)
  BY <1>1 DEF FinalizeRefused, Settle, TypeOK, window
<1>2. CASE EndConditionMet(n, st, c)
  BY <1>2 DEF EndConditionMet, Settle, TypeOK, window
<1>3. CASE OpenWindow(n, kind, st, c)
  <2>1. trigger' \in DOMAIN Triggers
    BY <1>3, FirstMatchingType DEF OpenWindow
  <2>2. eligible' \in SUBSET Players
    BY <1>3, EligibleType DEF OpenWindow, TypeOK
  <2> QED BY <1>3, <2>1, <2>2 DEF OpenWindow, Settle, TypeOK
<1>4. CASE PassTurn(n, kind, st, c)
  BY <1>4, NextPlayer DEF PassTurn, AdvanceTurn, Settle, TypeOK, window
<1> QED BY <1>1, <1>2, <1>3, <1>4 DEF FinalizeTurn

(* The winner that resolve_claim_window finds is one of the claimants: its *)
(* two searches cannot fail once somebody made a ranked claim.             *)
LEMMA WinnerIsClaimant ==
  ASSUME NEW t \in DOMAIN Triggers, NEW cl \in Seq(Claim), ClaimedRanks(t, cl) # {}
  PROVE  /\ Min(ClaimedRanks(t, cl)) \in ClaimedRanks(t, cl)
         /\ \A r \in ClaimedRanks(t, cl) : Min(ClaimedRanks(t, cl)) <= r
         /\ Min(BestClaims(t, cl)) \in BestClaims(t, cl)
         /\ \A i \in BestClaims(t, cl) : Min(BestClaims(t, cl)) <= i
         /\ Winner(t, cl) \in Players
<1>1. ClaimedRanks(t, cl) \in SUBSET Nat
  BY TriggerType DEF ClaimedRanks, Trigger
<1>2. /\ Min(ClaimedRanks(t, cl)) \in ClaimedRanks(t, cl)
      /\ \A r \in ClaimedRanks(t, cl) : Min(ClaimedRanks(t, cl)) <= r
  BY <1>1, MinIsLeast
<1>3. BestClaims(t, cl) \in SUBSET Nat /\ BestClaims(t, cl) # {}
  <2> DEFINE best == Min(ClaimedRanks(t, cl))
  <2>1. \E i \in DOMAIN cl : cl[i].claim = Triggers[t].priority[best]
    <3> HIDE DEF best
    <3> QED BY <1>2 DEF ClaimedRanks, best
  <2>2. DOMAIN cl \in SUBSET Nat
    OBVIOUS
  <2> QED BY <2>1, <2>2 DEF BestClaims
<1>4. /\ Min(BestClaims(t, cl)) \in BestClaims(t, cl)
      /\ \A i \in BestClaims(t, cl) : Min(BestClaims(t, cl)) <= i
  BY <1>3, MinIsLeast
<1>5. Winner(t, cl) \in Players
  <2> DEFINE first == Min(BestClaims(t, cl))
  <2>1. first \in DOMAIN cl
    BY <1>4 DEF BestClaims
  <2> HIDE DEF first
  <2>2. cl[first] \in Claim
    BY <2>1
  <2>3. Winner(t, cl) = cl[first].player
    BY DEF Winner, first
  <2> QED BY <2>2, <2>3 DEF Claim
<1> QED BY <1>2, <1>4, <1>5

LEMMA ResolveType ==
  ASSUME TypeOK, trigger # 0, NEW cl \in Seq(Claim), Resolve(cl)
  PROVE  turn' \in Players /\ sequence' \in Nat
<1>1. trigger \in DOMAIN Triggers
  BY DEF TypeOK
<1>2. CASE ClaimedRanks(trigger, cl) # {} /\ turn' = Winner(trigger, cl) /\ UNCHANGED sequence
  BY <1>1, <1>2, WinnerIsClaimant DEF TypeOK
<1>3. CASE AdvanceTurn
  BY <1>3, NextPlayer DEF AdvanceTurn, TypeOK
<1> QED BY <1>2, <1>3 DEF Resolve

LEMMA DefaultOfTrigger ==
  ASSUME NEW t \in DOMAIN Triggers
  PROVE  Triggers[t].default \in STRING /\ ValidClaims(t) \in SUBSET STRING
BY TriggerType DEF Trigger, ValidClaims

LEMMA PendingType ==
  ASSUME TypeOK
  PROVE  IsFiniteSet(Pending) /\ Cardinality(Pending) \in Nat /\ Pending \in SUBSET Players
<1>1. IsFiniteSet(Players)
  BY FS_Interval, NumPlayersAssumption DEF Players
<1> QED BY <1>1, FS_Subset, FS_CardinalityType DEF Pending, TypeOK

(* A timeout completes the answers with defaults, and only adds to them.   *)
LEMMA WithDefaultsType ==
  ASSUME TypeOK, trigger # 0, NEW order \in Bijection(1..Cardinality(Pending), Pending)
  PROVE  /\ WithDefaults(order) \in Seq(Claim)
         /\ DOMAIN claims \subseteq DOMAIN WithDefaults(order)
         /\ \A i \in DOMAIN WithDefaults(order) :
              IF i \in DOMAIN claims
                THEN WithDefaults(order)[i] = claims[i]
                ELSE WithDefaults(order)[i].claim = Triggers[trigger].default
<1>1. order \in [1..Cardinality(Pending) -> Players]
  BY PendingType DEF Bijection, Injection, Surjection
<1>2. Triggers[trigger].default \in STRING
  BY DefaultOfTrigger DEF TypeOK
<1> DEFINE added == [i \in DOMAIN order |->
                      [player |-> order[i], claim |-> Triggers[trigger].default]]
<1>3. added \in Seq(Claim)
  <2>1. \A i \in DOMAIN order :
          [player |-> order[i], claim |-> Triggers[trigger].default] \in Claim
    BY <1>1, <1>2 DEF Claim
  <2>2. added \in [1..Cardinality(Pending) -> Claim]
    BY <1>1, <2>1
  <2>3. Cardinality(Pending) \in Nat
    BY PendingType
  <2> HIDE DEF added
  <2> QED BY <2>2, <2>3
<1>4. WithDefaults(order) = claims \o added
  BY DEF WithDefaults
<1>5. \A i \in 1..Len(added) : added[i].claim = Triggers[trigger].default
  <2>1. \A i \in DOMAIN added : added[i].claim = Triggers[trigger].default
    OBVIOUS
  <2> HIDE DEF added
  <2> QED BY <1>3, <2>1
<1> HIDE DEF added
<1>6. claims \in Seq(Claim)
  BY DEF TypeOK
<1>7. /\ claims \o added \in Seq(Claim)
      /\ Len(claims \o added) = Len(claims) + Len(added)
      /\ Len(claims) \in Nat /\ Len(added) \in Nat
      /\ \A i \in 1..Len(claims \o added) :
           (claims \o added)[i] = IF i <= Len(claims) THEN claims[i] ELSE added[i - Len(claims)]
  BY <1>3, <1>6
<1>8. \A i \in 1..Len(claims \o added) :
        IF i \in 1..Len(claims) THEN (claims \o added)[i] = claims[i]
                                ELSE (claims \o added)[i].claim = Triggers[trigger].default
  BY <1>5, <1>7
<1> QED BY <1>4, <1>6, <1>7, <1>8

LEMMA RoundType ==
  ASSUME NEW b, NEW upto
  PROVE  /\ RoundStatus(b, upto) \in {"in_progress", "finished"}
         /\ RoundCommits(b, upto) \in SUBSET Players
BY DEF RoundStatus, RoundCommits

LEMMA TypeStep ==
  ASSUME TypeOK, [Next]_vars
  PROVE  TypeOK'
<1>1. ASSUME NEW p \in Players, NEW kind \in Kinds, ApplyAction(p, kind)
      PROVE  TypeOK'
  <2>1. PICK n \in EventsOf(kind) :
          FinalizeTurn(n, kind, Resigned(kind), CommitsAfter(p, kind))
    BY <1>1 DEF ApplyAction
  <2>2. n \in Nat
    BY EventsOfType
  <2>3. CommitsAfter(p, kind) \in SUBSET Players
    BY CommitsAfterType DEF TypeOK
  <2>4. Resigned(kind) \in {"in_progress", "finished"}
    BY DEF Resigned
  <2>5. buffer' = buffer
    BY <1>1 DEF ApplyAction
  <2> QED BY <2>1, <2>2, <2>3, <2>4, <2>5, FinalizeType DEF TypeOK
<1>2. ASSUME NEW p \in Players, NEW kind \in Kinds, RefuseAction(p, kind)
      PROVE  TypeOK'
  BY <1>2 DEF RefuseAction, CommitsRefused, TypeOK, window
<1>3. ASSUME NEW p \in Players, NEW kind \in Kinds, SubmitSimultaneous(p, kind)
      PROVE  TypeOK'
  BY <1>3 DEF SubmitSimultaneous, Buffered, TypeOK, window
<1>4. ASSUME NEW p \in Players, NEW kind \in Kinds, ResolveRound(p, kind)
      PROVE  TypeOK'
  <2> DEFINE b == Buffered(p, kind)
  <2>1. PICK c \in RunningCounts(b) :
          FinalizeTurn(c[NumPlayers - 1], NoAction,
                       RoundStatus(b, NumPlayers), RoundCommits(b, NumPlayers))
    BY <1>4 DEF ResolveRound
  <2>2. buffer' = EmptyBuffer
    BY <1>4 DEF ResolveRound
  <2> HIDE DEF b
  <2>3. c[NumPlayers - 1] \in Nat
    BY RunningCountType
  <2>4. /\ status' \in {"in_progress", "finished"}
        /\ decided' \in BOOLEAN
        /\ turn' \in Players
        /\ sequence' \in Nat
        /\ events' \in Nat
        /\ trigger' \in {0} \union DOMAIN Triggers
        /\ eligible' \in SUBSET Players
        /\ claims' \in Seq(Claim)
        /\ commits' \in SUBSET Players
        /\ phase' = phase
    BY <2>1, <2>3, RoundType, FinalizeType
  <2> QED BY <2>2, <2>4 DEF TypeOK, EmptyBuffer
<1>5. ASSUME NEW p \in Players, NEW kind \in Kinds, AbortRound(p, kind)
      PROVE  TypeOK'
  <2> DEFINE b == Buffered(p, kind)
  <2>1. /\ \E failed \in Players :
             /\ status' = RoundStatus(b, failed)
             /\ commits' \in {RoundCommits(b, failed)} \union
                  IF b[failed] = "reveal" THEN {RoundCommits(b, failed) \ {failed}} ELSE {}
        /\ buffer' = EmptyBuffer
        /\ UNCHANGED <<decided, turn, sequence, events, phase, window>>
    BY <1>5 DEF AbortRound
  <2> HIDE DEF b
  <2>2. commits' \in SUBSET Players /\ status' \in {"in_progress", "finished"}
    BY <2>1, RoundType
  <2> QED BY <2>1, <2>2 DEF TypeOK, EmptyBuffer, window
<1>6. ASSUME NEW p \in Players, trigger # 0, NEW c \in ValidClaims(trigger), ApplyClaim(p, c)
      PROVE  TypeOK'
  <2>1. c \in STRING
    BY <1>6, DefaultOfTrigger DEF TypeOK
  <2>2. WithClaim(p, c) \in Seq(Claim)
    BY <2>1 DEF WithClaim, Claim, TypeOK
  <2>3. CASE SubmitClaim(p, c)
    BY <2>2, <2>3 DEF SubmitClaim, TypeOK
  <2>4. CASE LastClaim(p, c)
    <3>1. turn' \in Players /\ sequence' \in Nat
      BY <1>6, <2>2, <2>4, ResolveType DEF LastClaim
    <3> QED BY <2>4, <3>1 DEF LastClaim, Resolve, TypeOK
  <2> QED BY <1>6, <2>3, <2>4 DEF ApplyClaim
<1>7. CASE ClaimTimeout
  <2>1. PICK order \in Bijection(1..Cardinality(Pending), Pending) :
          Resolve(WithDefaults(order))
    BY <1>7 DEF ClaimTimeout
  <2>2. turn' \in Players /\ sequence' \in Nat
    BY <1>7, <2>1, WithDefaultsType, ResolveType DEF ClaimTimeout
  <2>3. events' \in Nat
    <3>1. Cardinality(Pending) \in Nat
      BY PendingType
    <3> QED BY <1>7, <3>1 DEF ClaimTimeout, TypeOK
  <2> QED BY <2>1, <2>2, <2>3 DEF Resolve, TypeOK
<1>8. ASSUME NEW i \in 0..Len(Phases), AdvancePhase(i)
      PROVE  TypeOK'
  BY <1>8 DEF AdvancePhase, TypeOK, window
<1>9. CASE UNCHANGED vars
  BY <1>9 DEF vars, TypeOK, window
<1> QED BY <1>1, <1>2, <1>3, <1>4, <1>5, <1>6, <1>7, <1>8, <1>9 DEF Next

(* The state has its types in every reachable state.                       *)
THEOREM TypeCorrect == Spec => []TypeOK
<1>1. Init => TypeOK
  BY NumPlayersAssumption, PhasesAssumption
     DEF Init, TypeOK, Players, EmptyBuffer
<1> QED BY <1>1, TypeStep, PTL DEF Spec

-----------------------------------------------------------------------------
(* Rounds and endings *)

(* Whoever completes a simultaneous round finds it resolved or aborted: in *)
(* either case the buffer is empty, and there is somebody to play again.   *)
LEMMA RoundStep ==
  ASSUME TypeOK, RoundNotComplete, [Next]_vars
  PROVE  RoundNotComplete'
<1>1. buffer' = EmptyBuffer => RoundNotComplete'
  BY NumPlayersAssumption DEF RoundNotComplete, Complete, EmptyBuffer, Players
<1>2. UNCHANGED buffer => RoundNotComplete'
  BY DEF RoundNotComplete, Complete
<1>3. ASSUME NEW p \in Players, NEW kind \in Kinds, SubmitSimultaneous(p, kind)
      PROVE  RoundNotComplete'
  BY <1>3 DEF SubmitSimultaneous, RoundNotComplete, Complete
<1>4. \/ \E p \in Players, kind \in Kinds : SubmitSimultaneous(p, kind)
      \/ buffer' = EmptyBuffer
      \/ UNCHANGED buffer
  BY DEF Next, ApplyAction, RefuseAction, ResolveRound, AbortRound, AdvancePhase,
         ApplyClaim, SubmitClaim, LastClaim, ClaimTimeout, Resolve, vars
<1> QED BY <1>1, <1>2, <1>3, <1>4

(* No player waits for a round that everybody has already submitted to.    *)
THEOREM RoundsResolve == Spec => []RoundNotComplete
<1>1. Init => RoundNotComplete
  BY NumPlayersAssumption DEF Init, RoundNotComplete, Complete, EmptyBuffer, Players
<1> QED BY <1>1, TypeCorrect, RoundStep, PTL DEF Spec

(* finalize_turn records a result only together with the final status, and *)
(* then it opens no window.                                                *)
LEMMA FinalizeDecides ==
  ASSUME trigger = 0, ~decided, NEW n, NEW kind, NEW st, NEW c, FinalizeTurn(n, kind, st, c)
  PROVE  decided' => status' = "finished" /\ trigger' = 0
BY DEF FinalizeTurn, FinalizeRefused, EndConditionMet, OpenWindow, PassTurn, Settle, window

LEMMA DecidedStep ==
  ASSUME TypeOK, DecidedIsOver, [Next]_vars
  PROVE  DecidedIsOver'
<1>1. ASSUME Accepting
      PROVE  trigger = 0 /\ ~decided /\ status # "finished"
  BY <1>1 DEF Accepting, DecidedIsOver
<1>2. ASSUME NEW p \in Players, NEW kind \in Kinds, ApplyAction(p, kind)
      PROVE  DecidedIsOver'
  BY <1>1, <1>2, FinalizeDecides DEF ApplyAction, DecidedIsOver
<1>3. ASSUME NEW p \in Players, NEW kind \in Kinds, ResolveRound(p, kind)
      PROVE  DecidedIsOver'
  BY <1>1, <1>3, FinalizeDecides DEF ResolveRound, MaySubmit, DecidedIsOver
<1>4. ASSUME NEW p \in Players, NEW kind \in Kinds,
             \/ RefuseAction(p, kind)
             \/ SubmitSimultaneous(p, kind)
             \/ AbortRound(p, kind)
      PROVE  DecidedIsOver'
  <2>1. ~decided /\ decided' = decided
    BY <1>1, <1>4 DEF RefuseAction, SubmitSimultaneous, AbortRound, MaySubmit
  <2> QED BY <2>1 DEF DecidedIsOver
<1>5. ASSUME NEW p \in Players, trigger # 0, NEW c \in ValidClaims(trigger), ApplyClaim(p, c)
      PROVE  DecidedIsOver'
  BY <1>5 DEF ApplyClaim, SubmitClaim, LastClaim, Resolve, DecidedIsOver
<1>6. CASE ClaimTimeout
  BY <1>6 DEF ClaimTimeout, Resolve, DecidedIsOver
<1>7. ASSUME NEW i \in 0..Len(Phases), AdvancePhase(i)
      PROVE  DecidedIsOver'
  BY <1>7 DEF AdvancePhase, DecidedIsOver, window
<1>8. CASE UNCHANGED vars
  BY <1>8 DEF vars, DecidedIsOver, window
<1> QED BY <1>2, <1>3, <1>4, <1>5, <1>6, <1>7, <1>8 DEF Next

(* A decided game is finished and has no claim window left to resolve.     *)
THEOREM DecidedGamesAreOver == Spec => []DecidedIsOver
<1>1. Init => DecidedIsOver
  BY DEF Init, DecidedIsOver
<1> QED BY <1>1, TypeCorrect, DecidedStep, PTL DEF Spec

LEMMA FinalStep ==
  ASSUME [Next]_vars
  PROVE  status = "finished" =>
           /\ status' = "finished" /\ decided' = decided
           /\ trigger = 0 => UNCHANGED <<turn, sequence, events, window, buffer, commits>>
<1> SUFFICES ASSUME status = "finished"
             PROVE  /\ status' = "finished" /\ decided' = decided
                    /\ trigger = 0 =>
                         UNCHANGED <<turn, sequence, events, window, buffer, commits>>
  OBVIOUS
<1>1. ~Accepting
  BY DEF Accepting
<1>2. \/ trigger # 0 /\ UNCHANGED <<status, decided>>
      \/ \E i \in 0..Len(Phases) : AdvancePhase(i)
      \/ UNCHANGED vars
  BY <1>1 DEF Next, ApplyAction, RefuseAction, SubmitSimultaneous, ResolveRound, AbortRound,
              MaySubmit, ApplyClaim, SubmitClaim, LastClaim, MayClaim, ClaimTimeout, Resolve
<1> QED BY <1>2 DEF AdvancePhase, vars

(* Whatever is submitted to a finished game, only the answers to a claim   *)
(* window that is still open can change anything.                          *)
THEOREM FinishedGamesAreFinal == Spec => FinishedIsFinal
BY FinalStep, PTL DEF Spec, FinishedIsFinal

-----------------------------------------------------------------------------
(* The claim window *)

LEMMA AnsweredWith ==
  ASSUME TypeOK, NEW p \in Players, NEW c \in STRING
  PROVE  /\ Answered(WithClaim(p, c)) = Answered(claims) \union {p}
         /\ WithClaim(p, c) \in Seq(Claim)
         /\ Len(WithClaim(p, c)) = Len(claims) + 1
         /\ \A i \in DOMAIN WithClaim(p, c) :
              WithClaim(p, c)[i] = IF i = Len(claims) + 1 THEN [player |-> p, claim |-> c]
                                                          ELSE claims[i]
<1> DEFINE answer == [player |-> p, claim |-> c]
           cl == WithClaim(p, c)
<1>1. answer \in Claim /\ claims \in Seq(Claim)
  BY DEF Claim, TypeOK
<1>2. cl = Append(claims, answer)
  BY DEF WithClaim
<1> HIDE DEF answer, cl
<1>3. /\ cl \in Seq(Claim) /\ Len(cl) = Len(claims) + 1
      /\ \A i \in 1..Len(cl) : cl[i] = IF i = Len(claims) + 1 THEN answer ELSE claims[i]
  BY <1>1, <1>2
<1>4. DOMAIN cl = 1..(Len(claims) + 1) /\ DOMAIN claims = 1..Len(claims) /\ Len(claims) \in Nat
  BY <1>1, <1>3
<1>5. answer.player = p
  BY DEF answer
<1>6. Answered(cl) = Answered(claims) \union {p}
  BY <1>3, <1>4, <1>5 DEF Answered
<1> QED BY <1>3, <1>4, <1>6 DEF cl, answer

(* finalize_turn opens a window only with somebody in it, and empty.       *)
LEMMA FinalizeWindow ==
  ASSUME TypeOK, WindowAwaitsAnswer, trigger = 0,
         NEW n, NEW kind, NEW st, NEW c, FinalizeTurn(n, kind, st, c)
  PROVE  WindowAwaitsAnswer'
<1>1. CASE UNCHANGED window
  BY <1>1 DEF WindowAwaitsAnswer, window
<1>2. CASE OpenWindow(n, kind, st, c)
  <2>1. /\ claims' = <<>> /\ eligible' # {} /\ trigger' # 0
        /\ NumPlayers > 1 => turn' \notin eligible'
    BY <1>2, EligibleType, FirstMatchingType DEF OpenWindow, TypeOK
  <2>2. Answered(claims)' = {} /\ DOMAIN claims' = {}
    BY <2>1 DEF Answered
  <2> QED BY <2>1, <2>2 DEF WindowAwaitsAnswer, Pending
<1> QED BY <1>1, <1>2 DEF FinalizeTurn, FinalizeRefused, EndConditionMet, PassTurn

LEMMA WindowStep ==
  ASSUME TypeOK, WindowAwaitsAnswer, [Next]_vars
  PROVE  WindowAwaitsAnswer'
<1>1. ASSUME NEW p \in Players, NEW kind \in Kinds,
             ApplyAction(p, kind) \/ ResolveRound(p, kind)
      PROVE  WindowAwaitsAnswer'
  BY <1>1, FinalizeWindow DEF ApplyAction, ResolveRound, MaySubmit, Accepting
<1>2. ASSUME NEW p \in Players, trigger # 0, NEW c \in ValidClaims(trigger), SubmitClaim(p, c)
      PROVE  WindowAwaitsAnswer'
  <2>1. p \in Pending /\ Pending # {p} /\ claims' = WithClaim(p, c)
        /\ UNCHANGED <<turn, trigger, eligible>>
    BY <1>2 DEF SubmitClaim, MayClaim
  <2>2. c \in STRING
    BY <1>2, DefaultOfTrigger DEF TypeOK
  <2>3. Answered(claims)' = Answered(claims) \union {p}
    <3>1. Answered(claims') = Answered(claims) \union {p}
      BY <2>1, <2>2, AnsweredWith
    <3> QED BY <3>1 DEF Answered
  <2>4. Pending' # {} /\ Answered(claims)' \subseteq eligible'
    BY <1>2, <2>1, <2>3 DEF Pending, WindowAwaitsAnswer
  <2>5. /\ Len(claims') = Len(claims) + 1 /\ Len(claims) \in Nat
        /\ DOMAIN claims' = 1..Len(claims') /\ DOMAIN claims = 1..Len(claims)
        /\ \A i \in DOMAIN claims :
             claims'[i] = claims[i] /\ claims[i].player \in Answered(claims)
        /\ claims'[Len(claims) + 1] = [player |-> p, claim |-> c]
    BY <2>1, <2>2, AnsweredWith DEF TypeOK, Answered
  <2>6. \A i, j \in DOMAIN claims' : claims'[i].player = claims'[j].player => i = j
    <3>1. \A i \in DOMAIN claims : claims'[i].player # p
      BY <2>1, <2>5 DEF Pending
    <3>2. claims'[Len(claims) + 1].player = p
      BY <2>5
    <3> QED BY <1>2, <2>5, <3>1, <3>2 DEF WindowAwaitsAnswer
  <2>7. \A i \in DOMAIN claims' : claims'[i].claim \in ValidClaims(trigger)'
    <3>1. ValidClaims(trigger)' = ValidClaims(trigger)
      BY <2>1 DEF ValidClaims
    <3>2. \A i \in DOMAIN claims : claims'[i].claim \in ValidClaims(trigger)
      BY <1>2, <2>5 DEF WindowAwaitsAnswer
    <3>3. claims'[Len(claims) + 1].claim \in ValidClaims(trigger)
      BY <1>2, <2>5
    <3> QED BY <2>5, <3>1, <3>2, <3>3
  <2> QED BY <1>2, <2>1, <2>4, <2>6, <2>7 DEF WindowAwaitsAnswer
<1>3. CASE trigger' = 0 /\ eligible' = {} /\ claims' = <<>>
  BY <1>3 DEF WindowAwaitsAnswer
<1>4. CASE UNCHANGED <<turn, window>>
  BY <1>4 DEF WindowAwaitsAnswer, window, Pending, Answered, ValidClaims
<1>5. \/ \E p \in Players, kind \in Kinds : ApplyAction(p, kind) \/ ResolveRound(p, kind)
      \/ \E p \in Players : trigger # 0 /\ \E c \in ValidClaims(trigger) : SubmitClaim(p, c)
      \/ trigger' = 0 /\ eligible' = {} /\ claims' = <<>>
      \/ UNCHANGED <<turn, window>>
  BY DEF Next, RefuseAction, SubmitSimultaneous, AbortRound, AdvancePhase,
         ApplyClaim, LastClaim, ClaimTimeout, Resolve, vars
<1> QED BY <1>1, <1>2, <1>3, <1>4, <1>5

(* An open window always waits for a player who has not answered, so no    *)
(* game waits for ever on a window that could have been resolved.          *)
THEOREM WindowsAwaitAnswers == Spec => []WindowAwaitsAnswer
<1>1. Init => WindowAwaitsAnswer
  BY DEF Init, WindowAwaitsAnswer
<1> QED BY <1>1, TypeCorrect, WindowStep, PTL DEF Spec

-----------------------------------------------------------------------------
(* The event budget *)

(* The answers given and the answers missing are the eligible players, of  *)
(* whom there is one fewer than there are players (unless there is one).   *)
LEMMA EligibleCount ==
  ASSUME TypeOK, WindowAwaitsAnswer, trigger # 0
  PROVE  /\ Len(claims) \in Nat /\ Cardinality(Pending) \in Nat \ {0}
         /\ Len(claims) + Cardinality(Pending) <= IF NumPlayers = 1 THEN 1 ELSE NumPlayers - 1
<1>1. IsFiniteSet(Players) /\ Cardinality(Players) = NumPlayers
  BY FS_Interval, NumPlayersAssumption DEF Players
<1>2. IsFiniteSet(eligible) /\ eligible \subseteq Players
  BY <1>1, FS_Subset DEF TypeOK
<1>3. Cardinality(eligible) <= IF NumPlayers = 1 THEN 1 ELSE NumPlayers - 1
  <2>1. CASE NumPlayers = 1
    BY <1>1, <1>2, <2>1, FS_Subset
  <2>2. CASE NumPlayers # 1
    <3>1. eligible \subseteq Players \ {turn} /\ turn \in Players
      BY <1>2, <2>2, NumPlayersAssumption DEF WindowAwaitsAnswer, TypeOK
    <3>2. IsFiniteSet(Players \ {turn}) /\ Cardinality(Players \ {turn}) = NumPlayers - 1
      BY <1>1, <3>1, FS_RemoveElement
    <3>3. Cardinality(eligible) <= Cardinality(Players \ {turn})
      BY <3>1, <3>2, FS_Subset
    <3> QED BY <2>2, <3>2, <3>3
  <2> QED BY <2>1, <2>2
<1>4. Len(claims) \in Nat /\ Cardinality(Answered(claims)) = Len(claims)
  <2>1. Len(claims) \in Nat /\ DOMAIN claims = 1..Len(claims)
    BY DEF TypeOK
  <2> DEFINE f == [i \in 1..Len(claims) |-> claims[i].player]
  <2>2. f \in Bijection(1..Len(claims), Answered(claims))
    BY <2>1 DEF Bijection, Injection, IsInjective, Surjection, Answered, WindowAwaitsAnswer
  <2>3. ExistsBijection(1..Len(claims), Answered(claims))
    BY <2>2 DEF ExistsBijection
  <2> QED BY <2>1, <2>3, FS_CountingElements
<1>5. Cardinality(Pending) = Cardinality(eligible) - Len(claims)
  <2>1. eligible \cap Answered(claims) = Answered(claims)
    BY DEF WindowAwaitsAnswer
  <2>2. Cardinality(eligible \ Answered(claims))
          = Cardinality(eligible) - Cardinality(eligible \cap Answered(claims))
    BY <1>2, FS_Difference
  <2>3. Cardinality(eligible \cap Answered(claims)) = Len(claims)
    BY <1>4, <2>1
  <2> QED BY <2>2, <2>3 DEF Pending
<1>6. Cardinality(Pending) \in Nat \ {0}
  <2>1. Pending # {}
    BY DEF WindowAwaitsAnswer
  <2> QED BY <2>1, PendingType, FS_EmptySet
<1>7. Cardinality(eligible) \in Nat
  BY <1>2, FS_CardinalityType
<1> QED BY <1>3, <1>4, <1>5, <1>6, <1>7, NumPlayersAssumption

(* finalize_turn never exceeds the budget, and a turn costs an event.      *)
LEMMA FinalizeBudget ==
  ASSUME TypeOK, EventBudget, trigger = 0,
         NEW n \in Nat, NEW kind, NEW st, NEW c, FinalizeTurn(n, kind, st, c)
  PROVE  EventBudget'
<1> USE NumPlayersAssumption, BudgetAssumption DEF TypeOK, EventBudget
<1>1. CASE FinalizeRefused(n, kind, st, c)
  BY <1>1 DEF FinalizeRefused, window
<1>2. CASE EndConditionMet(n, st, c)
  BY <1>2 DEF EndConditionMet, WithinBudget, window
<1>3. CASE OpenWindow(n, kind, st, c)
  BY <1>3, FirstMatchingType DEF OpenWindow, WithinBudget
<1>4. CASE PassTurn(n, kind, st, c)
  BY <1>4 DEF PassTurn, AdvanceTurn, WithinBudget, window
<1> QED BY <1>1, <1>2, <1>3, <1>4 DEF FinalizeTurn

LEMMA ResolveAdvances ==
  ASSUME NEW cl, Resolve(cl)
  PROVE  trigger' = 0 /\ (sequence' = sequence \/ sequence' = sequence + 1)
BY DEF Resolve, AdvanceTurn

LEMMA BudgetStep ==
  ASSUME TypeOK, WindowAwaitsAnswer, EventBudget, [Next]_vars
  PROVE  EventBudget'
<1>1. ASSUME NEW p \in Players, NEW kind \in Kinds,
             ApplyAction(p, kind) \/ ResolveRound(p, kind)
      PROVE  EventBudget'
  <2>1. \E n \in Nat : \E k, st, c : FinalizeTurn(n, k, st, c)
    BY <1>1, EventsOfType, RunningCountType DEF ApplyAction, ResolveRound
  <2>2. trigger = 0
    BY <1>1 DEF ApplyAction, ResolveRound, MaySubmit, Accepting
  <2> QED BY <2>1, <2>2, FinalizeBudget
<1>2. ASSUME NEW p \in Players, trigger # 0, NEW c \in ValidClaims(trigger), SubmitClaim(p, c)
      PROVE  EventBudget'
  <2>1. Len(claims') = Len(claims) + 1 /\ Len(claims) \in Nat
    BY <1>2, DefaultOfTrigger, AnsweredWith DEF SubmitClaim, TypeOK
  <2>2. events' = events + 1 /\ sequence' = sequence /\ trigger' = trigger
    BY <1>2 DEF SubmitClaim
  <2> QED BY <1>2, <2>1, <2>2, BudgetAssumption DEF EventBudget, TypeOK
<1>3. ASSUME NEW p \in Players, trigger # 0, NEW c \in ValidClaims(trigger), LastClaim(p, c)
      PROVE  EventBudget'
  <2>1. Len(claims) \in Nat /\ Len(claims) + 1 <= IF NumPlayers = 1 THEN 1 ELSE NumPlayers - 1
    BY <1>3, EligibleCount, FS_Singleton, NumPlayersAssumption DEF LastClaim
  <2>2. trigger' = 0 /\ (sequence' = sequence \/ sequence' = sequence + 1) /\ events' = events + 2
    BY <1>3, ResolveAdvances DEF LastClaim
  <2> QED BY <1>3, <2>1, <2>2, NumPlayersAssumption, BudgetAssumption DEF EventBudget, TypeOK
<1>4. CASE ClaimTimeout
  <2>1. /\ trigger # 0 /\ trigger' = 0
        /\ sequence' = sequence \/ sequence' = sequence + 1
        /\ events' = events + (Cardinality(Pending) - 1) + 2
    BY <1>4, ResolveAdvances DEF ClaimTimeout
  <2>2. /\ Len(claims) \in Nat /\ Cardinality(Pending) \in Nat \ {0}
        /\ Len(claims) + Cardinality(Pending) <= IF NumPlayers = 1 THEN 1 ELSE NumPlayers - 1
    BY <2>1, EligibleCount
  <2> QED BY <2>1, <2>2, NumPlayersAssumption, BudgetAssumption DEF EventBudget, TypeOK
<1>5. CASE UNCHANGED <<sequence, events, window>>
  BY <1>5 DEF EventBudget, window
<1>6. \/ \E p \in Players, kind \in Kinds : ApplyAction(p, kind) \/ ResolveRound(p, kind)
      \/ \E p \in Players : trigger # 0 /\ \E c \in ValidClaims(trigger) : ApplyClaim(p, c)
      \/ ClaimTimeout
      \/ UNCHANGED <<sequence, events, window>>
  BY DEF Next, RefuseAction, SubmitSimultaneous, AbortRound, AdvancePhase, vars
<1> QED BY <1>1, <1>2, <1>3, <1>4, <1>5, <1>6 DEF ApplyClaim

(* The budget can be exceeded by the answers to one claim window, never by *)
(* more, and the sequence number cannot outgrow the events.                *)
THEOREM BudgetHolds == Spec => []EventBudget
<1>1. Init => EventBudget
  BY NumPlayersAssumption, BudgetAssumption DEF Init, EventBudget
<1> QED BY <1>1, TypeCorrect, WindowsAwaitAnswers, BudgetStep, PTL DEF Spec

-----------------------------------------------------------------------------
(* Submissions, awards, and the promise to the players *)

LEMMA SubmissionStep ==
  ASSUME TypeOK, [Next]_vars, NEW p \in Players, buffer[p] # NoAction, buffer'[p] # buffer[p]
  PROVE  /\ buffer' = EmptyBuffer
         /\ \E q \in Players : \A r \in Players : buffer[r] = NoAction <=> r = q
<1>1. \/ \E q \in Players, kind \in Kinds : SubmitSimultaneous(q, kind)
      \/ \E q \in Players, kind \in Kinds : ResolveRound(q, kind) \/ AbortRound(q, kind)
  BY DEF Next, ApplyAction, RefuseAction, AdvancePhase,
         ApplyClaim, SubmitClaim, LastClaim, ClaimTimeout, Resolve, vars
<1>2. ASSUME NEW q \in Players, NEW kind \in Kinds, SubmitSimultaneous(q, kind)
      PROVE  FALSE
  BY <1>2 DEF SubmitSimultaneous, MaySubmit, Buffered, TypeOK
<1>3. ASSUME NEW q \in Players, NEW kind \in Kinds, ResolveRound(q, kind) \/ AbortRound(q, kind)
      PROVE  /\ buffer' = EmptyBuffer
             /\ \A r \in Players : buffer[r] = NoAction <=> r = q
  <2>1. buffer[q] = NoAction /\ Complete(Buffered(q, kind)) /\ buffer' = EmptyBuffer
    BY <1>3 DEF ResolveRound, AbortRound, MaySubmit
  <2>2. \A r \in Players \ {q} : buffer[r] # NoAction
    BY <2>1 DEF Complete, Buffered, TypeOK
  <2> QED BY <2>1, <2>2
<1> QED BY <1>1, <1>2, <1>3

(* A simultaneous action is kept as submitted until the round is complete. *)
THEOREM SubmissionsAreKept == Spec => SubmissionsKept
<1>1. TypeOK /\ [Next]_vars =>
        [\A p \in Players : buffer[p] # NoAction /\ buffer'[p] # buffer[p] =>
            /\ buffer' = EmptyBuffer
            /\ \E q \in Players : \A r \in Players : buffer[r] = NoAction <=> r = q]_vars
  BY SubmissionStep
<1> QED BY <1>1, TypeCorrect, PTL DEF Spec, SubmissionsKept

(* The search by rank and then by time finds the claim that prevails.      *)
LEMMA ResolveIsFair ==
  ASSUME TypeOK, trigger # 0, NEW cl \in Seq(Claim), Resolve(cl)
  PROVE  SettledFairly(cl)
<1> DEFINE prio == Triggers[trigger].priority
           ranks == ClaimedRanks(trigger, cl)
           best == BestClaims(trigger, cl)
           rank == Min(ranks)
           first == Min(best)
<1>0. /\ trigger \in DOMAIN Triggers
      /\ DOMAIN prio \in SUBSET Nat
      /\ \A r \in DOMAIN prio : r >= 1 /\ 1..r \subseteq DOMAIN prio
      /\ DOMAIN cl \in SUBSET Nat
  BY TriggerType DEF TypeOK, Trigger
<1>1. CASE ranks # {} /\ turn' = Winner(trigger, cl) /\ UNCHANGED sequence
  <2>1. /\ rank \in ranks /\ \A r \in ranks : rank <= r
        /\ first \in best /\ \A i \in best : first <= i
        /\ turn' = cl[first].player
    BY <1>0, <1>1, WinnerIsClaimant DEF Winner
  <2>2. \A r : r \in ranks <=> /\ r \in DOMAIN prio
                               /\ prio[r] # Triggers[trigger].default
                               /\ \E i \in DOMAIN cl : cl[i].claim = prio[r]
    BY DEF ClaimedRanks
  <2>3. \A i : i \in best <=> i \in DOMAIN cl /\ cl[i].claim = prio[rank]
    BY DEF BestClaims
  <2> HIDE DEF prio, ranks, best, rank, first
  <2>4. first \in DOMAIN cl /\ cl[first].claim = prio[rank] /\ rank \in DOMAIN prio
    BY <2>1, <2>2, <2>3
  <2>5. Counts(trigger, cl[first].claim)
    BY <2>1, <2>2, <2>4 DEF Counts, prio
  <2>6. ASSUME NEW j \in DOMAIN cl, Counts(trigger, cl[j].claim),
               Outranks(trigger, cl[j].claim, cl[first].claim)
        PROVE  FALSE
    <3>1. PICK r \in DOMAIN prio : prio[r] = cl[j].claim /\ \A s \in 1..r : prio[s] # prio[rank]
      BY <2>4, <2>6 DEF Outranks, prio
    <3>2. r \in ranks
      BY <2>2, <2>6, <3>1 DEF Counts
    <3>3. rank <= r /\ rank >= 1
      BY <1>0, <2>1, <2>4, <3>2
    <3> QED BY <1>0, <2>4, <3>1, <3>3
  <2>7. ASSUME NEW j \in DOMAIN cl \ {first}, cl[j].claim = cl[first].claim
        PROVE  first < j
    BY <1>0, <2>1, <2>3, <2>4, <2>7
  <2>8. Prevails(trigger, cl, first)
    BY <2>5, <2>6, <2>7 DEF Prevails
  <2> QED BY <1>1, <2>1, <2>4, <2>8 DEF SettledFairly
<1>2. CASE ranks = {} /\ AdvanceTurn
  <2>1. \A i \in DOMAIN cl : ~Counts(trigger, cl[i].claim)
    BY <1>2 DEF ClaimedRanks, Counts
  <2> QED BY <1>2, <2>1 DEF SettledFairly, AdvanceTurn
<1> QED BY <1>1, <1>2 DEF Resolve

(* The defaults a timeout adds are no claims: they change no outcome.      *)
LEMMA TimeoutAddsNothing ==
  ASSUME TypeOK, trigger # 0, NEW order \in Bijection(1..Cardinality(Pending), Pending),
         Resolve(WithDefaults(order))
  PROVE  Resolve(claims)
<1> DEFINE cl == WithDefaults(order)
           prio == Triggers[trigger].priority
<1>1. /\ DOMAIN claims \subseteq DOMAIN cl
      /\ \A i \in DOMAIN cl : IF i \in DOMAIN claims THEN cl[i] = claims[i]
                              ELSE cl[i].claim = Triggers[trigger].default
  BY WithDefaultsType
<1>2. trigger \in DOMAIN Triggers /\ claims \in Seq(Claim)
  BY DEF TypeOK
<1>3. Resolve(cl)
  OBVIOUS
<1> HIDE DEF cl
<1>4. ClaimedRanks(trigger, cl) = ClaimedRanks(trigger, claims)
  <2>1. \A c : c # Triggers[trigger].default =>
          ((\E i \in DOMAIN cl : cl[i].claim = c) <=> (\E i \in DOMAIN claims : claims[i].claim = c))
    BY <1>1
  <2>2. \A r \in DOMAIN prio :
          r \in ClaimedRanks(trigger, cl) <=> r \in ClaimedRanks(trigger, claims)
    BY <2>1 DEF ClaimedRanks
  <2> QED BY <2>2 DEF ClaimedRanks
<1>5. ASSUME ClaimedRanks(trigger, cl) # {}
      PROVE  Winner(trigger, cl) = Winner(trigger, claims)
  <2>1. /\ Min(ClaimedRanks(trigger, claims)) \in ClaimedRanks(trigger, claims)
        /\ Min(BestClaims(trigger, claims)) \in BestClaims(trigger, claims)
    BY <1>2, <1>4, <1>5, WinnerIsClaimant
  <2>2. prio[Min(ClaimedRanks(trigger, claims))] # Triggers[trigger].default
    BY <2>1 DEF ClaimedRanks
  <2>3. BestClaims(trigger, cl) = BestClaims(trigger, claims)
    <3> DEFINE target == prio[Min(ClaimedRanks(trigger, claims))]
    <3>1. /\ BestClaims(trigger, cl) = {i \in DOMAIN cl : cl[i].claim = target}
          /\ BestClaims(trigger, claims) = {i \in DOMAIN claims : claims[i].claim = target}
      BY <1>4 DEF BestClaims
    <3>2. target # Triggers[trigger].default
      BY <2>2
    <3> HIDE DEF target
    <3> QED BY <1>1, <3>1, <3>2
  <2>4. Min(BestClaims(trigger, cl)) \in DOMAIN claims
    BY <2>1, <2>3 DEF BestClaims
  <2>5. cl[Min(BestClaims(trigger, cl))].claim # Triggers[trigger].default
    BY <2>1, <2>2, <2>3, <1>4 DEF BestClaims
  <2>6. cl[Min(BestClaims(trigger, cl))] = claims[Min(BestClaims(trigger, cl))]
    BY <1>1, <2>4, <2>5
  <2> QED BY <2>3, <2>6 DEF Winner
<1> QED BY <1>3, <1>4, <1>5 DEF Resolve

LEMMA FairStep ==
  ASSUME TypeOK
  PROVE  /\ \A p \in Players : \A c \in IF trigger = 0 THEN {} ELSE ValidClaims(trigger) :
               LastClaim(p, c) => SettledFairly(WithClaim(p, c))
         /\ ClaimTimeout => SettledFairly(claims)
<1>1. ASSUME NEW p \in Players, trigger # 0, NEW c \in ValidClaims(trigger), LastClaim(p, c)
      PROVE  SettledFairly(WithClaim(p, c))
  BY <1>1, DefaultOfTrigger, AnsweredWith, ResolveIsFair DEF LastClaim, TypeOK
<1>2. ASSUME ClaimTimeout
      PROVE  SettledFairly(claims)
  <2>1. trigger # 0 /\ claims \in Seq(Claim) /\ Resolve(claims)
    BY <1>2, TimeoutAddsNothing DEF ClaimTimeout, TypeOK
  <2> QED BY <2>1, ResolveIsFair
<1> QED BY <1>1, <1>2

(* Every resolved window gives the turn to the claim that prevails.        *)
THEOREM WindowsSettleFairly == Spec => ClaimsSettledFairly
<1>1. TypeOK /\ [Next]_vars =>
        [/\ \A p \in Players : \A c \in IF trigger = 0 THEN {} ELSE ValidClaims(trigger) :
               LastClaim(p, c) => SettledFairly(WithClaim(p, c))
         /\ ClaimTimeout => SettledFairly(claims)]_vars
  BY FairStep
<1> QED BY <1>1, TypeCorrect, PTL DEF Spec, ClaimsSettledFairly

(* finalize_turn is an ordinary turn, the end, a call for claims, or       *)
(* nothing that the players see.                                           *)
LEMMA FinalizeKeepsPromise ==
  ASSUME TypeOK, Accepting, NEW n \in Nat, NEW kind,
         NEW st \in {"in_progress", "finished"}, NEW c, FinalizeTurn(n, kind, st, c)
  PROVE  [Promise!Next]_Promise!vars
<1> USE DEF Promise!vars, Accepting
<1>1. CASE FinalizeRefused(n, kind, st, c)
  <2>1. UNCHANGED <<turn, sequence, trigger>> /\ status' = st
    BY <1>1 DEF FinalizeRefused, Settle, window
  <2>2. CASE st = "finished"
    BY <2>1, <2>2 DEF Promise!Next, Promise!Finish
  <2>3. CASE st = "in_progress"
    BY <2>1, <2>3
  <2> QED BY <2>2, <2>3
<1>2. CASE EndConditionMet(n, st, c)
  BY <1>2 DEF EndConditionMet, Settle, window, Promise!Next, Promise!Finish
<1>3. CASE OpenWindow(n, kind, st, c)
  <2>1. trigger' # 0
    BY <1>3, FirstMatchingType DEF OpenWindow
  <2> QED BY <1>3, <2>1 DEF OpenWindow, Settle, Promise!Next, Promise!CallForClaims
<1>4. CASE PassTurn(n, kind, st, c)
  BY <1>4 DEF PassTurn, AdvanceTurn, Settle, window, Promise!Next, Promise!TakeTurn,
              Promise!PassedOn
<1> QED BY <1>1, <1>2, <1>3, <1>4 DEF FinalizeTurn

(* resolve_claim_window is an award or everybody's decline.                *)
LEMMA ResolveKeepsPromise ==
  ASSUME TypeOK, trigger # 0, NEW cl \in Seq(Claim), Resolve(cl)
  PROVE  [Promise!Next]_Promise!vars
<1>1. turn' \in Players
  BY ResolveType
<1> QED BY <1>1 DEF Resolve, AdvanceTurn, Players, Promise!Next, Promise!Award,
                    Promise!EverybodyDeclines, Promise!PassedOn, Promise!Seats

LEMMA PromiseStep ==
  ASSUME TypeOK, [Next]_vars
  PROVE  [Promise!Next]_Promise!vars
<1>1. ASSUME NEW p \in Players, NEW kind \in Kinds, ApplyAction(p, kind)
      PROVE  [Promise!Next]_Promise!vars
  <2>1. PICK n \in EventsOf(kind) :
          FinalizeTurn(n, kind, Resigned(kind), CommitsAfter(p, kind))
    BY <1>1 DEF ApplyAction
  <2>2. Accepting /\ n \in Nat /\ Resigned(kind) \in {"in_progress", "finished"}
    BY <1>1, EventsOfType DEF ApplyAction, Resigned
  <2> QED BY <2>1, <2>2, FinalizeKeepsPromise
<1>2. ASSUME NEW p \in Players, NEW kind \in Kinds, ResolveRound(p, kind)
      PROVE  [Promise!Next]_Promise!vars
  <2> DEFINE b == Buffered(p, kind)
  <2>1. /\ Accepting
        /\ \E c \in RunningCounts(b) :
             FinalizeTurn(c[NumPlayers - 1], NoAction,
                          RoundStatus(b, NumPlayers), RoundCommits(b, NumPlayers))
    BY <1>2 DEF ResolveRound, MaySubmit
  <2> HIDE DEF b
  <2> QED BY <2>1, RunningCountType, RoundType, FinalizeKeepsPromise
<1>3. ASSUME NEW p \in Players, NEW kind \in Kinds, AbortRound(p, kind)
      PROVE  [Promise!Next]_Promise!vars
  <2> DEFINE b == Buffered(p, kind)
  <2>1. /\ Accepting /\ UNCHANGED <<turn, sequence, trigger>>
        /\ \E failed \in Players : status' = RoundStatus(b, failed)
    BY <1>3 DEF AbortRound, MaySubmit, window
  <2>2. status' \in {"in_progress", "finished"}
    BY <2>1, RoundType
  <2> QED BY <2>1, <2>2 DEF Accepting, Promise!Next, Promise!Finish, Promise!vars
<1>4. ASSUME NEW p \in Players, NEW kind \in Kinds,
             RefuseAction(p, kind) \/ SubmitSimultaneous(p, kind)
      PROVE  [Promise!Next]_Promise!vars
  BY <1>4 DEF RefuseAction, SubmitSimultaneous, MaySubmit, Accepting, window, Promise!vars
<1>5. ASSUME NEW p \in Players, trigger # 0, NEW c \in ValidClaims(trigger), ApplyClaim(p, c)
      PROVE  [Promise!Next]_Promise!vars
  <2>1. CASE SubmitClaim(p, c)
    BY <2>1 DEF SubmitClaim, Promise!vars
  <2>2. CASE LastClaim(p, c)
    BY <1>5, <2>2, DefaultOfTrigger, AnsweredWith, ResolveKeepsPromise DEF LastClaim, TypeOK
  <2> QED BY <1>5, <2>1, <2>2 DEF ApplyClaim
<1>6. CASE ClaimTimeout
  BY <1>6, WithDefaultsType, ResolveKeepsPromise DEF ClaimTimeout
<1>7. ASSUME NEW i \in 0..Len(Phases), AdvancePhase(i)
      PROVE  [Promise!Next]_Promise!vars
  BY <1>7 DEF AdvancePhase, window, Promise!vars
<1>8. CASE UNCHANGED vars
  BY <1>8 DEF vars, window, Promise!vars
<1> QED BY <1>1, <1>2, <1>3, <1>4, <1>5, <1>6, <1>7, <1>8 DEF Next

(* The engine keeps the promise of TurnOrder.                              *)
THEOREM PromiseKept == Spec => ImplementsTurnOrder
<1>1. Init => Promise!Init
  BY DEF Init, Promise!Init
<1> QED BY <1>1, TypeCorrect, PromiseStep, PTL DEF Spec, ImplementsTurnOrder, Promise!Spec
=============================================================================
