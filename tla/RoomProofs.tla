----------------------------- MODULE RoomProofs -----------------------------
(***************************************************************************)
(* Theorems about Room, for any number of connections, players, triggers   *)
(* and phases.  They need no fairness.                                     *)
(***************************************************************************)
EXTENDS Room, GameTurnProofs

-----------------------------------------------------------------------------
(* The game in the room *)

LEMMA TimerPlays ==
  ASSUME NEW c \in Conns, TimerFires(c)
  PROVE  ClaimTimeout \/ UNCHANGED vars
BY DEF TimerFires

LEMMA RoomPlays == ASSUME [RoomNext]_roomVars PROVE [Next]_vars
<1>1. ASSUME NEW c \in Conns, JoinFresh(c) \/ (\E s \in Seats : Reconnect(c, s))
      PROVE  UNCHANGED vars
  BY <1>1 DEF JoinFresh, Reconnect, Join
<1>2. ASSUME NEW c \in Conns, LeaveLoop(c) \/ CleanUp(c) \/ OtherMessage(c)
      PROVE  UNCHANGED vars
  BY <1>2 DEF LeaveLoop, CleanUp, EndTask, OtherMessage
<1>3. ASSUME NEW c \in Conns, NEW r \in BOOLEAN, SetReady(c, r)
      PROVE  UNCHANGED vars
  BY <1>3 DEF SetReady
<1>4. ASSUME NEW c \in Conns, NEW kind \in Kinds, SubmitMove(c, kind)
      PROVE  Next
  <2>1. seat[c] \in Players /\ Engine(seat[c], kind)
    BY <1>4 DEF SubmitMove, IsPlayer
  <2> QED BY <2>1 DEF Engine, Next
<1>5. ASSUME NEW c \in Conns, trigger # 0, NEW claim \in ValidClaims(trigger), Claims(c, claim)
      PROVE  Next
  <2>1. seat[c] \in Players /\ ApplyClaim(seat[c], claim)
    BY <1>5 DEF Claims, IsPlayer
  <2> QED BY <1>5, <2>1 DEF Next
<1>6. ASSUME NEW c \in Conns, TimerFires(c)
      PROVE  [Next]_vars
  BY <1>6, TimerPlays DEF Next
<1>7. CASE UNCHANGED roomVars
  BY <1>7 DEF roomVars
<1> QED BY <1>1, <1>2, <1>3, <1>4, <1>5, <1>6, <1>7 DEF RoomNext

(* The room only ever plays the game by the rules of GameTurn.             *)
THEOREM RoomPlaysByTheRules == RoomSpec => PlaysByTheRules
<1>1. RoomInit => Init
  BY DEF RoomInit
<1> QED BY <1>1, RoomPlays, PTL DEF RoomSpec, PlaysByTheRules, Spec

(* So the theorems about the game hold of the game in the room, among them *)
(* that every round is resolved by its last submission, that an open       *)
(* window waits for somebody, and that nothing follows the end.            *)
THEOREM RoomGamesAreSound ==
  RoomSpec => [](TypeOK /\ RoundNotComplete /\ WindowAwaitsAnswer /\ DecidedIsOver /\ EventBudget)
BY RoomPlaysByTheRules, TypeCorrect, RoundsResolve, WindowsAwaitAnswers,
   DecidedGamesAreOver, BudgetHolds, PTL DEF PlaysByTheRules

-----------------------------------------------------------------------------
(* Types *)

LEMMA SeatsFinite ==
  /\ NumPlayers \in Nat \ {0} /\ MaxPlayers \in Nat /\ 0 \in Seats /\ Players \subseteq Seats
  /\ IsFiniteSet(Seats) /\ Cardinality(Seats) = MaxPlayers
  /\ IsFiniteSet(Players) /\ Cardinality(Players) = NumPlayers
BY RoomAssumption, NumPlayersAssumption, FS_Interval DEF Seats, Players

LEMMA PickSeatType ==
  ASSUME HasCapacity
  PROVE  PickSeat \in Seats /\ FreeDefined \subseteq Seats
<1>1. FreeDefined \in SUBSET Nat /\ FreeDefined \subseteq Seats
  BY SeatsFinite DEF FreeDefined, Players
<1>2. CASE FreeDefined # {}
  BY <1>1, <1>2, MinIsLeast DEF PickSeat
<1>3. CASE FreeDefined = {}
  <2>1. Cardinality(Seated) \in Nat
    BY SeatsFinite, FS_Subset, FS_CardinalityType DEF Seated
  <2> QED BY <1>1, <1>3, <2>1, SeatsFinite DEF PickSeat, HasCapacity, Seats
<1> QED BY <1>2, <1>3, <1>1

(* What Join is called with and what it does to the seats.                 *)
LEMMA JoinStep ==
  ASSUME NEW c \in Conns, JoinFresh(c) \/ (\E s \in Seats : Reconnect(c, s))
  PROVE  /\ pc[c] = "outside"
         /\ \E s \in Seats : Join(c, s) /\ tokens' \in {tokens, tokens \union {s}}
<1>1. CASE JoinFresh(c)
  BY <1>1, PickSeatType DEF JoinFresh
<1>2. CASE \E s \in Seats : Reconnect(c, s)
  BY <1>2 DEF Reconnect
<1> QED BY <1>1, <1>2

(* What the handlers of a message do to the tasks and the lobby.           *)
Handled(c) ==
  /\ InLoop(c)
  /\ SyncDeadline(c)
  /\ UNCHANGED <<tokens, players, pc, seat>>
  /\ \/ UNCHANGED <<ready, allReady>>
     \/ /\ seat[c] \in Players
        /\ ready' \in {ready \union {seat[c]}, ready \ {seat[c]}}
        /\ allReady' = (Players \subseteq Seated /\ Players \subseteq ready')

LEMMA MessageStep ==
  ASSUME NEW c \in Conns,
         \/ \E kind \in Kinds : SubmitMove(c, kind)
         \/ \E claim \in ValidClaims(trigger) : Claims(c, claim)
         \/ \E r \in BOOLEAN : SetReady(c, r)
         \/ OtherMessage(c)
  PROVE  Handled(c)
BY DEF SubmitMove, Claims, SetReady, OtherMessage, Handled, lobby, IsPlayer

(* Every step of the room is one of these.                                 *)
LEMMA RoomStep ==
  ASSUME RoomNext
  PROVE  \E c \in Conns :
           \/ pc[c] = "outside" /\ \E s \in Seats :
                Join(c, s) /\ tokens' \in {tokens, tokens \union {s}}
           \/ LeaveLoop(c)
           \/ CleanUp(c)
           \/ Handled(c)
           \/ TimerFires(c)
<1>1. PICK c \in Conns :
        \/ JoinFresh(c)
        \/ \E s \in Seats : Reconnect(c, s)
        \/ LeaveLoop(c)
        \/ CleanUp(c)
        \/ \E kind \in Kinds : SubmitMove(c, kind)
        \/ trigger # 0 /\ \E claim \in ValidClaims(trigger) : Claims(c, claim)
        \/ \E r \in BOOLEAN : SetReady(c, r)
        \/ OtherMessage(c)
        \/ TimerFires(c)
  BY DEF RoomNext
<1> QED BY <1>1, JoinStep, MessageStep

LEMMA OutdatedType ==
  ASSUME NEW tm \in [Conns -> {None, Armed, Stale}]
  PROVE  /\ Outdated(tm) \in [Conns -> {None, Armed, Stale}]
         /\ \A c \in Conns : Outdated(tm)[c] = None <=> tm[c] = None
         /\ \A c \in Conns : Outdated(tm)[c] = Armed => tm[c] = Armed /\ (trigger = 0 \/ trigger' # 0)
BY DEF Outdated, None, Armed, Stale

LEMMA RoomTypeStep ==
  ASSUME RoomTypeOK, [RoomNext]_roomVars
  PROVE  RoomTypeOK'
<1> USE DEF RoomTypeOK
<1>1. ASSUME NEW c \in Conns, NEW s \in Seats, Join(c, s), tokens' \in {tokens, tokens \union {s}}
      PROVE  RoomTypeOK'
  BY <1>1 DEF Join
<1>2. ASSUME NEW c \in Conns, LeaveLoop(c)
      PROVE  RoomTypeOK'
  BY <1>2 DEF LeaveLoop, lobby
<1>3. ASSUME NEW c \in Conns, CleanUp(c)
      PROVE  RoomTypeOK'
  BY <1>3, SeatsFinite DEF CleanUp, EndTask
<1>4. ASSUME NEW c \in Conns, Handled(c)
      PROVE  RoomTypeOK'
  BY <1>4, OutdatedType DEF Handled, SyncDeadline
<1>5. ASSUME NEW c \in Conns, TimerFires(c)
      PROVE  RoomTypeOK'
  BY <1>5, OutdatedType DEF TimerFires, lobby
<1>6. CASE UNCHANGED roomVars
  BY <1>6 DEF roomVars, lobby, tasks
<1> QED BY <1>1, <1>2, <1>3, <1>4, <1>5, <1>6, RoomStep

(* The room and its tasks keep their types.                                *)
THEOREM RoomTypeCorrect == RoomSpec => []RoomTypeOK
<1>1. RoomInit => RoomTypeOK
  BY SeatsFinite DEF RoomInit, RoomTypeOK
<1> QED BY <1>1, RoomTypeStep, PTL DEF RoomSpec

-----------------------------------------------------------------------------
(* Seats *)

LEMMA SubscriberStep ==
  ASSUME RoomTypeOK, SubscriberIsSeated, [RoomNext]_roomVars
  PROVE  SubscriberIsSeated'
<1> USE DEF RoomTypeOK, SubscriberIsSeated
<1>0. NoConn \notin Conns
  BY RoomAssumption
<1>1. ASSUME NEW c \in Conns, pc[c] = "outside", NEW s \in Seats, Join(c, s)
      PROVE  SubscriberIsSeated'
  <2>1. \A t \in Seats : players[t] # c
    BY <1>0, <1>1
  <2>2. SUFFICES ASSUME NEW t \in Seats, players'[t] # NoConn
                 PROVE  pc'[players'[t]] # "outside" /\ seat'[players'[t]] = t
    OBVIOUS
  <2>3. CASE t = s
    BY <1>1, <2>3 DEF Join
  <2>4. CASE t # s
    BY <1>1, <2>1, <2>2, <2>4 DEF Join
  <2> QED BY <2>3, <2>4
<1>2. ASSUME NEW c \in Conns, LeaveLoop(c)
      PROVE  SubscriberIsSeated'
  BY <1>2 DEF LeaveLoop
<1>3. ASSUME NEW c \in Conns, CleanUp(c)
      PROVE  SubscriberIsSeated'
  <2>1. SUFFICES ASSUME NEW t \in Seats, players'[t] # NoConn
                 PROVE  pc'[players'[t]] # "outside" /\ seat'[players'[t]] = t
    OBVIOUS
  <2>2. t # seat[c] /\ players'[t] = players[t]
    BY <1>3, <2>1 DEF CleanUp
  <2>3. players[t] # c
    BY <1>0, <2>2
  <2> QED BY <1>3, <2>1, <2>2, <2>3 DEF CleanUp, EndTask
<1>4. ASSUME NEW c \in Conns, Handled(c) \/ TimerFires(c)
      PROVE  SubscriberIsSeated'
  BY <1>4 DEF Handled, TimerFires
<1>5. CASE UNCHANGED roomVars
  BY <1>5 DEF roomVars, tasks
<1> QED BY <1>1, <1>2, <1>3, <1>4, <1>5, RoomStep

(* No sender of a seat outlives its task or belongs to another seat.       *)
THEOREM SubscribersAreSeated == RoomSpec => []SubscriberIsSeated
<1>1. RoomInit => SubscriberIsSeated
  BY DEF RoomInit, SubscriberIsSeated
<1> QED BY <1>1, RoomTypeCorrect, SubscriberStep, PTL DEF RoomSpec

LEMMA ReadyStep ==
  ASSUME RoomTypeOK, AllReadyMeansAll, [RoomNext]_roomVars
  PROVE  AllReadyMeansAll'
<1> USE DEF RoomTypeOK, AllReadyMeansAll, Seated
<1>1. ASSUME NEW c \in Conns, NEW s \in Seats, Join(c, s)
      PROVE  AllReadyMeansAll'
  BY <1>1, RoomAssumption DEF Join
<1>2. ASSUME NEW c \in Conns, LeaveLoop(c) \/ TimerFires(c)
      PROVE  AllReadyMeansAll'
  BY <1>2 DEF LeaveLoop, TimerFires, lobby
<1>3. ASSUME NEW c \in Conns, CleanUp(c)
      PROVE  AllReadyMeansAll'
  <2>1. SUFFICES ASSUME allReady'
                 PROVE  Players \subseteq Seated' /\ Players \subseteq ready'
    OBVIOUS
  <2>2. allReady /\ seat[c] \notin ready /\ seat[c] \notin Players
    BY <1>3, <2>1 DEF CleanUp
  <2>3. \A p \in Players : players'[p] = players[p]
    BY <1>3, <2>2, SeatsFinite DEF CleanUp
  <2> QED BY <1>3, <2>2, <2>3 DEF CleanUp
<1>4. ASSUME NEW c \in Conns, Handled(c)
      PROVE  AllReadyMeansAll'
  BY <1>4 DEF Handled
<1>5. CASE UNCHANGED roomVars
  BY <1>5 DEF roomVars, lobby
<1> QED BY <1>1, <1>2, <1>3, <1>4, <1>5, RoomStep

(* AllReady is never stale, whoever leaves and in whatever order.          *)
THEOREM ReadinessIsReal == RoomSpec => []AllReadyMeansAll
<1>1. RoomInit => AllReadyMeansAll
  BY DEF RoomInit, AllReadyMeansAll
<1> QED BY <1>1, RoomTypeCorrect, ReadyStep, PTL DEF RoomSpec

LEMMA FreshJoinStep ==
  ASSUME MaxPlayers = NumPlayers, RoomTypeOK, NEW c \in Conns, JoinFresh(c)
  PROVE  players[seat'[c]] = NoConn
<1>1. FreeDefined # {}
  <2>1. SUFFICES ASSUME FreeDefined = {} PROVE FALSE
    OBVIOUS
  <2>2. Seated = Seats
    BY <2>1 DEF FreeDefined, Seated, Seats, Players
  <2> QED BY <2>2, SeatsFinite DEF JoinFresh, HasCapacity
<1>2. PickSeat \in FreeDefined
  <2>1. FreeDefined \in SUBSET Nat
    BY NumPlayersAssumption DEF FreeDefined, Players
  <2> QED BY <1>1, <2>1, MinIsLeast DEF PickSeat
<1>3. PICK s \in FreeDefined : Join(c, s)
  BY <1>2 DEF JoinFresh
<1>4. seat'[c] = s
  BY <1>3 DEF Join, RoomTypeOK
<1> QED BY <1>3, <1>4, SeatsFinite DEF FreeDefined, Seated

(* In a game of named players, where the room holds as many as the game    *)
(* defines, a connection without a token never takes somebody's seat.      *)
THEOREM FreshJoinsAreSafe ==
  ASSUME MaxPlayers = NumPlayers
  PROVE  RoomSpec => FreshJoinTakesFreeSeat
<1>1. ASSUME RoomTypeOK
      PROVE  \A c \in Conns : JoinFresh(c) => players[seat'[c]] = NoConn
  BY <1>1, FreshJoinStep
<1> QED BY <1>1, RoomTypeCorrect, PTL DEF RoomSpec, FreshJoinTakesFreeSeat

-----------------------------------------------------------------------------
(* Deadlines *)

LEMMA DeadlineStep ==
  ASSUME RoomTypeOK, WindowHasDeadline, [RoomNext]_roomVars
  PROVE  WindowHasDeadline'
<1> USE DEF RoomTypeOK, WindowHasDeadline, InLoop
<1>0. None # Armed /\ None # Stale /\ Armed # Stale
  BY DEF None, Armed, Stale
<1>1. ASSUME NEW c \in Conns, pc[c] = "outside", NEW s \in Seats, Join(c, s)
      PROVE  WindowHasDeadline'
  BY <1>0, <1>1 DEF Join, vars, window
<1>2. ASSUME NEW c \in Conns, LeaveLoop(c)
      PROVE  WindowHasDeadline'
  BY <1>0, <1>2 DEF LeaveLoop, vars, window
<1>3. ASSUME NEW c \in Conns, CleanUp(c)
      PROVE  WindowHasDeadline'
  BY <1>0, <1>3 DEF CleanUp, EndTask, vars, window
<1>4. ASSUME NEW c \in Conns, Handled(c)
      PROVE  WindowHasDeadline'
  BY <1>0, <1>4, OutdatedType DEF Handled, SyncDeadline
<1>5. ASSUME NEW c \in Conns, TimerFires(c)
      PROVE  WindowHasDeadline'
  <2>1. trigger' = 0
    BY <1>5 DEF TimerFires, ClaimTimeout, Resolve, vars, window
  <2> QED BY <1>0, <1>5, <2>1, OutdatedType DEF TimerFires
<1>6. CASE UNCHANGED roomVars
  BY <1>6 DEF roomVars, tasks, vars, window
<1> QED BY <1>1, <1>2, <1>3, <1>4, <1>5, <1>6, RoomStep

(* The room's deadline and the engine's window never disagree.             *)
THEOREM DeadlinesFollowWindows == RoomSpec => []WindowHasDeadline
<1>1. RoomInit => WindowHasDeadline
  BY DEF RoomInit, Init, WindowHasDeadline, None, Armed
<1> QED BY <1>1, RoomTypeCorrect, DeadlineStep, PTL DEF RoomSpec
=============================================================================
