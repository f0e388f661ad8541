------------------------------ MODULE GameTurn ------------------------------
(***************************************************************************)
(* The turn machinery of the rules engine: engine/src/transition.rs over   *)
(* the RuntimeState of engine/src/runtime.rs.                              *)
(*                                                                         *)
(* One GameSession, its entry points apply_action_for_player (apply_action *)
(* is the case that acts for the current player), apply_claim and          *)
(* advance_phase, the server's claim timeout, which is a loop of           *)
(* apply_claim, and everything they do to the state that decides who may   *)
(* act next: status, result, turn, sequence, the event budget, the claim   *)
(* window, the simultaneous buffer and the pending commitments.  Boards,   *)
(* cards and counters are abstracted: an action that touches only them     *)
(* succeeds or fails nondeterministically, and so does an end condition,   *)
(* because both depend on that data.  move_count is not a variable: only   *)
(* advance_turn changes it, always together with sequence.                 *)
(***************************************************************************)
EXTENDS Integers, Sequences, FiniteSets, FiniteSetsExt

CONSTANTS
  NumPlayers,         (* players are numbered in the order of the IndexMap *)
  Kinds,              (* the action types the players use                  *)
  Triggers,           (* the definition's triggers, in definition order    *)
  Phases,             (* for each phase, whether it is simultaneous        *)
  MaxEvents,          (* MAX_EVENTS_PER_GAME                               *)
  SizeCheckInterval   (* STATE_SIZE_CHECK_INTERVAL                         *)

Players == 0..(NumPlayers - 1)

Trigger == [onAction : STRING, eligible : STRING, actions : SUBSET STRING,
            priority : Seq(STRING), default : STRING]

(* The Option None: the action a simultaneous round is finalized with, and *)
(* the slot of the buffer of a player who has not submitted.               *)
NoAction == "none"

ASSUME NumPlayersAssumption == NumPlayers \in Nat \ {0}
ASSUME KindsAssumption == Kinds \subseteq STRING /\ NoAction \notin Kinds
ASSUME TriggersAssumption == Triggers \in Seq(Trigger)
ASSUME PhasesAssumption == Phases \in Seq(BOOLEAN)
ASSUME BudgetAssumption == MaxEvents \in Nat /\ SizeCheckInterval \in Nat \ {0}

VARIABLES
  status,       (* RuntimeState.status                                     *)
  decided,      (* RuntimeState.result is Some                             *)
  turn,         (* RuntimeState.turn_index                                 *)
  sequence,     (* RuntimeState.sequence, and move_count                   *)
  events,       (* RuntimeState.event_count                                *)
  trigger,      (* claim_window: 0 is None, else the trigger it is for     *)
  eligible,     (* claim_window.eligible_players                           *)
  claims,       (* claim_window.submitted_claims, in order of submission   *)
  buffer,       (* simultaneous_actions; NoAction is an absent key         *)
  commits,      (* the players with an entry in pending_commits            *)
  phase         (* RuntimeState.phase_index                                *)

window == <<trigger, eligible, claims>>
vars == <<status, decided, turn, sequence, events, window, buffer, commits, phase>>

EmptyBuffer == [p \in Players |-> NoAction]

Init ==
  /\ status = "setup" /\ decided = FALSE
  /\ turn = 0 /\ sequence = 0 /\ events = 0
  /\ trigger = 0 /\ eligible = {} /\ claims = <<>>
  /\ buffer = EmptyBuffer
  /\ commits = {}
  /\ phase = 0

(* A phase index past the end of the list is the implicit phase "main".    *)
Simultaneous == phase + 1 \in DOMAIN Phases /\ Phases[phase + 1]

-----------------------------------------------------------------------------
(* execute_action: what one action does to this state, and how many events *)
(* it emits.                                                               *)

(* The arms of the match; every other action type is refused.              *)
Implemented == {"move_piece", "place", "pass", "resign", "flip", "remove", "swap",
                "promote", "draw", "place_ship", "fire", "commit", "reveal"}

CanExecute(p, kind) ==
  /\ kind \in Implemented
  /\ kind = "fire" => NumPlayers > 1
  /\ kind = "commit" => p \notin commits
  /\ kind = "reveal" => p \in commits

(* A capture and a hit or a miss are events of their own; a sunk ship is   *)
(* one more; flipping a component that does not exist emits nothing.       *)
EventsOf(kind) ==
  CASE kind = "flip" -> 0..1
    [] kind = "move_piece" -> 1..2
    [] kind = "fire" -> 2..3
    [] OTHER -> {1}

CanRefuse(p, kind) == kind \notin {"pass", "resign", "flip"}

Resigned(kind) == IF kind = "resign" THEN "finished" ELSE "in_progress"

(* One entry per player: a commit adds the player's, a reveal removes it.  *)
CommitsAfter(p, kind) ==
  CASE kind = "commit" -> commits \union {p}
    [] kind = "reveal" -> commits \ {p}
    [] OTHER -> commits

(* A refused action changes nothing here, except that a reveal whose       *)
(* position is refused has already consumed the commitment.                *)
CommitsRefused(p, kind) ==
  {commits} \union IF kind = "reveal" THEN {commits \ {p}} ELSE {}

-----------------------------------------------------------------------------
(* A slip for the runs to catch: the turn index does not wrap around.      *)
AdvanceTurnNoWrap ==
  /\ turn' = turn + 1
  /\ sequence' = sequence + 1

(* GameSession::advance_turn *)
AdvanceTurn ==
  /\ turn' = (turn + 1) % NumPlayers
  /\ sequence' = sequence + 1

(* find_matching_trigger: the first trigger for that action type, if any.  *)
Matching(kind) ==
  {t \in DOMAIN Triggers : kind # NoAction /\ Triggers[t].onAction = kind}
FirstMatching(kind) == Min(Matching(kind))
ClaimRule(kind) == Triggers[FirstMatching(kind)].eligible

EligibleRules == {"all_except_current", "next_in_order"}

(* compute_eligible_players *)
EligiblePlayers(rule) ==
  CASE rule = "all_except_current" -> Players \ {turn}
    [] rule = "next_in_order" -> {(turn + 1) % NumPlayers}
    [] OTHER -> {}

(* finalize_turn: n events were emitted, the action (or none) was of this  *)
(* kind, and executing left the game with status st and commitments c.     *)
(* Each case leaves alone what the cases below do not name.                *)
Settle(st, c) == status' = st /\ commits' = c /\ UNCHANGED phase

(* A slip: the event that finalize_turn itself adds is forgotten.          *)
WithinBudgetOffByOne(n) == events + n <= MaxEvents

WithinBudget(n) == events + n + 1 <= MaxEvents

SizeChecked == sequence % SizeCheckInterval = 0 /\ sequence > 0

(* Err after the action has been carried out: the board, the status and    *)
(* the commitments keep what it did, but the turn does not advance.        *)
FinalizeRefused(n, kind, st, c) ==
  /\ \/ ~WithinBudget(n)
     \/ SizeChecked
     \/ /\ Matching(kind) # {}
        /\ ClaimRule(kind) \notin EligibleRules
  /\ Settle(st, c)
  /\ UNCHANGED <<decided, turn, sequence, events, window>>

(* A slip: the result is recorded, the status is not changed.              *)
EndWithoutStatus(n, st, c) ==
  /\ WithinBudget(n)
  /\ st # "finished"
  /\ decided' = TRUE
  /\ events' = events + n + 1
  /\ Settle(st, c)
  /\ UNCHANGED <<turn, sequence, window>>

EndConditionMet(n, st, c) ==
  /\ WithinBudget(n)
  /\ st # "finished"
  /\ decided' = TRUE
  /\ events' = events + n + 1
  /\ Settle("finished", c)
  /\ UNCHANGED <<turn, sequence, window>>

(* A slip: the turn is advanced although the action may yet be claimed.    *)
OpenWindowAndAdvance(n, kind, st, c) ==
  /\ WithinBudget(n)
  /\ Matching(kind) # {}
  /\ EligiblePlayers(ClaimRule(kind)) # {}
  /\ trigger' = FirstMatching(kind)
  /\ eligible' = EligiblePlayers(ClaimRule(kind))
  /\ claims' = <<>>
  /\ events' = events + n + 1
  /\ AdvanceTurn
  /\ Settle(st, c)
  /\ UNCHANGED decided

OpenWindow(n, kind, st, c) ==
  /\ WithinBudget(n)
  /\ Matching(kind) # {}
  /\ EligiblePlayers(ClaimRule(kind)) # {}
  /\ trigger' = FirstMatching(kind)
  /\ eligible' = EligiblePlayers(ClaimRule(kind))
  /\ claims' = <<>>
  /\ events' = events + n + 1
  /\ Settle(st, c)
  /\ UNCHANGED <<decided, turn, sequence>>

PassTurn(n, kind, st, c) ==
  /\ WithinBudget(n)
  /\ \/ Matching(kind) = {}
     \/ /\ Matching(kind) # {}
        /\ ClaimRule(kind) \in EligibleRules
        /\ EligiblePlayers(ClaimRule(kind)) = {}
  /\ AdvanceTurn
  /\ events' = events + n + 1
  /\ Settle(st, c)
  /\ UNCHANGED <<decided, window>>

FinalizeTurn(n, kind, st, c) ==
  \/ FinalizeRefused(n, kind, st, c)
  \/ EndConditionMet(n, st, c)
  \/ OpenWindow(n, kind, st, c)
  \/ PassTurn(n, kind, st, c)

-----------------------------------------------------------------------------
(* A slip: the finished game is not looked at.                             *)
AcceptingFinished == trigger = 0

(* apply_action_for_player refuses once the game is finished and while a   *)
(* claim window is open.  The acting player is whoever the caller names:   *)
(* the engine does not compare it with the current player.                 *)
Accepting == status # "finished" /\ trigger = 0

ApplyAction(p, kind) ==
  /\ Accepting /\ ~Simultaneous
  /\ CanExecute(p, kind)
  /\ \E n \in EventsOf(kind) :
       FinalizeTurn(n, kind, Resigned(kind), CommitsAfter(p, kind))
  /\ UNCHANGED buffer

(* execute_action refuses: the turn is not over.                           *)
RefuseAction(p, kind) ==
  /\ Accepting /\ ~Simultaneous
  /\ CanRefuse(p, kind)
  /\ status' = "in_progress"
  /\ commits' \in CommitsRefused(p, kind)
  /\ UNCHANGED <<decided, turn, sequence, events, buffer, phase, window>>

Buffered(p, kind) == [buffer EXCEPT ![p] = kind]

(* A slip: a second submission overwrites the first.                       *)
MayResubmit(p) == Accepting /\ Simultaneous

(* apply_simultaneous: a player who has not submitted yet does.            *)
MaySubmit(p) == Accepting /\ Simultaneous /\ buffer[p] = NoAction

Complete(b) == \A p \in Players : b[p] # NoAction

(* A slip: whether the round is complete is looked at before the insert.   *)
SubmitUnresolved(p, kind) ==
  /\ MaySubmit(p)
  /\ buffer' = Buffered(p, kind)
  /\ status' = "in_progress"
  /\ UNCHANGED <<decided, turn, sequence, events, commits, phase, window>>

SubmitSimultaneous(p, kind) ==
  /\ MaySubmit(p)
  /\ ~Complete(Buffered(p, kind))
  /\ buffer' = Buffered(p, kind)
  /\ status' = "in_progress"
  /\ UNCHANGED <<decided, turn, sequence, events, commits, phase, window>>

(* The last one in resolves the round: the buffer is emptied, and then the *)
(* players' actions are executed in order until one is refused (or none:   *)
(* failed is then NumPlayers).  The refused one undoes nothing and those   *)
(* after it are dropped.  A player's commitment is touched only by his own *)
(* action, so the joint effect is the effect of each.                      *)
RoundStatus(b, upto) ==
  IF \E p \in 0..(upto - 1) : b[p] = "resign" THEN "finished" ELSE "in_progress"

RoundCommits(b, upto) ==
  {p \in Players : p \in IF p < upto THEN CommitsAfter(p, b[p]) ELSE commits}

(* The length of the events list once each player's action is executed; it *)
(* starts with the ActionSubmitted of the last player.                     *)
RunningCounts(b) ==
  {c \in [Players -> 1..(1 + 3 * NumPlayers)] :
     \A q \in Players : c[q] - (IF q = 0 THEN 1 ELSE c[q - 1]) \in EventsOf(b[q])}

ResolveRound(p, kind) ==
  LET b == Buffered(p, kind) IN
  /\ MaySubmit(p)
  /\ Complete(b)
  /\ buffer' = EmptyBuffer
  /\ \A q \in Players : CanExecute(q, b[q])
  /\ \E c \in RunningCounts(b) :
       FinalizeTurn(c[NumPlayers - 1], NoAction, RoundStatus(b, NumPlayers), RoundCommits(b, NumPlayers))

(* The same when an action of the round is refused.                        *)
AbortRound(p, kind) ==
  LET b == Buffered(p, kind) IN
  /\ MaySubmit(p)
  /\ Complete(b)
  /\ buffer' = EmptyBuffer
  /\ \E failed \in Players :
       /\ \A q \in 0..(failed - 1) : CanExecute(q, b[q])
       /\ CanRefuse(failed, b[failed])
       /\ status' = RoundStatus(b, failed)
       /\ commits' \in {RoundCommits(b, failed)} \union
            IF b[failed] = "reveal" THEN {RoundCommits(b, failed) \ {failed}} ELSE {}
  /\ UNCHANGED <<decided, turn, sequence, events, phase, window>>

(* advance_phase: what players have already submitted stays in the buffer. *)
AdvancePhase(i) ==
  /\ phase' = i
  /\ UNCHANGED <<status, decided, turn, sequence, events, window, buffer, commits>>

-----------------------------------------------------------------------------
(* apply_claim and resolve_claim_window *)
Answered(cl) == {cl[i].player : i \in DOMAIN cl}
Pending == eligible \ Answered(claims)

ValidClaims(t) == Triggers[t].actions \union {Triggers[t].default}

(* The priorities, as positions in the list, that somebody claimed.        *)
ClaimedRanks(t, cl) ==
  {r \in DOMAIN Triggers[t].priority :
     /\ Triggers[t].priority[r] # Triggers[t].default
     /\ \E i \in DOMAIN cl : cl[i].claim = Triggers[t].priority[r]}

(* The claims at the best of them; the earliest submitted one wins.        *)
BestClaims(t, cl) ==
  {i \in DOMAIN cl : cl[i].claim = Triggers[t].priority[Min(ClaimedRanks(t, cl))]}

(* A slip: among equal claims the last one wins.                           *)
WinnerLatest(t, cl) == cl[Max(BestClaims(t, cl))].player

Winner(t, cl) == cl[Min(BestClaims(t, cl))].player

Resolve(cl) ==
  /\ trigger' = 0 /\ eligible' = {} /\ claims' = <<>>
  /\ \/ /\ ClaimedRanks(trigger, cl) # {}
        /\ turn' = Winner(trigger, cl)
        /\ UNCHANGED sequence
     \/ /\ ClaimedRanks(trigger, cl) = {}
        /\ AdvanceTurn
  /\ UNCHANGED <<status, decided, buffer, commits, phase>>

(* A slip: an answer may be given twice.                                   *)
MayClaimTwice(p, c) == trigger # 0 /\ p \in eligible /\ c \in ValidClaims(trigger)

MayClaim(p, c) == trigger # 0 /\ p \in Pending /\ c \in ValidClaims(trigger)

WithClaim(p, c) == Append(claims, [player |-> p, claim |-> c])

SubmitClaim(p, c) ==
  /\ MayClaim(p, c)
  /\ Pending # {p}
  /\ claims' = WithClaim(p, c)
  /\ events' = events + 1
  /\ UNCHANGED <<status, decided, turn, sequence, trigger, eligible, buffer, commits, phase>>

(* The event of the last claim is returned but not counted: only those of  *)
(* the resolution are.                                                     *)
LastClaim(p, c) ==
  /\ MayClaim(p, c)
  /\ Pending = {p}
  /\ Resolve(WithClaim(p, c))
  /\ events' = events + 2

ApplyClaim(p, c) == SubmitClaim(p, c) \/ LastClaim(p, c)

(* handle_claim_timeout: apply_claim with the default claim for everybody  *)
(* still pending, one after the other; the last of them resolves.          *)
WithDefaults(order) ==
  claims \o [i \in DOMAIN order |->
               [player |-> order[i], claim |-> Triggers[trigger].default]]

ClaimTimeout ==
  /\ trigger # 0 /\ Pending # {}
  /\ \E order \in Bijection(1..Cardinality(Pending), Pending) : Resolve(WithDefaults(order))
  /\ events' = events + (Cardinality(Pending) - 1) + 2

-----------------------------------------------------------------------------
Next ==
  \/ \E p \in Players, kind \in Kinds :
       \/ ApplyAction(p, kind)
       \/ RefuseAction(p, kind)
       \/ SubmitSimultaneous(p, kind)
       \/ ResolveRound(p, kind)
       \/ AbortRound(p, kind)
  \/ \E p \in Players : trigger # 0 /\ \E c \in ValidClaims(trigger) : ApplyClaim(p, c)
  \/ ClaimTimeout
  \/ \E i \in 0..Len(Phases) : AdvancePhase(i)

Spec == Init /\ [][Next]_vars

-----------------------------------------------------------------------------
(* Properties *)

Claim == [player : Players, claim : STRING]

(* Every component of the runtime state has its type.                      *)
TypeOK ==
  /\ status \in {"setup", "in_progress", "finished"}
  /\ decided \in BOOLEAN
  /\ turn \in Players
  /\ sequence \in Nat
  /\ events \in Nat
  /\ trigger \in {0} \union DOMAIN Triggers
  /\ eligible \in SUBSET Players
  /\ claims \in Seq(Claim)
  /\ buffer \in [Players -> Kinds \union {NoAction}]
  /\ commits \in SUBSET Players
  /\ phase \in 0..Len(Phases)

(* An open claim window is waiting for somebody: nobody answers twice or   *)
(* out of turn, and the window is resolved by the same call that collects  *)
(* its last answer, so the game never waits for an answer that has come.   *)
(* Every answer is one the trigger offers, and with two or more players    *)
(* the player whose action is claimed is not asked.  A closed window       *)
(* leaves nothing behind for the next one.                                 *)
WindowAwaitsAnswer ==
  /\ trigger # 0 =>
       /\ Pending # {}
       /\ Answered(claims) \subseteq eligible
       /\ \A i, j \in DOMAIN claims : claims[i].player = claims[j].player => i = j
       /\ \A i \in DOMAIN claims : claims[i].claim \in ValidClaims(trigger)
       /\ NumPlayers > 1 => turn \notin eligible
  /\ trigger = 0 => eligible = {} /\ claims = <<>>

(* The simultaneous buffer never holds an action of every player: the call *)
(* that completes a round also drains it, also when the round is aborted   *)
(* half-way or the phase is changed while actions are waiting.             *)
RoundNotComplete == ~Complete(buffer)

(* Games end for good: a game decided by an end condition has no open      *)
(* claim window that could still move the turn.                            *)
DecidedIsOver == decided => status = "finished" /\ trigger = 0

(* The budget.  Every turn is paid for with an event, so the sequence      *)
(* number cannot outgrow the budget; and the budget is exceeded by the     *)
(* answers to one claim window at most, because claims are not checked     *)
(* against it: apply_claim and the timeout just add to event_count.        *)
EventBudget ==
  /\ sequence <= events
  /\ trigger # 0 => events <= MaxEvents + Len(claims)
  /\ trigger = 0 => events <= MaxEvents + IF NumPlayers = 1 THEN 2 ELSE NumPlayers

(* What a resolved window owes the claimants, said without the two loops   *)
(* of resolve_claim_window.  A claim counts if the trigger ranks it and it *)
(* is not the default; it loses to a claim that comes earlier in the       *)
(* priority list, and to the same claim made before it.                    *)
Counts(t, c) ==
  c # Triggers[t].default /\ \E r \in DOMAIN Triggers[t].priority : Triggers[t].priority[r] = c

Outranks(t, c, d) ==
  \E r \in DOMAIN Triggers[t].priority :
    /\ Triggers[t].priority[r] = c
    /\ \A s \in 1..r : Triggers[t].priority[s] # d

Prevails(t, cl, i) ==
  /\ Counts(t, cl[i].claim)
  /\ \A j \in DOMAIN cl \ {i} :
       /\ Counts(t, cl[j].claim) => ~Outranks(t, cl[j].claim, cl[i].claim)
       /\ cl[j].claim = cl[i].claim => i < j

SettledFairly(cl) ==
  \/ /\ \E i \in DOMAIN cl : Prevails(trigger, cl, i) /\ turn' = cl[i].player
     /\ sequence' = sequence
  \/ /\ \A i \in DOMAIN cl : ~Counts(trigger, cl[i].claim)
     /\ turn' = (turn + 1) % NumPlayers
     /\ sequence' = sequence + 1

(* The turn goes to the prevailing claim among all the answers, the last   *)
(* one included, and if none counts it is passed on; a timeout adds        *)
(* nothing to the answers that came in time.                               *)
ClaimsSettledFairly ==
  [][/\ \A p \in Players : \A c \in IF trigger = 0 THEN {} ELSE ValidClaims(trigger) :
            LastClaim(p, c) => SettledFairly(WithClaim(p, c))
     /\ ClaimTimeout => SettledFairly(claims)]_vars

(* An action submitted in a simultaneous round stays as it was submitted   *)
(* until the round is complete: only the submission of the one player who  *)
(* was missing empties the buffer, and it empties all of it.               *)
SubmissionsKept ==
  [][\A p \in Players : buffer[p] # NoAction /\ buffer'[p] # buffer[p] =>
       /\ buffer' = EmptyBuffer
       /\ \E q \in Players : \A r \in Players : buffer[r] = NoAction <=> r = q]_vars

(* A finished game stays finished, and once no claim is open any more its  *)
(* turn, its sequence number and its record of events are final, whatever  *)
(* is still submitted.  (A trigger on "resign" opens a window on a         *)
(* finished game: the answers to that window are the one thing allowed.)   *)
FinishedIsFinal ==
  [][status = "finished" =>
       /\ status' = "finished" /\ decided' = decided
       /\ trigger = 0 => UNCHANGED <<turn, sequence, events, window, buffer, commits>>]_vars

(* What the players are promised: the turn machinery of TurnOrder.         *)
Promise == INSTANCE TurnOrder
             WITH holder <- turn, round <- sequence,
                  claiming <- trigger # 0, over <- status = "finished"
ImplementsTurnOrder == Promise!Spec
=============================================================================
