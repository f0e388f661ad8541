-------------------------------- MODULE Room --------------------------------
(***************************************************************************)
(* One room of the server: the connection tasks of connection.rs, the      *)
(* message handlers of protocol.rs and the Room they share under its       *)
(* mutex, over the game session of GameTurn.                               *)
(*                                                                         *)
(* A connection is a handle_socket task: it is outside the room, in its    *)
(* select loop, or past the loop and not yet through the clean-up at the   *)
(* end of the task.  Everything done under one hold of the room mutex is   *)
(* one step.  Seats are numbered: the defined players first, and then      *)
(* spectator_k is seat k.  What a message may be refused for (malformed    *)
(* JSON, rate, validation, sequence numbers) is abstracted to a message    *)
(* that is refused.  A deadline is abstracted to the window it was set     *)
(* for: Armed is the deadline of the window that is open now, Stale that   *)
(* of a window that has been resolved since.                               *)
(***************************************************************************)
EXTENDS GameTurn

CONSTANTS
  Conns,         (* the connection tasks                                   *)
  NoConn,        (* nobody's sender                                        *)
  MaxPlayers,    (* Room.max_players                                       *)
  MaxMoves       (* MAX_MOVES_PER_GAME                                     *)

ASSUME RoomAssumption ==
  /\ NoConn \notin Conns
  /\ MaxPlayers \in Nat /\ MaxPlayers >= NumPlayers
  /\ MaxMoves \in Nat

Seats == 0..(MaxPlayers - 1)

VARIABLES
  players,      (* Room.players: whose sender the seat has                 *)
  tokens,       (* the seats a token of Room.player_tokens stands for      *)
  ready,        (* Room.ready_players                                      *)
  allReady,     (* Room.room_phase is AllReady; InProgress is never set    *)
  deadline,     (* Room.claim_deadline is Some                             *)
  pc,           (* where the task of a connection is                       *)
  seat,         (* the seat it was given                                   *)
  timer         (* its local_claim_deadline                                *)

tasks == <<pc, seat, timer>>
lobby == <<tokens, ready, allReady>>
roomVars == <<vars, lobby, players, deadline, tasks>>

None == "none"
Armed == "armed"
Stale == "stale"

RoomInit ==
  /\ Init
  /\ players = [s \in Seats |-> NoConn]
  /\ tokens = {} /\ ready = {} /\ allReady = FALSE
  /\ deadline = FALSE
  /\ pc = [c \in Conns |-> "outside"]
  /\ seat = [c \in Conns |-> 0]
  /\ timer = [c \in Conns |-> None]

Seated == {s \in Seats : players[s] # NoConn}

-----------------------------------------------------------------------------
(* Joining and leaving *)

(* pick_seat: the first defined seat nobody has, and otherwise             *)
(* spectator_k for the number k of seats that are taken.                   *)
FreeDefined == Players \ Seated
(* A slip: the first defined seat, taken or not.                           *)
PickSeatTaken == Min(Players)

PickSeat == IF FreeDefined # {} THEN Min(FreeDefined) ELSE Cardinality(Seated)

(* join_room and the start of the loop: whoever had the seat before, its   *)
(* sender is replaced.                                                     *)
Join(c, s) ==
  /\ players' = [players EXCEPT ![s] = c]
  /\ pc' = [pc EXCEPT ![c] = "looping"]
  /\ seat' = [seat EXCEPT ![c] = s]
  /\ timer' = [timer EXCEPT ![c] = None]
  /\ UNCHANGED <<vars, ready, allReady, deadline>>

(* A slip: a full room takes one more.                                     *)
HasCapacityOffByOne == Cardinality(Seated) <= MaxPlayers

HasCapacity == Cardinality(Seated) < MaxPlayers

(* No token, or one that the room does not know; with a preferred seat     *)
(* that is defined and free, or none.                                      *)
JoinFresh(c) ==
  /\ pc[c] = "outside"
  /\ HasCapacity
  /\ \E s \in FreeDefined \union {PickSeat} :
       /\ Join(c, s)
       /\ tokens' = tokens \union {s}

(* A known token: the seat is the token's, whoever sits there now, and     *)
(* capacity is not looked at.                                              *)
Reconnect(c, s) ==
  /\ pc[c] = "outside"
  /\ s \in tokens
  /\ Join(c, s)
  /\ UNCHANGED tokens

(* The peer closes, the socket fails, or nothing comes for IDLE_TIMEOUT.   *)
LeaveLoop(c) ==
  /\ pc[c] = "looping"
  /\ pc' = [pc EXCEPT ![c] = "leaving"]
  /\ timer' = [timer EXCEPT ![c] = None]
  /\ UNCHANGED <<vars, lobby, players, deadline, seat>>

(* What both ends of a task do: the task and its seat are gone.            *)
EndTask(c) ==
  /\ pc[c] = "leaving"
  /\ pc' = [pc EXCEPT ![c] = "outside"]
  /\ seat' = [seat EXCEPT ![c] = 0]
  /\ UNCHANGED <<vars, tokens, deadline, timer>>

(* A slip: the sender of the task that ends stays in the room.             *)
CleanUpKeepsSender(c) ==
  /\ EndTask(c)
  /\ ready' = ready \ {seat[c]}
  /\ allReady' = (allReady /\ seat[c] \notin ready)
  /\ UNCHANGED players

(* A slip: the phase of the room is not looked at again.                   *)
CleanUpKeepsPhase(c) ==
  /\ EndTask(c)
  /\ players' = [players EXCEPT ![seat[c]] = NoConn]
  /\ ready' = ready \ {seat[c]}
  /\ UNCHANGED allReady

(* The end of the task removes the seat, whoever holds it by now.          *)
CleanUp(c) ==
  /\ EndTask(c)
  /\ players' = [players EXCEPT ![seat[c]] = NoConn]
  /\ ready' = ready \ {seat[c]}
  /\ allReady' = (allReady /\ seat[c] \notin ready)

-----------------------------------------------------------------------------
(* Messages *)

(* When a window is resolved the deadlines the tasks hold for it are stale. *)
Outdated(tm) ==
  IF trigger # 0 /\ trigger' = 0
    THEN [c \in Conns |-> IF tm[c] = Armed THEN Stale ELSE tm[c]]
    ELSE tm

(* After every message the task that handled it looks at the window: it    *)
(* sets the room's deadline if there is none, and copies it.               *)
(* A slip: the deadline of a window that has been resolved is kept.        *)
SyncDeadlineKeeps(c) ==
  /\ deadline' = (deadline \/ trigger' # 0)
  /\ timer' = [Outdated(timer) EXCEPT ![c] = IF deadline' THEN Armed ELSE None]

SyncDeadline(c) ==
  /\ deadline' = (trigger' # 0)
  /\ timer' = [Outdated(timer) EXCEPT ![c] = IF trigger' # 0 THEN Armed ELSE None]

InLoop(c) == pc[c] = "looping"
IsPlayer(c) == seat[c] \in Players

(* handle_submit_move: only the player whose turn it is, whatever phase    *)
(* the game is in, and the engine acts for the current player.             *)
Engine(p, kind) ==
  \/ ApplyAction(p, kind)
  \/ RefuseAction(p, kind)
  \/ SubmitSimultaneous(p, kind)
  \/ ResolveRound(p, kind)
  \/ AbortRound(p, kind)

SubmitMove(c, kind) ==
  /\ InLoop(c) /\ IsPlayer(c)
  /\ status # "finished"
  /\ sequence < MaxMoves
  /\ events < MaxEvents
  /\ seat[c] = turn
  /\ Engine(seat[c], kind)
  /\ SyncDeadline(c)
  /\ UNCHANGED <<lobby, players, pc, seat>>

(* handle_submit_claim *)
Claims(c, claim) ==
  /\ InLoop(c) /\ IsPlayer(c)
  /\ status # "finished"
  /\ events < MaxEvents
  /\ ApplyClaim(seat[c], claim)
  /\ SyncDeadline(c)
  /\ UNCHANGED <<lobby, players, pc, seat>>

(* handle_ready: every defined player is connected and ready.              *)
SetReady(c, r) ==
  /\ InLoop(c) /\ IsPlayer(c)
  /\ ready' = IF r THEN ready \union {seat[c]} ELSE ready \ {seat[c]}
  /\ allReady' = (Players \subseteq Seated /\ Players \subseteq ready')
  /\ UNCHANGED vars
  /\ SyncDeadline(c)
  /\ UNCHANGED <<tokens, players, pc, seat>>

(* Any other message: an acknowledgement, a random request, a refused one. *)
OtherMessage(c) ==
  /\ InLoop(c)
  /\ UNCHANGED vars
  /\ SyncDeadline(c)
  /\ UNCHANGED <<lobby, players, pc, seat>>

(* A slip: the deadline is cleared before it is looked at.                 *)
TimerFiresIdly(c) ==
  /\ InLoop(c)
  /\ timer[c] # None
  /\ timer' = [timer EXCEPT ![c] = None]
  /\ deadline' = FALSE
  /\ UNCHANGED <<vars, lobby, players, pc, seat>>

(* A slip: the window is closed without being resolved.                    *)
TimerFiresCloses(c) ==
  /\ InLoop(c)
  /\ timer[c] # None
  /\ trigger' = 0 /\ eligible' = {} /\ claims' = <<>>
  /\ timer' = [Outdated(timer) EXCEPT ![c] = None]
  /\ deadline' = FALSE
  /\ UNCHANGED <<status, decided, turn, sequence, events, buffer, commits, phase>>
  /\ UNCHANGED <<lobby, players, pc, seat>>

(* The task's own sleep ends: it times the open window out, if there is    *)
(* one, without asking which window its deadline was set for.              *)
TimerFires(c) ==
  /\ InLoop(c)
  /\ timer[c] # None
  /\ IF deadline /\ trigger # 0 THEN ClaimTimeout ELSE UNCHANGED vars
  /\ timer' = [Outdated(timer) EXCEPT ![c] = None]
  /\ deadline' = FALSE
  /\ UNCHANGED <<lobby, players, pc, seat>>

RoomNext ==
  \E c \in Conns :
    \/ JoinFresh(c)
    \/ \E s \in Seats : Reconnect(c, s)
    \/ LeaveLoop(c)
    \/ CleanUp(c)
    \/ \E kind \in Kinds : SubmitMove(c, kind)
    \/ trigger # 0 /\ \E claim \in ValidClaims(trigger) : Claims(c, claim)
    \/ \E r \in BOOLEAN : SetReady(c, r)
    \/ OtherMessage(c)
    \/ TimerFires(c)

(* The runtime runs the tasks that can run: a sleep whose deadline has     *)
(* passed is polled, and a task that has left its loop ends.  Nobody has   *)
(* to join, to send or to leave.                                           *)
Fairness == \A c \in Conns : WF_roomVars(TimerFires(c)) /\ WF_roomVars(CleanUp(c))

RoomSpec == RoomInit /\ [][RoomNext]_roomVars /\ Fairness

-----------------------------------------------------------------------------
(* Properties *)

(* Every component of the room and of its tasks has its type.              *)
RoomTypeOK ==
  /\ players \in [Seats -> Conns \union {NoConn}]
  /\ tokens \in SUBSET Seats /\ ready \in SUBSET Players
  /\ allReady \in BOOLEAN /\ deadline \in BOOLEAN
  /\ pc \in [Conns -> {"outside", "looping", "leaving"}]
  /\ seat \in [Conns -> Seats]
  /\ timer \in [Conns -> {None, Armed, Stale}]

(* The room's deadline and the engine's claim window are two records of    *)
(* one fact, written by three handlers and by the timer: a window is never *)
(* open without a deadline nor a deadline left behind by a window, and     *)
(* only a task in its loop sleeps, for the open window or for an old one.  *)
WindowHasDeadline ==
  /\ deadline <=> trigger # 0
  /\ \A c \in Conns : timer[c] = Armed => trigger # 0
  /\ \A c \in Conns : timer[c] # None => InLoop(c)

(* A sender in the room is that of a live task that was given this very    *)
(* seat, through reconnections and clean-ups in any order: so no message   *)
(* filtered for a seat goes to a task of another seat or to none.          *)
SubscriberIsSeated ==
  \A s \in Seats :
    players[s] # NoConn => pc[players[s]] # "outside" /\ seat[players[s]] = s

(* The room is AllReady only while every player has a sender in it and has *)
(* said so: whoever disconnects, also one whose seat was taken over, takes *)
(* the readiness with it.                                                  *)
AllReadyMeansAll == allReady => Players \subseteq Seated /\ Players \subseteq ready

(* In a game of named players a connection without a token never gets a    *)
(* seat that somebody sits on (with spectators it may: see the range run). *)
FreshJoinTakesFreeSeat ==
  [][\A c \in Conns : JoinFresh(c) => players[seat'[c]] = NoConn]_roomVars

(* Whatever the server does to the game is a step of the rules engine, so  *)
(* what GameTurn guarantees holds of the game in the room.                 *)
PlaysByTheRules == Spec

(* A task that sleeps until the deadline of the open window and stays      *)
(* sees the window resolved, whatever the players do.                      *)
ArmedTimerEndsWindow ==
  \A c \in Conns :
    (trigger # 0 /\ InLoop(c) /\ timer[c] = Armed) ~> (trigger = 0 \/ ~InLoop(c))

-----------------------------------------------------------------------------
(* What the comments of the source say and the code does not do.           *)

(* The assertion had_player at the end of the task: the seat of a task     *)
(* that leaves is still in the room.                                       *)
SeatHeldAtDisconnect ==
  \A c \in Conns : pc[c] = "leaving" => players[seat[c]] # NoConn

(* Room.claim_deadline: when it passes, the connection loop submits the    *)
(* defaults.  So while there are loops, one of them sleeps until then.     *)
DeadlineIsWatched ==
  deadline /\ (\E c \in Conns : InLoop(c)) =>
    \E c \in Conns : InLoop(c) /\ timer[c] = Armed

(* ClaimWindow.timeout: the seconds before the defaults are submitted.  A  *)
(* window is timed out by a timer that was set for it.                     *)
TimeoutOnTime ==
  [][\A c \in Conns :
       TimerFires(c) /\ trigger # 0 /\ trigger' = 0 => timer[c] = Armed]_roomVars

(* The assertion after apply_action: an accepted action advances sequence. *)
SequenceAdvances ==
  [][\A c \in Conns, kind \in Kinds :
       SubmitMove(c, kind) /\ events' > events => sequence' > sequence]_roomVars

(* Simultaneous phases are for players who move independently: with all    *)
(* of them in their loops, somebody can bring an open round forward.       *)
RoundCanGoOn ==
  /\ Accepting /\ Simultaneous
  /\ \A p \in Players : \E c \in Conns : InLoop(c) /\ seat[c] = p
  /\ sequence < MaxMoves /\ events < MaxEvents
  => ENABLED \E c \in Conns, kind \in Kinds : SubmitMove(c, kind)
=============================================================================
