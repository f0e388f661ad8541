------------------------------ MODULE Session -------------------------------
(***************************************************************************)
(* Clients and their connections to one room: what a client knows of the   *)
(* game (connection.ts, baize-game.ts), the numbers its messages bear and  *)
(* the number its task expects (protocol.rs), and the bounded queue of     *)
(* messages to it (room.rs).                                               *)
(*                                                                         *)
(* A socket keeps its messages in order; a connection that ends loses      *)
(* those on their way.  The old task of a client has ended when it         *)
(* connects again (Room has the other case).  What the engine does is in   *)
(* GameTurn; here an action passes the turn, opens a claim window or ends  *)
(* the game.                                                               *)
(***************************************************************************)
EXTENDS Integers, FiniteSets, Sequences

CONSTANTS
  Clients,      (* the players, one client each                            *)
  Impatient,    (* those who also try to move when it is not their turn    *)
  QueueLimit,   (* MAX_OUTBOUND_QUEUE                                      *)
  MaxChanges,   (* bound: how often the game changes                       *)
  MaxJoins,     (* bound: the connections made                              *)
  MaxInFlight   (* bound: the moves on their way to the server; a claim or *)
                (* a check is sent when nothing else is on its way         *)

ASSUME SessionAssumption ==
  Clients # {} /\ QueueLimit \in Nat \ {0} /\ MaxChanges \in Nat

VARIABLES
  game,       (* [changes, sequence, turn, pending, over]                  *)
  joined,     (* the clients with a connection                             *)
  expected,   (* expected_seq of the client's task                         *)
  queue,      (* of a client's task: states, or replies without one        *)
  upward,     (* the messages of a client that the task has not read       *)
  view,       (* the state that a client shows                             *)
  current,    (* currentSequence of a client                               *)
  told,       (* has a client had a state over this connection             *)
  blind,      (* history: the clients that made a move over this connection *)
              (* without having seen over it that it was their turn        *)
  joins

server == <<game, expected>>
client == <<view, current, told>>
vars == <<game, joined, expected, queue, upward, view, current, told, blind, joins>>

NoNumber == -1
Unaware == -1

NewGame == [changes |-> 0, sequence |-> 0, turn |-> CHOOSE c \in Clients : TRUE,
            pending |-> {}, over |-> FALSE]

MayMove(g, c) == g.turn = c /\ g.pending = {} /\ ~g.over

(* The state, or none, that a message to a client carries.                 *)
WithState(g) == {g}
WithoutState == {}

Messages == [kind : {"move", "claim", "check"}, number : Nat \union {NoNumber}, seen : Nat \union {Unaware}]

SessionInit ==
  /\ game = NewGame
  /\ joined = {}
  /\ expected = [c \in Clients |-> 0]
  /\ queue = [c \in Clients |-> <<>>]
  /\ upward = [c \in Clients |-> <<>>]
  /\ view = [c \in Clients |-> NewGame]
  /\ current = [c \in Clients |-> 0]
  /\ told = [c \in Clients |-> FALSE]
  /\ blind = {}
  /\ joins = 0

-----------------------------------------------------------------------------
(* The queues *)

(* A slip: the channel has no bound.                                       *)
SentUnbounded(q, m) == Append(q, m)

(* try_send: what does not fit is dropped, and the connection goes on.     *)
Sent(q, m) == IF Len(q) < QueueLimit THEN Append(q, m) ELSE q

Reply(c, m) == queue' = [queue EXCEPT ![c] = Sent(@, m)]

(* The new state to everybody who is connected.                            *)
Broadcast ==
  queue' = [c \in Clients |-> IF c \in joined THEN Sent(queue[c], WithState(game'))
                              ELSE queue[c]]

-----------------------------------------------------------------------------
(* Connections *)

(* The handshake: a new queue with the state (the welcome is left out), a  *)
(* new expected number; the client forgets its number and shows what it    *)
(* had.                                                                    *)
Connect(c) ==
  /\ c \notin joined /\ joins < MaxJoins
  /\ joined' = joined \union {c}
  /\ joins' = joins + 1
  /\ expected' = [expected EXCEPT ![c] = 0]
  /\ queue' = [queue EXCEPT ![c] = Sent(<<>>, WithState(game))]
  /\ current' = [current EXCEPT ![c] = 0]
  /\ told' = [told EXCEPT ![c] = FALSE]
  /\ UNCHANGED <<game, upward, view, blind>>

Disconnect(c) ==
  /\ c \in joined
  /\ joined' = joined \ {c}
  /\ queue' = [queue EXCEPT ![c] = <<>>]
  /\ upward' = [upward EXCEPT ![c] = <<>>]
  /\ blind' = blind \ {c}
  /\ UNCHANGED <<server, client, joins>>

(* The task forwards a message, and the client takes the state in it.      *)
Forward(c) ==
  LET m == Head(queue[c])
  IN /\ queue[c] # <<>>
     /\ queue' = [queue EXCEPT ![c] = Tail(@)]
     /\ IF m = WithoutState THEN UNCHANGED client
        ELSE \E g \in m : /\ view' = [view EXCEPT ![c] = g]
                          /\ current' = [current EXCEPT ![c] = g.sequence]
                          /\ told' = [told EXCEPT ![c] = TRUE]
     /\ UNCHANGED <<game, joined, expected, upward, blind, joins>>

-----------------------------------------------------------------------------
(* What a client sends *)

(* A message, with the state that the client looked at if it matters.      *)
Send(c, kind, number, seen) ==
  /\ c \in joined
  /\ upward' = [upward EXCEPT ![c] = Append(@, [kind |-> kind, number |-> number, seen |-> seen])]
  /\ UNCHANGED <<server, client, joined, queue, joins>>

(* Whether the state a client shows says that it is its turn.  No code of  *)
(* the client asks that: it decides only what blind and seen record.       *)
SeesItsTurn(c) == told[c] /\ MayMove(view[c], c)

(* A move, while the game shown goes on: nothing asks whose turn it is.    *)
SubmitMove(c) ==
  /\ Len(upward[c]) < MaxInFlight
  /\ ~view[c].over
  /\ c \in Impatient \/ MayMove(view[c], c)
  /\ \/ SeesItsTurn(c) /\ Send(c, "move", current[c], view[c].changes) /\ UNCHANGED blind
     \/ ~SeesItsTurn(c) /\ Send(c, "move", current[c], Unaware) /\ blind' = blind \union {c}

(* A claim; its number is optional.                                        *)
SubmitClaim(c) ==
  /\ upward[c] = <<>>
  /\ c \in view[c].pending
  /\ \E number \in {current[c], NoNumber} : Send(c, "claim", number, Unaware)
  /\ UNCHANGED blind

(* acknowledge_state, with the hash of the state shown.                    *)
Acknowledge(c) ==
  /\ told[c] /\ upward[c] = <<>>
  /\ Send(c, "check", NoNumber, view[c].changes)
  /\ UNCHANGED blind

-----------------------------------------------------------------------------
(* What the task makes of it *)

Read(c, kind) ==
  /\ upward[c] # <<>> /\ Head(upward[c]).kind = kind
  /\ upward' = [upward EXCEPT ![c] = Tail(@)]
  /\ UNCHANGED <<joined, client, blind, joins>>

(* A slip: every number is taken.                                          *)
AnyNumber(c, m) == TRUE

InOrder(c, m) == m.number = NoNumber \/ m.number >= expected[c]

Expect(c, m) ==
  expected' = IF m.number = NoNumber \/ ~InOrder(c, m) THEN expected
              ELSE [expected EXCEPT ![c] = m.number + 1]

(* The rate limiter's answer does not pass through the queue.              *)
Limited(c) == \E kind \in {"move", "claim", "check"} :
  Read(c, kind) /\ UNCHANGED <<game, expected, queue>>

Changed == [game EXCEPT !.changes = @ + 1]
Turns == Clients \ {game.turn}

(* An action that is carried out, in the three ways it can end.            *)
MoveAccepted(c) ==
  /\ game.changes < MaxChanges /\ MayMove(game, c)
  /\ \/ \E next \in Turns : game' = [Changed EXCEPT !.sequence = @ + 1, !.turn = next]
     \/ game' = [Changed EXCEPT !.pending = Turns]
     \/ game' = [Changed EXCEPT !.over = TRUE]
  /\ Broadcast

(* Refused: out of order, or rejected with the number already counted.     *)
Refused(c) == UNCHANGED game /\ Reply(c, WithoutState)

HandleMove(c) ==
  LET m == Head(upward[c])
  IN /\ Read(c, "move")
     /\ Expect(c, m)
     /\ Refused(c) \/ (InOrder(c, m) /\ MoveAccepted(c))

(* All claims are in: a winner among those who made one has the turn, and  *)
(* only when there is none the sequence advances.                          *)
Resolved(claimants) ==
  \/ \E next \in Turns : game' = [Changed EXCEPT !.pending = {}, !.turn = next, !.sequence = @ + 1]
  \/ \E winner \in claimants : game' = [Changed EXCEPT !.pending = {}, !.turn = winner]

ClaimAccepted(c) ==
  /\ game.changes < MaxChanges /\ c \in game.pending /\ ~game.over
  /\ IF game.pending = {c} THEN Resolved(Turns)
     ELSE game' = [Changed EXCEPT !.pending = @ \ {c}]
  /\ Broadcast

HandleClaim(c) ==
  LET m == Head(upward[c])
  IN /\ Read(c, "claim")
     /\ Expect(c, m)
     /\ Refused(c) \/ (InOrder(c, m) /\ ClaimAccepted(c))

ClaimTimeout ==
  /\ game.pending # {} /\ game.changes < MaxChanges
  /\ Resolved(Turns \ game.pending)
  /\ Broadcast
  /\ UNCHANGED <<joined, expected, upward, client, blind, joins>>

(* A slip: the numbers are compared, not the states.                       *)
NumbersDiffer(c, m) == current[c] # game.sequence

Desynced(c, m) == m.seen # game.changes

HandleCheck(c) ==
  LET m == Head(upward[c])
  IN /\ Read(c, "check")
     /\ UNCHANGED <<game, expected>>
     /\ IF Desynced(c, m) THEN Reply(c, WithState(game)) ELSE UNCHANGED queue

SessionNext ==
  \/ ClaimTimeout
  \/ \E c \in Clients :
       \/ Connect(c) \/ Disconnect(c) \/ Forward(c)
       \/ SubmitMove(c) \/ SubmitClaim(c) \/ Acknowledge(c)
       \/ Limited(c) \/ HandleMove(c) \/ HandleClaim(c) \/ HandleCheck(c)

(* A task forwards what is queued; a client keeps checking its state, and  *)
(* not all of its checks come too fast.                                    *)
Fairness == \A c \in Clients :
  WF_vars(Forward(c)) /\ WF_vars(Acknowledge(c)) /\ SF_vars(HandleCheck(c))
              /\ WF_vars(HandleMove(c) \/ HandleClaim(c))

SessionSpec == SessionInit /\ [][SessionNext]_vars /\ Fairness

-----------------------------------------------------------------------------
(* Properties *)

Games == [changes : 0..MaxChanges, sequence : 0..MaxChanges, turn : Clients,
          pending : SUBSET Clients, over : BOOLEAN]

(* The state has its types, the queues their limit (room.rs:424), and no   *)
(* task expects more than one number past the game's (protocol.rs:156).    *)
SessionTypeOK ==
  /\ game \in Games
  /\ joined \subseteq Clients
  /\ \A c \in Clients :
       /\ expected[c] \in 0..(game.sequence + 1)
       /\ Len(queue[c]) <= QueueLimit
       /\ \A i \in DOMAIN queue[c] : queue[c][i] \subseteq Games
       /\ \A i \in DOMAIN upward[c] : upward[c][i] \in Messages
       /\ view[c] \in Games /\ current[c] \in 0..game.sequence
       /\ told[c] \in BOOLEAN
  /\ blind \subseteq Clients

(* A client that moves only when it has seen that it is its turn acts on  *)
(* the state it looked at: neither a second click nor a move on its way    *)
(* while states were dropped is taken for a later turn (protocol.rs:142).  *)
(* One move made too early ends that for the connection: the server then   *)
(* expects too low a number to refuse what was meant for an earlier turn.  *)
ActsOnWhatItSees ==
  [][\A c \in Clients \ blind :
       MoveAccepted(c) /\ upward'[c] # upward[c] => Head(upward[c]).seen = game.changes]_vars

(* Whatever is dropped, a client that stays and keeps checking ends up     *)
(* with the server's state (protocol.rs:803), unless it keeps its queue    *)
(* full with the answers to moves that are refused.                        *)
CatchesUp ==
  \A c \in Clients :
    (<>[](c \in joined) /\ <>[][~SubmitMove(c) /\ ~SubmitClaim(c)]_vars) => <>[](view[c] = game)

(* A client that shows the server's state and whose turn it is may move,   *)
(* and after a refusal try again (AI-PLAYER-GUIDE.md:395).                 *)
MayTryAgain ==
  \A c \in joined :
    (told[c] /\ view[c] = game /\ MayMove(game, c) /\ upward[c] = <<>>)
      => current[c] >= expected[c]
=============================================================================
