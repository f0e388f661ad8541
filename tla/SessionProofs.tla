--------------------------- MODULE SessionProofs ----------------------------
(***************************************************************************)
(* Theorems about Session, for any clients, queues and numbers of changes: *)
(* types and limits, and that a client acts on the state it looked at      *)
(* however its messages and its states are delayed, dropped or refused.    *)
(***************************************************************************)
EXTENDS Session, SequenceTheorems, TLAPS

Elements(q) == {q[i] : i \in DOMAIN q}
Queued(c) == UNION Elements(queue[c])
Underway(c) == Elements(upward[c])

Types ==
  /\ game \in Games /\ game.sequence <= game.changes
  /\ joined \subseteq Clients /\ blind \subseteq Clients
  /\ expected \in [Clients -> Nat]
  /\ queue \in [Clients -> Seq(SUBSET Games)]
  /\ upward \in [Clients -> Seq(Messages)]
  /\ view \in [Clients -> Games]
  /\ current \in [Clients -> Nat]
  /\ told \in [Clients -> BOOLEAN]

(* Nobody is ahead of the game, and queues have their limit.               *)
Behind(c) ==
  /\ expected[c] <= game.sequence + 1
  /\ current[c] <= game.sequence
  /\ \A g \in Queued(c) : g.sequence <= game.sequence
  /\ \A m \in Underway(c) : m.number <= game.sequence
  /\ view[c].sequence <= game.sequence
  /\ told[c] => current[c] = view[c].sequence
  /\ Len(queue[c]) <= QueueLimit
  /\ c \notin joined => Underway(c) = {}

(* A state in which c is to move is the game as it stands, or a move made  *)
(* on it comes too late to be let through.                                 *)
Fits(c, g) == MayMove(g, c) => g = game \/ g.sequence < expected[c]

(* So with a move: made on the game as it stands, or too late.             *)
InTime(c, m) ==
  /\ m.number \in Nat
  /\ \/ m.number < expected[c]
     \/ m.seen = game.changes /\ m.number = game.sequence /\ MayMove(game, c)

(* What a client knows and sends that moves only when it sees its turn.    *)
Meant(c) ==
  /\ told[c] => Fits(c, view[c])
  /\ \A g \in Queued(c) : Fits(c, g)
  /\ \A m \in Underway(c) : m.kind = "move" => InTime(c, m)

SessionInv ==
  /\ Types
  /\ \A c \in Clients : Behind(c)
  /\ \A c \in joined \ blind : Meant(c)

-----------------------------------------------------------------------------
(* Queues *)

LEMMA QueueOperations ==
  ASSUME NEW S, NEW q \in Seq(S)
  PROVE  /\ \A x \in S : Append(q, x) \in Seq(S) /\ Elements(Append(q, x)) = Elements(q) \union {x}
         /\ q # <<>> => /\ Head(q) \in Elements(q) /\ Head(q) \in S
                        /\ Tail(q) \in Seq(S) /\ Elements(Tail(q)) \subseteq Elements(q)
                        /\ Len(Tail(q)) < Len(q)
<1>1. ASSUME NEW x \in S
      PROVE  Append(q, x) \in Seq(S) /\ Elements(Append(q, x)) = Elements(q) \union {x}
  <2>1. /\ Append(q, x) \in Seq(S) /\ DOMAIN q = 1..Len(q) /\ Len(q) \in Nat
        /\ DOMAIN Append(q, x) = 1..(Len(q) + 1)
        /\ Append(q, x)[Len(q) + 1] = x
        /\ \A i \in 1..Len(q) : Append(q, x)[i] = q[i]
    OBVIOUS
  <2>2. Elements(q) \union {x} \subseteq Elements(Append(q, x))
    BY <2>1 DEF Elements
  <2>3. Elements(Append(q, x)) \subseteq Elements(q) \union {x}
    <3> SUFFICES ASSUME NEW i \in 1..(Len(q) + 1)
                 PROVE  Append(q, x)[i] \in Elements(q) \union {x}
      BY <2>1 DEF Elements
    <3>1. CASE i = Len(q) + 1
      BY <3>1, <2>1
    <3>2. CASE i \in 1..Len(q)
      BY <3>2, <2>1 DEF Elements
    <3> QED BY <2>1, <3>1, <3>2
  <2> QED BY <2>1, <2>2, <2>3
<1>2. ASSUME q # <<>>
      PROVE  /\ Head(q) \in Elements(q) /\ Head(q) \in S
             /\ Tail(q) \in Seq(S) /\ Elements(Tail(q)) \subseteq Elements(q)
             /\ Len(Tail(q)) < Len(q)
  <2>1. /\ Tail(q) \in Seq(S) /\ DOMAIN q = 1..Len(q) /\ Len(q) \in Nat \ {0}
        /\ Head(q) = q[1] /\ Head(q) \in S
        /\ DOMAIN Tail(q) = 1..(Len(q) - 1) /\ Len(Tail(q)) = Len(q) - 1
        /\ \A i \in 1..(Len(q) - 1) : Tail(q)[i] = q[i + 1]
    BY <1>2
  <2>2. Head(q) \in Elements(q)
    BY <2>1 DEF Elements
  <2>3. Elements(Tail(q)) \subseteq Elements(q)
    BY <2>1 DEF Elements
  <2> QED BY <2>1, <2>2, <2>3
<1> QED BY <1>1, <1>2

LEMMA NothingIn == Elements(<<>>) = {} /\ Len(<<>>) = 0
BY DEF Elements

LEMMA OneIn == ASSUME NEW x PROVE Elements(<<x>>) = {x}
<1>1. DOMAIN <<x>> = {1} /\ <<x>>[1] = x
  OBVIOUS
<1> QED BY <1>1 DEF Elements

(* What is sent to a queue is there or dropped.                            *)
LEMMA SentTo ==
  ASSUME NEW S, NEW q \in Seq(S), Len(q) <= QueueLimit, NEW x \in S
  PROVE  /\ Sent(q, x) \in Seq(S) /\ Len(Sent(q, x)) <= QueueLimit
         /\ Elements(Sent(q, x)) \subseteq Elements(q) \union {x}
<1>1. Append(q, x) \in Seq(S) /\ Len(Append(q, x)) = Len(q) + 1 /\ Len(q) \in Nat
  OBVIOUS
<1>2. Elements(Append(q, x)) = Elements(q) \union {x}
  BY QueueOperations
<1>3. CASE Len(q) < QueueLimit
  BY <1>1, <1>2, <1>3, SessionAssumption DEF Sent
<1>4. CASE ~(Len(q) < QueueLimit)
  BY <1>4 DEF Sent
<1> QED BY <1>3, <1>4

-----------------------------------------------------------------------------
(* The game *)

Evolves ==
  /\ game' \in Games /\ game'.sequence <= game'.changes
  /\ game.sequence <= game'.sequence /\ game'.changes = game.changes + 1

(* A game after one change more.                                           *)
LEMMA OneChange ==
  ASSUME Types, game.changes < MaxChanges
  PROVE  /\ game.changes \in Nat /\ game.sequence \in Nat /\ Turns \in SUBSET Clients
         /\ Changed \in Games /\ Changed.changes = game.changes + 1
         /\ Changed.sequence = game.sequence /\ Changed.sequence + 1 \in 0..MaxChanges
         /\ Changed.sequence + 1 <= Changed.changes
<1>1. game \in Games /\ MaxChanges \in Nat /\ game.sequence <= game.changes
  BY SessionAssumption DEF Types
<1>2. game.changes \in 0..MaxChanges /\ game.sequence \in 0..MaxChanges
  BY <1>1 DEF Games
<1>3. Changed \in Games /\ Changed.changes = game.changes + 1 /\ Changed.sequence = game.sequence
  BY <1>1 DEF Games, Changed
<1> QED BY <1>1, <1>2, <1>3 DEF Turns

LEMMA Resolves ==
  ASSUME Types, game.changes < MaxChanges, NEW claimants \in SUBSET Clients, Resolved(claimants)
  PROVE  Evolves
<1>1. PICK g \in Games, n \in 0..MaxChanges : g = Changed /\ n = g.sequence + 1
  BY OneChange
<1>2. ASSUME NEW next \in Clients, game' = [g EXCEPT !.pending = {}, !.turn = next, !.sequence = n]
      PROVE  Evolves
  <2>1. game' \in Games /\ game'.changes = g.changes /\ game'.sequence = n
    BY <1>2 DEF Games
  <2> QED BY <2>1, <1>1, OneChange DEF Evolves
<1>3. ASSUME NEW winner \in Clients, game' = [g EXCEPT !.pending = {}, !.turn = winner]
      PROVE  Evolves
  <2>1. game' \in Games /\ game'.changes = g.changes /\ game'.sequence = g.sequence
    BY <1>3 DEF Games
  <2> QED BY <2>1, <1>1, OneChange DEF Evolves
<1> QED BY <1>1, <1>2, <1>3, OneChange DEF Resolved

(* Only the client whose turn it is changes a game in which a move may be  *)
(* made.                                                                   *)
LEMMA Accepted ==
  ASSUME Types, NEW c \in Clients, MoveAccepted(c) \/ ClaimAccepted(c)
  PROVE  /\ Evolves /\ Broadcast
         /\ \A d \in Clients : MayMove(game, d) => d = c /\ MoveAccepted(c)
<1>1. PICK g \in Games, n \in 0..MaxChanges : g = Changed /\ n = g.sequence + 1
  BY OneChange DEF MoveAccepted, ClaimAccepted
<1>2. ASSUME MoveAccepted(c) PROVE Evolves
  <2>0. game.changes < MaxChanges
    BY <1>2 DEF MoveAccepted
  <2>1. ASSUME NEW next \in Clients, game' = [g EXCEPT !.sequence = n, !.turn = next] PROVE Evolves
    <3>1. game' \in Games /\ game'.changes = g.changes /\ game'.sequence = n
      BY <2>1 DEF Games
    <3> QED BY <3>1, <2>0, <1>1, OneChange DEF Evolves
  <2>2. ASSUME game' = [g EXCEPT !.pending = Turns] PROVE Evolves
    <3>1. game' \in Games /\ game'.changes = g.changes /\ game'.sequence = g.sequence
      BY <2>2 DEF Games, Turns
    <3> QED BY <3>1, <2>0, <1>1, OneChange DEF Evolves
  <2>3. ASSUME game' = [g EXCEPT !.over = TRUE] PROVE Evolves
    <3>1. game' \in Games /\ game'.changes = g.changes /\ game'.sequence = g.sequence
      BY <2>3 DEF Games
    <3> QED BY <3>1, <2>0, <1>1, OneChange DEF Evolves
  <2> QED BY <1>1, <1>2, <2>1, <2>2, <2>3 DEF MoveAccepted, Turns
<1>3. ASSUME ClaimAccepted(c) PROVE Evolves
  <2>0. game.changes < MaxChanges
    BY <1>3 DEF ClaimAccepted
  <2>1. ASSUME Resolved(Turns) PROVE Evolves
    BY <2>0, <2>1, OneChange, Resolves
  <2>2. ASSUME game' = [g EXCEPT !.pending = @ \ {c}] PROVE Evolves
    <3>1. game' \in Games /\ game'.changes = g.changes /\ game'.sequence = g.sequence
      BY <2>2 DEF Games
    <3> QED BY <3>1, <2>0, <1>1, OneChange DEF Evolves
  <2> QED BY <1>1, <1>3, <2>1, <2>2 DEF ClaimAccepted
<1>4. Broadcast /\ \A d \in Clients : MayMove(game, d) => d = c /\ MoveAccepted(c)
  BY DEF MoveAccepted, ClaimAccepted, MayMove
<1> QED BY <1>2, <1>3, <1>4

LEMMA TimedOut ==
  ASSUME Types, ClaimTimeout
  PROVE  Evolves /\ Broadcast /\ \A d \in Clients : ~MayMove(game, d)
<1>1. Evolves
  <2>1. Turns \ game.pending \in SUBSET Clients
    BY DEF Turns
  <2> QED BY <2>1, Resolves DEF ClaimTimeout
<1> QED BY <1>1 DEF ClaimTimeout, MayMove

LEMMA BroadcastTo ==
  ASSUME Types, \A d \in Clients : Behind(d), Evolves, Broadcast
  PROVE  /\ queue' \in [Clients -> Seq(SUBSET Games)]
         /\ \A c \in Clients : Len(queue'[c]) <= QueueLimit /\ Queued(c)' \subseteq Queued(c) \union {game'}
<1> SUFFICES ASSUME NEW c \in Clients
             PROVE  /\ queue'[c] \in Seq(SUBSET Games) /\ Len(queue'[c]) <= QueueLimit
                    /\ Queued(c)' \subseteq Queued(c) \union {game'}
  BY DEF Broadcast
<1>1. queue[c] \in Seq(SUBSET Games) /\ Len(queue[c]) <= QueueLimit /\ {game'} \in SUBSET Games
  BY DEF Types, Behind, Evolves
<1>2. queue'[c] = queue[c] \/ queue'[c] = Sent(queue[c], {game'})
  BY DEF Broadcast, WithState
<1>3. /\ queue'[c] \in Seq(SUBSET Games) /\ Len(queue'[c]) <= QueueLimit
      /\ Elements(queue'[c]) \subseteq Elements(queue[c]) \union {{game'}}
  BY <1>1, <1>2, SentTo
<1> QED BY <1>3 DEF Queued

LEMMA ReplyTo ==
  ASSUME Types, \A d \in Clients : Behind(d), NEW c \in Clients, NEW m \in SUBSET Games, Reply(c, m)
  PROVE  /\ queue' \in [Clients -> Seq(SUBSET Games)]
         /\ \A d \in Clients : Len(queue'[d]) <= QueueLimit /\ Queued(d)' \subseteq Queued(d) \union m
<1>1. queue[c] \in Seq(SUBSET Games) /\ Len(queue[c]) <= QueueLimit
  BY DEF Types, Behind
<1>2. /\ Sent(queue[c], m) \in Seq(SUBSET Games) /\ Len(Sent(queue[c], m)) <= QueueLimit
      /\ Elements(Sent(queue[c], m)) \subseteq Elements(queue[c]) \union {m}
  BY <1>1, SentTo
<1>3. queue' = [queue EXCEPT ![c] = Sent(queue[c], m)]
  BY DEF Reply
<1>4. queue' \in [Clients -> Seq(SUBSET Games)]
  BY <1>2, <1>3 DEF Types
<1>5. ASSUME NEW d \in Clients
      PROVE  Len(queue'[d]) <= QueueLimit /\ Elements(queue'[d]) \subseteq Elements(queue[d]) \union {m}
  BY <1>2, <1>3 DEF Types, Behind
<1> QED BY <1>4, <1>5 DEF Queued

-----------------------------------------------------------------------------
(* What a step leaves as it is *)

(* What was in time for c stays so: the game goes on without c only when c *)
(* may not move, and when c moves, no number up to the game's is expected. *)
LEMMA StaysInTime ==
  ASSUME Types, Types', NEW c \in Clients, expected[c] <= expected'[c],
         game' = game \/ ~MayMove(game, c) \/ expected'[c] = game.sequence + 1
  PROVE  /\ \A g \in Games : g.sequence <= game.sequence /\ Fits(c, g) => Fits(c, g)'
         /\ \A m \in Messages : m.number <= game.sequence /\ InTime(c, m) => InTime(c, m)'
<1>1. expected[c] \in Nat /\ expected'[c] \in Nat /\ game.sequence \in Nat
  BY DEF Types, Games
<1>2. ASSUME NEW g \in Games, g.sequence <= game.sequence, Fits(c, g), MayMove(g, c)
      PROVE  g = game' \/ g.sequence < expected'[c]
  <2>1. g.sequence \in Nat
    BY DEF Games
  <2> QED BY <1>1, <1>2, <2>1 DEF Fits
<1>3. ASSUME NEW m \in Messages, m.number <= game.sequence, InTime(c, m)
      PROVE  InTime(c, m)'
  <2>1. m.number \in Nat
    BY <1>3 DEF InTime
  <2> QED BY <1>1, <1>3, <2>1 DEF InTime
<1> QED BY <1>2, <1>3 DEF Fits

(* What a step does to a client that neither connects nor leaves, at most. *)
Mild(c) ==
  /\ expected[c] <= expected'[c] /\ expected'[c] <= game.sequence + 1
  /\ c \notin blind => game' = game \/ ~MayMove(game, c) \/ expected'[c] = game.sequence + 1
  /\ \/ view'[c] = view[c] /\ current'[c] = current[c] /\ told'[c] = told[c]
     \/ view'[c] \in Queued(c) /\ current'[c] = view'[c].sequence
  /\ Queued(c)' \subseteq Queued(c) \union {game'}
  /\ Len(queue'[c]) <= QueueLimit
  /\ \A m \in Underway(c)' :
       \/ m \in Underway(c)
       \/ /\ m.number <= game.sequence /\ c \in joined
          /\ m.kind = "move" /\ c \notin blind' => InTime(c, m)
  /\ c \in blind => c \in blind'
  /\ c \in joined' <=> c \in joined

LEMMA MildStep ==
  ASSUME SessionInv, Types', game.sequence <= game'.sequence, NEW c \in Clients, Mild(c)
  PROVE  Behind(c)' /\ (c \in joined' \ blind' => Meant(c)')
<1>1. /\ Types /\ Behind(c)
      /\ game \in Games /\ game' \in Games /\ game.sequence \in Nat /\ game'.sequence \in Nat
      /\ expected[c] \in Nat /\ expected'[c] \in Nat /\ current[c] \in Nat
      /\ view[c] \in Games /\ view'[c] \in Games
  <2>1. game \in Games /\ game' \in Games
    BY DEF SessionInv, Types
  <2>2. game.sequence \in Nat /\ game'.sequence \in Nat
    BY <2>1 DEF Games
  <2>3. Types /\ Behind(c)
    BY DEF SessionInv
  <2> QED BY <2>1, <2>2, <2>3 DEF Types
<1>2. Queued(c) \subseteq Games /\ Underway(c) \subseteq Messages /\ Underway(c)' \subseteq Messages
  BY <1>1 DEF Types, Queued, Underway, Elements
<1>3. Behind(c)'
  <2>1. expected'[c] <= game'.sequence + 1
    BY <1>1 DEF Mild
  <2>2. \A g \in Queued(c) : g.sequence <= game'.sequence
    BY <1>1, <1>2 DEF Behind, Games
  <2>3. \A g \in Queued(c)' : g.sequence <= game'.sequence
    BY <1>1, <2>2 DEF Mild
  <2>4. \A m \in Underway(c)' : m.number <= game'.sequence
    <3> SUFFICES ASSUME NEW m \in Underway(c)' PROVE m.number <= game'.sequence
      OBVIOUS
    <3>1. m.number \in Int
      BY <1>2 DEF Messages, NoNumber
    <3>2. m.number <= game.sequence
      BY <1>1 DEF Mild, Behind
    <3> QED BY <1>1, <3>1, <3>2
  <2>5. /\ current'[c] <= game'.sequence /\ view'[c].sequence <= game'.sequence
        /\ told'[c] => current'[c] = view'[c].sequence
    <3>1. view[c].sequence \in Nat
      BY <1>1 DEF Games
    <3> QED BY <1>1, <2>2, <3>1 DEF Mild, Behind
  <2>6. Len(queue'[c]) <= QueueLimit /\ (c \notin joined' => Underway(c)' = {})
    BY <1>1 DEF Mild, Behind
  <2> QED BY <2>1, <2>3, <2>4, <2>5, <2>6 DEF Behind
<1>4. ASSUME c \in joined' \ blind' PROVE Meant(c)'
  <2>1. c \in joined \ blind /\ Meant(c)
    BY <1>4 DEF Mild, SessionInv
  <2>2. /\ \A g \in Games : g.sequence <= game.sequence /\ Fits(c, g) => Fits(c, g)'
        /\ \A m \in Messages : m.number <= game.sequence /\ InTime(c, m) => InTime(c, m)'
    BY <1>1, <2>1, StaysInTime DEF Mild
  <2>3. \A g \in Queued(c) : Fits(c, g)'
    BY <1>1, <1>2, <2>1, <2>2 DEF Meant, Behind
  <2>4. \A g \in Queued(c)' : Fits(c, g)'
    <3>1. \A g \in {game'} : Fits(c, g)'
      BY DEF Fits
    <3> QED BY <2>3, <3>1 DEF Mild
  <2>5. told'[c] => \A g \in {view'[c]} : Fits(c, g)'
    BY <1>1, <2>1, <2>2, <2>3 DEF Mild, Meant, Behind
  <2>6. \A m \in Underway(c)' : m.kind = "move" => InTime(c, m)'
    BY <1>1, <1>2, <1>4, <2>1, <2>2 DEF Mild, Meant, Behind
  <2> QED BY <2>4, <2>5, <2>6 DEF Meant, Fits
<1> QED BY <1>3, <1>4

-----------------------------------------------------------------------------
(* Messages *)

LEMMA ReadFrom ==
  ASSUME SessionInv, NEW c \in Clients, NEW kind, Read(c, kind)
  PROVE  /\ upward' \in [Clients -> Seq(Messages)]
         /\ \A d \in Clients : Underway(d)' \subseteq Underway(d)
         /\ Head(upward[c]) \in Underway(c) /\ Head(upward[c]) \in Messages
         /\ Head(upward[c]).kind = kind /\ c \in joined
<1>1. upward \in [Clients -> Seq(Messages)] /\ upward[c] # <<>> /\ upward' = [upward EXCEPT ![c] = Tail(@)]
  BY DEF SessionInv, Types, Read
<1>2. /\ Head(upward[c]) \in Elements(upward[c]) /\ Head(upward[c]) \in Messages
      /\ Tail(upward[c]) \in Seq(Messages) /\ Elements(Tail(upward[c])) \subseteq Elements(upward[c])
  BY <1>1, QueueOperations
<1>3. \A d \in Clients : Elements(upward'[d]) \subseteq Elements(upward[d])
  BY <1>1, <1>2
<1>4. c \in joined
  BY <1>2 DEF SessionInv, Behind, Underway
<1> QED BY <1>1, <1>2, <1>3, <1>4 DEF Underway, Read

LEMMA SendFrom ==
  ASSUME SessionInv, NEW c \in Clients, NEW kind, NEW number, NEW seen, Send(c, kind, number, seen),
         [kind |-> kind, number |-> number, seen |-> seen] \in Messages
  PROVE  /\ upward' \in [Clients -> Seq(Messages)]
         /\ \A d \in Clients : \A m \in Underway(d)' :
              m \in Underway(d) \/ (d = c /\ m = [kind |-> kind, number |-> number, seen |-> seen])
<1> DEFINE m == [kind |-> kind, number |-> number, seen |-> seen]
<1>1. upward \in [Clients -> Seq(Messages)] /\ upward' = [upward EXCEPT ![c] = Append(@, m)]
  BY DEF SessionInv, Types, Send
<1>2. m \in Messages
  OBVIOUS
<1> HIDE DEF m
<1>3. Append(upward[c], m) \in Seq(Messages) /\ Elements(Append(upward[c], m)) = Elements(upward[c]) \union {m}
  BY <1>1, <1>2, QueueOperations
<1>4. upward' \in [Clients -> Seq(Messages)]
  BY <1>1, <1>3
<1>5. \A d \in Clients : \A k \in Elements(upward'[d]) : k \in Elements(upward[d]) \/ (d = c /\ k = m)
  BY <1>1, <1>3
<1> QED BY <1>4, <1>5 DEF Underway, m

(* The number expected only grows, to one past the game's at most.         *)
LEMMA ExpectAfter ==
  ASSUME SessionInv, NEW c \in Clients, NEW m \in Messages, m \in Underway(c), Expect(c, m)
  PROVE  /\ expected' \in [Clients -> Nat]
         /\ \A d \in Clients : expected[d] <= expected'[d] /\ expected'[d] <= game.sequence + 1
         /\ InOrder(c, m) /\ m.number \in Nat => expected[c] <= m.number /\ expected'[c] = m.number + 1
<1>1. /\ expected \in [Clients -> Nat] /\ game.sequence \in Nat
      /\ \A d \in Clients : expected[d] <= game.sequence + 1
      /\ m.number <= game.sequence /\ m.number \in Nat \union {-1}
  <2>1. game.sequence \in Nat
    BY DEF SessionInv, Types, Games
  <2> QED BY <2>1 DEF SessionInv, Types, Behind, Messages, NoNumber
<1>2. CASE m.number = NoNumber \/ ~InOrder(c, m)
  BY <1>1, <1>2 DEF Expect, NoNumber
<1>3. CASE ~(m.number = NoNumber \/ ~InOrder(c, m))
  <2>1. expected' = [expected EXCEPT ![c] = m.number + 1] /\ m.number \in Nat /\ m.number >= expected[c]
    BY <1>1, <1>3 DEF Expect, InOrder, NoNumber
  <2> QED BY <1>1, <2>1
<1> QED BY <1>2, <1>3

-----------------------------------------------------------------------------
(* The steps *)

(* All that is left to show of a step.                                     *)
StepHolds == Types' /\ \A c \in Clients : Behind(c)' /\ (c \in joined' \ blind' => Meant(c)')

LEMMA AllMild ==
  ASSUME SessionInv, Types', game.sequence <= game'.sequence, \A c \in Clients : Mild(c)
  PROVE  StepHolds
BY MildStep DEF StepHolds

LEMMA ForwardHolds == ASSUME SessionInv, NEW c \in Clients, Forward(c) PROVE StepHolds
<1> DEFINE m == Head(queue[c])
<1>1. /\ queue \in [Clients -> Seq(SUBSET Games)] /\ queue[c] # <<>>
      /\ queue' = [queue EXCEPT ![c] = Tail(@)]
      /\ UNCHANGED <<game, joined, expected, upward, blind>>
      /\ \A d \in Clients : Behind(d)
  BY DEF SessionInv, Types, Forward
<1>2. /\ m \in Elements(queue[c]) /\ m \in SUBSET Games
      /\ Tail(queue[c]) \in Seq(SUBSET Games) /\ Elements(Tail(queue[c])) \subseteq Elements(queue[c])
      /\ Len(Tail(queue[c])) < Len(queue[c])
  BY <1>1, QueueOperations
<1>3. /\ queue' \in [Clients -> Seq(SUBSET Games)]
      /\ \A d \in Clients : Elements(queue'[d]) \subseteq Elements(queue[d])
  BY <1>1, <1>2
<1>4. \A d \in Clients : Len(queue'[d]) <= QueueLimit
  <2>1. QueueLimit \in Nat /\ Len(Tail(queue[c])) \in Nat /\ Len(queue[c]) \in Nat
    BY <1>1, <1>2, SessionAssumption
  <2> QED BY <1>1, <1>2, <2>1 DEF Behind
<1>5. \/ UNCHANGED client
      \/ \E g \in Queued(c) : /\ view' = [view EXCEPT ![c] = g]
                              /\ current' = [current EXCEPT ![c] = g.sequence]
                              /\ told' = [told EXCEPT ![c] = TRUE]
  BY <1>2 DEF Forward, Queued
<1>6. \A g \in Queued(c) : g \in Games /\ g.sequence \in Nat
  BY <1>1 DEF Queued, Elements, Games
<1>7. Types'
  BY <1>1, <1>3, <1>5, <1>6 DEF SessionInv, Types, client
<1>8. \A d \in Clients :
        \/ view'[d] = view[d] /\ current'[d] = current[d] /\ told'[d] = told[d]
        \/ view'[d] \in Queued(d) /\ current'[d] = view'[d].sequence
  BY <1>5 DEF SessionInv, Types, client
<1>9. \A d \in Clients : Mild(d)
  <2> SUFFICES ASSUME NEW d \in Clients PROVE Mild(d)
    OBVIOUS
  <2>1. expected[d] <= expected'[d] /\ expected'[d] <= game.sequence + 1
    BY <1>1 DEF Behind, SessionInv, Types
  <2>2. Queued(d)' \subseteq Queued(d) /\ Underway(d)' = Underway(d)
    BY <1>1, <1>3 DEF Queued, Underway
  <2> QED BY <1>1, <1>4, <1>8, <2>1, <2>2 DEF Mild
<1>10. game.sequence <= game'.sequence
  BY <1>1 DEF SessionInv, Types, Games
<1> QED BY <1>7, <1>9, <1>10, AllMild

(* A step that leaves the game, the queues and what the clients know.      *)
LEMMA SendHolds ==
  ASSUME SessionInv, NEW c \in Clients, SubmitMove(c) \/ SubmitClaim(c) \/ Acknowledge(c)
  PROVE  StepHolds
<1>1. /\ c \in joined /\ current[c] \in Nat /\ view[c] \in Games /\ view[c].changes \in Nat
      /\ game.sequence \in Nat /\ current[c] <= game.sequence
      /\ \A d \in Clients : Behind(d)
  <2>1. view[c] \in Games /\ game \in Games
    BY DEF SessionInv, Types
  <2>2. view[c].changes \in Nat /\ game.sequence \in Nat
    BY <2>1 DEF Games
  <2> QED BY <2>1, <2>2 DEF SessionInv, Types, Behind, SubmitMove, SubmitClaim, Acknowledge, Send
<1>2. PICK kind \in {"move", "claim", "check"}, number \in {current[c], NoNumber},
           seen \in {view[c].changes, Unaware} :
        /\ Send(c, kind, number, seen)
        /\ kind = "move" => number = current[c]
        /\ blind \subseteq blind' /\ blind' \subseteq blind \union {c}
        /\ kind = "move" /\ c \notin blind' => SeesItsTurn(c) /\ seen = view[c].changes
  BY DEF SubmitMove, SubmitClaim, Acknowledge
<1> DEFINE m == [kind |-> kind, number |-> number, seen |-> seen]
<1>3. m \in Messages /\ m.number <= game.sequence
  BY <1>1, <1>2 DEF Messages, NoNumber, Unaware
<1>4. /\ upward' \in [Clients -> Seq(Messages)]
      /\ \A d \in Clients : \A k \in Underway(d)' : k \in Underway(d) \/ (d = c /\ k = m)
  BY <1>2, <1>3, SendFrom
<1>5. UNCHANGED <<game, expected, queue, view, current, told, joined>>
  BY <1>2 DEF Send, server, client
<1>6. Types'
  BY <1>1, <1>2, <1>4, <1>5 DEF SessionInv, Types
<1>7. kind = "move" /\ c \notin blind' => InTime(c, m)
  <2> SUFFICES ASSUME kind = "move", c \notin blind' PROVE InTime(c, m)
    OBVIOUS
  <2>1. Meant(c) /\ told[c] /\ MayMove(view[c], c) /\ seen = view[c].changes
    BY <1>1, <1>2 DEF SessionInv, SeesItsTurn
  <2>2. m.number = view[c].sequence /\ m.number \in Nat
    BY <1>1, <1>2, <2>1 DEF Behind
  <2> QED BY <2>1, <2>2 DEF Meant, Fits, InTime
<1>8. \A d \in Clients : Mild(d)
  <2> SUFFICES ASSUME NEW d \in Clients PROVE Mild(d)
    OBVIOUS
  <2>1. expected[d] <= expected'[d] /\ expected'[d] <= game.sequence + 1 /\ Len(queue'[d]) <= QueueLimit
    BY <1>1, <1>5 DEF Behind, SessionInv, Types
  <2>2. Queued(d)' = Queued(d)
    BY <1>5 DEF Queued
  <2>3. \A k \in Underway(d)' :
          \/ k \in Underway(d)
          \/ /\ k.number <= game.sequence /\ d \in joined
             /\ k.kind = "move" /\ d \notin blind' => InTime(d, k)
    BY <1>1, <1>3, <1>4, <1>7
  <2> QED BY <1>2, <1>5, <2>1, <2>2, <2>3 DEF Mild
<1>9. game.sequence <= game'.sequence
  BY <1>1, <1>5
<1> QED BY <1>6, <1>8, <1>9, AllMild

LEMMA LimitedHolds == ASSUME SessionInv, NEW c \in Clients, Limited(c) PROVE StepHolds
<1>1. PICK kind : Read(c, kind) /\ UNCHANGED <<game, expected, queue>>
  BY DEF Limited
<1>2. UNCHANGED <<game, expected, queue, view, current, told, joined, blind>>
  BY <1>1 DEF Read, client
<1>3. upward' \in [Clients -> Seq(Messages)] /\ \A d \in Clients : Underway(d)' \subseteq Underway(d)
  BY <1>1, ReadFrom
<1>4. Types'
  BY <1>2, <1>3 DEF SessionInv, Types
<1>5. game.sequence \in Nat
  BY DEF SessionInv, Types, Games
<1>6. \A d \in Clients : Mild(d)
  <2> SUFFICES ASSUME NEW d \in Clients PROVE Mild(d)
    OBVIOUS
  <2>1. expected[d] <= expected'[d] /\ expected'[d] <= game.sequence + 1 /\ Len(queue'[d]) <= QueueLimit
    BY <1>2 DEF Behind, SessionInv, Types
  <2>2. Queued(d)' = Queued(d)
    BY <1>2 DEF Queued
  <2> QED BY <1>2, <1>3, <2>1, <2>2 DEF Mild
<1> QED BY <1>2, <1>4, <1>5, <1>6, AllMild

(* A message that is answered to its sender only.                          *)
LEMMA RefusedHolds ==
  ASSUME SessionInv, NEW c \in Clients, NEW kind, Read(c, kind), UNCHANGED game,
         expected' \in [Clients -> Nat],
         \A d \in Clients : expected[d] <= expected'[d] /\ expected'[d] <= game.sequence + 1,
         UNCHANGED queue \/ Reply(c, WithoutState) \/ Reply(c, WithState(game))
  PROVE  StepHolds
<1>1. UNCHANGED <<game, view, current, told, joined, blind>>
  BY DEF Read, client
<1>2. upward' \in [Clients -> Seq(Messages)] /\ \A d \in Clients : Underway(d)' \subseteq Underway(d)
  BY ReadFrom
<1>3. Types /\ game.sequence \in Nat /\ \A d \in Clients : Behind(d)
  <2>1. game \in Games
    BY DEF SessionInv, Types
  <2>2. game.sequence \in Nat
    BY <2>1 DEF Games
  <2> QED BY <2>2 DEF SessionInv
<1>4. /\ queue' \in [Clients -> Seq(SUBSET Games)]
      /\ \A d \in Clients : Len(queue'[d]) <= QueueLimit /\ Queued(d)' \subseteq Queued(d) \union {game}
  <2>1. CASE UNCHANGED queue
    BY <1>3, <2>1 DEF Types, Behind, Queued
  <2>2. CASE Reply(c, WithoutState)
    BY <1>3, <2>2, ReplyTo DEF WithoutState
  <2>3. CASE Reply(c, WithState(game))
    BY <1>3, <2>3, ReplyTo DEF WithState, Types
  <2> QED BY <2>1, <2>2, <2>3
<1>5. Types'
  BY <1>1, <1>2, <1>4 DEF SessionInv, Types
<1>6. \A d \in Clients : Mild(d)
  BY <1>1, <1>2, <1>4 DEF Mild
<1> QED BY <1>1, <1>3, <1>5, <1>6, AllMild

(* A change of the game that everybody hears of.                           *)
LEMMA ChangeHolds ==
  ASSUME SessionInv, Evolves, Broadcast,
         upward' \in [Clients -> Seq(Messages)], \A d \in Clients : Underway(d)' \subseteq Underway(d),
         expected' \in [Clients -> Nat],
         \A d \in Clients : expected[d] <= expected'[d] /\ expected'[d] <= game.sequence + 1,
         \A d \in Clients \ blind : ~MayMove(game, d) \/ expected'[d] = game.sequence + 1,
         UNCHANGED <<view, current, told, joined, blind>>
  PROVE  StepHolds
<1>1. Types /\ \A d \in Clients : Behind(d)
  BY DEF SessionInv
<1>2. /\ queue' \in [Clients -> Seq(SUBSET Games)]
      /\ \A d \in Clients : Len(queue'[d]) <= QueueLimit /\ Queued(d)' \subseteq Queued(d) \union {game'}
  BY <1>1, BroadcastTo
<1>3. Types'
  BY <1>1, <1>2 DEF Types, Evolves
<1>4. \A d \in Clients : Mild(d)
  BY <1>2 DEF Mild
<1> QED BY <1>3, <1>4, AllMild DEF Evolves

LEMMA HandleHolds ==
  ASSUME SessionInv, NEW c \in Clients, HandleMove(c) \/ HandleClaim(c) PROVE StepHolds
<1> DEFINE m == Head(upward[c])
<1>1. PICK kind \in {"move", "claim"} :
        /\ Read(c, kind) /\ Expect(c, m)
        /\ \/ Refused(c)
           \/ InOrder(c, m) /\ MoveAccepted(c) /\ kind = "move"
           \/ ClaimAccepted(c)
  BY DEF HandleMove, HandleClaim
<1>2. /\ upward' \in [Clients -> Seq(Messages)]
      /\ \A d \in Clients : Underway(d)' \subseteq Underway(d)
      /\ m \in Underway(c) /\ m \in Messages /\ m.kind = kind /\ c \in joined
  BY <1>1, ReadFrom
<1>3. /\ expected' \in [Clients -> Nat]
      /\ \A d \in Clients : expected[d] <= expected'[d] /\ expected'[d] <= game.sequence + 1
      /\ InOrder(c, m) /\ m.number \in Nat => expected[c] <= m.number /\ expected'[c] = m.number + 1
  BY <1>1, <1>2, ExpectAfter
<1>4. CASE Refused(c)
  BY <1>1, <1>3, <1>4, RefusedHolds DEF Refused
<1>5. CASE ~Refused(c)
  <2>1. Types /\ (MoveAccepted(c) \/ ClaimAccepted(c))
    BY <1>1, <1>5 DEF SessionInv
  <2>2. Evolves /\ Broadcast /\ \A d \in Clients : MayMove(game, d) => d = c /\ MoveAccepted(c)
    BY <2>1, Accepted
  <2>3. ASSUME c \notin blind, MayMove(game, c) PROVE expected'[c] = game.sequence + 1
    <3>1. InOrder(c, m) /\ kind = "move"
      BY <1>1, <1>5, <2>3 DEF ClaimAccepted, MayMove
    <3>2. InTime(c, m)
      BY <1>2, <2>3, <3>1 DEF SessionInv, Meant
    <3>3. expected[c] \in Nat /\ m.number \in Nat /\ expected[c] <= m.number
      BY <1>3, <2>1, <3>1, <3>2 DEF InTime, Types
    <3>4. m.number = game.sequence
      BY <3>2, <3>3 DEF InTime
    <3> QED BY <1>3, <3>1, <3>3, <3>4
  <2>4. UNCHANGED <<view, current, told, joined, blind>>
    BY <1>1 DEF Read, client
  <2> QED BY <1>2, <1>3, <2>2, <2>3, <2>4, ChangeHolds
<1> QED BY <1>4, <1>5

LEMMA CheckHolds == ASSUME SessionInv, NEW c \in Clients, HandleCheck(c) PROVE StepHolds
<1>1. /\ Read(c, "check") /\ UNCHANGED <<game, expected>>
      /\ UNCHANGED queue \/ Reply(c, WithState(game))
  BY DEF HandleCheck
<1>2. /\ expected' \in [Clients -> Nat]
      /\ \A d \in Clients : expected[d] <= expected'[d] /\ expected'[d] <= game.sequence + 1
  BY <1>1 DEF SessionInv, Types, Behind
<1> QED BY <1>1, <1>2, RefusedHolds

LEMMA TimeoutHolds == ASSUME SessionInv, ClaimTimeout PROVE StepHolds
<1>1. Evolves /\ Broadcast /\ \A d \in Clients : ~MayMove(game, d)
  BY TimedOut DEF SessionInv
<1>2. UNCHANGED <<joined, expected, upward, view, current, told, blind>>
  BY DEF ClaimTimeout, client
<1>3. /\ expected' \in [Clients -> Nat] /\ upward' \in [Clients -> Seq(Messages)]
      /\ \A d \in Clients : /\ expected[d] <= expected'[d] /\ expected'[d] <= game.sequence + 1
                            /\ Underway(d)' \subseteq Underway(d)
  BY <1>2 DEF SessionInv, Types, Behind, Underway
<1> QED BY <1>1, <1>2, <1>3, ChangeHolds

(* Whom a step does not concern.                                           *)
LEMMA Untouched ==
  ASSUME SessionInv, NEW d \in Clients, UNCHANGED game,
         expected'[d] = expected[d], queue'[d] = queue[d], upward'[d] = upward[d],
         view'[d] = view[d], current'[d] = current[d], told'[d] = told[d],
         d \in blind' <=> d \in blind, d \in joined' <=> d \in joined
  PROVE  Mild(d)
<1>1. Behind(d) /\ expected[d] \in Nat
  BY DEF SessionInv, Types
<1>2. Queued(d)' = Queued(d) /\ Underway(d)' = Underway(d)
  BY DEF Queued, Underway
<1> QED BY <1>1, <1>2 DEF Mild, Behind

LEMMA ConnectHolds == ASSUME SessionInv, NEW c \in Clients, Connect(c) PROVE StepHolds
<1>1. /\ joined' = joined \union {c} /\ c \notin joined
      /\ expected' = [expected EXCEPT ![c] = 0]
      /\ queue' = [queue EXCEPT ![c] = <<{game}>>]
      /\ current' = [current EXCEPT ![c] = 0] /\ told' = [told EXCEPT ![c] = FALSE]
      /\ UNCHANGED <<game, upward, view, blind>>
  <2>1. Sent(<<>>, {game}) = <<{game}>>
    BY SessionAssumption DEF Sent
  <2> QED BY <2>1 DEF Connect, WithState
<1>2. Types /\ game \in Games /\ game.sequence \in Nat /\ Behind(c)
  BY DEF SessionInv, Types, Games
<1>3. Types'
  BY <1>1, <1>2 DEF Types
<1>4. ASSUME NEW d \in Clients, d # c PROVE Mild(d)
  BY <1>1, <1>2, <1>4, Untouched DEF Types
<1>5. Underway(c)' = {} /\ Queued(c)' = {game}
  <2>1. Underway(c) = {}
    BY <1>1, <1>2 DEF Behind
  <2>2. queue'[c] = <<{game}>>
    BY <1>1, <1>2 DEF Types
  <2>3. Elements(queue'[c]) = {{game}}
    BY <2>2, OneIn
  <2> QED BY <1>1, <2>1, <2>3 DEF Underway, Queued
<1>6. expected'[c] = 0 /\ current'[c] = 0 /\ told'[c] = FALSE /\ Len(queue'[c]) <= QueueLimit
  BY <1>1, <1>2, SessionAssumption DEF Types
<1>7. Behind(c)' /\ Meant(c)'
  BY <1>1, <1>2, <1>5, <1>6 DEF Behind, Meant, Fits
<1> QED BY <1>1, <1>2, <1>3, <1>4, <1>7, MildStep DEF StepHolds

LEMMA DisconnectHolds == ASSUME SessionInv, NEW c \in Clients, Disconnect(c) PROVE StepHolds
<1>1. /\ joined' = joined \ {c} /\ blind' = blind \ {c}
      /\ queue' = [queue EXCEPT ![c] = <<>>] /\ upward' = [upward EXCEPT ![c] = <<>>]
      /\ UNCHANGED <<game, expected, view, current, told>>
  BY DEF Disconnect, server, client
<1>2. Types /\ game \in Games /\ game.sequence \in Nat /\ Behind(c)
  BY DEF SessionInv, Types, Games
<1>3. Types'
  BY <1>1, <1>2 DEF Types
<1>4. ASSUME NEW d \in Clients, d # c PROVE Mild(d)
  BY <1>1, <1>2, <1>4, Untouched DEF Types
<1>5. Underway(c)' = {} /\ Queued(c)' = {} /\ Len(queue'[c]) <= QueueLimit
  <2>1. queue'[c] = <<>> /\ upward'[c] = <<>>
    BY <1>1, <1>2 DEF Types
  <2> QED BY <2>1, NothingIn, SessionAssumption DEF Underway, Queued
<1>6. Behind(c)' /\ c \notin joined'
  BY <1>1, <1>2, <1>5 DEF Behind
<1> QED BY <1>1, <1>2, <1>3, <1>4, <1>6, MildStep DEF StepHolds

LEMMA SessionStep == ASSUME SessionInv, [SessionNext]_vars PROVE SessionInv'
<1>1. ASSUME StepHolds PROVE SessionInv'
  BY <1>1 DEF StepHolds, SessionInv, Types
<1>2. ASSUME NEW c \in Clients,
             \/ Connect(c) \/ Disconnect(c) \/ Forward(c)
             \/ SubmitMove(c) \/ SubmitClaim(c) \/ Acknowledge(c)
             \/ Limited(c) \/ HandleMove(c) \/ HandleClaim(c) \/ HandleCheck(c)
      PROVE  StepHolds
  <2>1. CASE Connect(c) \/ Disconnect(c)
    BY <2>1, ConnectHolds, DisconnectHolds
  <2>2. CASE Forward(c) \/ Limited(c)
    BY <2>2, ForwardHolds, LimitedHolds
  <2>3. CASE SubmitMove(c) \/ SubmitClaim(c) \/ Acknowledge(c)
    BY <2>3, SendHolds
  <2>4. CASE HandleMove(c) \/ HandleClaim(c)
    BY <2>4, HandleHolds
  <2>5. CASE HandleCheck(c)
    BY <2>5, CheckHolds
  <2> QED BY <1>2, <2>1, <2>2, <2>3, <2>4, <2>5
<1>3. CASE UNCHANGED vars
  <2>1. \A d \in Clients : Mild(d)
    BY <1>3, Untouched DEF vars
  <2>2. Types' /\ game.sequence <= game'.sequence
    BY <1>3 DEF vars, SessionInv, Types, Games
  <2> QED BY <1>1, <2>1, <2>2, AllMild
<1> QED BY <1>1, <1>2, <1>3, TimeoutHolds DEF SessionNext

LEMMA SessionStart == SessionInit => SessionInv
<1> SUFFICES ASSUME SessionInit PROVE SessionInv
  OBVIOUS
<1>1. NewGame \in Games /\ NewGame.sequence = 0 /\ NewGame.changes = 0
  BY SessionAssumption DEF NewGame, Games
<1>2. Types
  BY <1>1 DEF SessionInit, Types
<1>3. ASSUME NEW c \in Clients PROVE Behind(c)
  <2>1. Queued(c) = {} /\ Underway(c) = {} /\ Len(queue[c]) = 0
    BY NothingIn DEF SessionInit, Queued, Underway
  <2> QED BY <1>1, <2>1, SessionAssumption DEF SessionInit, Behind
<1> QED BY <1>2, <1>3 DEF SessionInit, SessionInv

-----------------------------------------------------------------------------
(* The theorems *)

LEMMA SessionInvariant == SessionSpec => []SessionInv
BY SessionStart, SessionStep, PTL DEF SessionSpec

(* Types, and the limit of the queues: no task expects a number that its   *)
(* client can be more than one behind.                                     *)
THEOREM SessionTypeCorrect == SessionSpec => []SessionTypeOK
<1>1. SessionInv => SessionTypeOK
  <2> SUFFICES ASSUME SessionInv PROVE SessionTypeOK
    OBVIOUS
  <2>1. game \in Games /\ game.sequence \in Nat
    BY DEF SessionInv, Types, Games
  <2> QED BY <2>1 DEF SessionInv, Types, Behind, SessionTypeOK
<1> QED BY <1>1, SessionInvariant, PTL

(* A client that moves only when it sees its turn acts on what it sees.    *)
THEOREM ActsInTime == SessionSpec => ActsOnWhatItSees
<1> DEFINE Acts == \A c \in Clients \ blind :
       MoveAccepted(c) /\ upward'[c] # upward[c] => Head(upward[c]).seen = game.changes
<1>1. ASSUME SessionInv, [SessionNext]_vars PROVE Acts
  <2> SUFFICES ASSUME NEW c \in Clients \ blind, MoveAccepted(c), upward'[c] # upward[c]
               PROVE  Head(upward[c]).seen = game.changes
    OBVIOUS
  <2>1. MayMove(game, c) /\ Evolves
    BY <1>1, Accepted DEF MoveAccepted, SessionInv
  <2>2. game' # game
    <3>1. game \in Games
      BY <1>1 DEF SessionInv, Types
    <3>2. game.changes \in Nat
      BY <3>1 DEF Games
    <3> QED BY <2>1, <3>2 DEF Evolves
  <2>3. PICK d \in Clients : HandleMove(d) \/ HandleClaim(d)
    <3>1. game.pending = {}
      BY <2>1 DEF MayMove
    <3> QED BY <1>1, <2>2, <3>1 DEF SessionNext, vars, server, ClaimTimeout, Connect, Disconnect,
                 Forward, SubmitMove, SubmitClaim, Acknowledge, Send, Limited, HandleCheck
  <2>4. d = c
    BY <1>1, <2>3 DEF HandleMove, HandleClaim, Read, SessionInv, Types
  <2>5. Read(c, "move") /\ InOrder(c, Head(upward[c]))
    BY <2>1, <2>2, <2>3, <2>4 DEF HandleMove, HandleClaim, Refused, ClaimAccepted, MayMove
  <2>6. Head(upward[c]) \in Underway(c) /\ Head(upward[c]).kind = "move" /\ c \in joined
    BY <1>1, <2>5, ReadFrom
  <2>7. InTime(c, Head(upward[c])) /\ expected[c] \in Nat
    BY <1>1, <2>6 DEF SessionInv, Meant, Types
  <2> QED BY <2>5, <2>7 DEF InTime, InOrder, NoNumber
<1> QED BY <1>1, SessionInvariant, PTL DEF SessionSpec, ActsOnWhatItSees
=============================================================================
