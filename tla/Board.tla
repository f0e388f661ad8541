------------------------------- MODULE Board --------------------------------
(***************************************************************************)
(* A game on one shared grid: the grid of runtime.rs (dense or sparse,     *)
(* with a mask of valid cells, stacks and fog of war), the actions of      *)
(* execute_action that change it, the moves that moves.rs offers and the   *)
(* conditions of end_conditions.rs that end the game.                      *)
(*                                                                         *)
(* What apply_action does around an action (status, claims, budgets) is    *)
(* in GameTurn; here two players alternate.  An action that is refused     *)
(* keeps what execute_action had changed before the refusal.  Positions    *)
(* are those that messages name, on the board or off it; a component is    *)
(* its number in the component table, and which way up it lies is left     *)
(* out.                                                                    *)
(***************************************************************************)
EXTENDS Integers, FiniteSets, Sequences, SequencesExt

CONSTANTS
  Defs,           (* game definitions                                      *)
  Points,         (* the positions of messages: pairs <<col, row>>         *)
  MaxComponents   (* MAX_COMPONENTS_PER_GAME                               *)

ASSUME BoardAssumption ==
  /\ MaxComponents \in Nat
  /\ \A d \in Defs : /\ d.limit \in Nat /\ d.bounded \in BOOLEAN
                      /\ d.width \in Nat \ {0} /\ d.height \in Nat \ {0}

Players == {0, 1}
None == 0          (* an empty cell *)
Undecided == -1
Draw == 2

VARIABLES
  def,        (* the definition                                            *)
  top,        (* GridStorage: the component of a cell                      *)
  below,      (* stacks: what lies under it, from the bottom               *)
  comps,      (* the component table                                       *)
  fog,        (* cell_fog of a player, "unset" without an entry            *)
  turn,       (* whose turn it is                                          *)
  result      (* Undecided, Draw or the winner                             *)

grid == [top |-> top, below |-> below]
vars == <<def, top, below, comps, fog, turn, result>>

Components == 1..Len(comps)
Owner(c) == comps[c].owner
Kinds == DOMAIN def.movement

BoardInit ==
  /\ def \in Defs
  /\ top = [p \in Points |-> None]
  /\ below = [p \in Points |-> <<>>]
  /\ comps = <<>>
  /\ fog = [n \in Players |-> [p \in Points |-> "unset"]]
  /\ turn = 0
  /\ result = Undecided

-----------------------------------------------------------------------------
(* The grid *)

(* cell_valid of the storage, and with the mask.                           *)
InBounds(p) == def.bounded => p[1] < def.width /\ p[2] < def.height
CellValid(p) == InBounds(p) /\ p \in def.mask

Get(g, p) == IF p \in def.mask THEN g.top[p] ELSE None

(* A slip: the storage takes every position.                               *)
SetAnywhere(g, p, c) == [g EXCEPT !.top[p] = c]

(* Outside the mask, and outside a dense grid, nothing happens; a sparse   *)
(* grid takes every position.                                              *)
Set(g, p, c) ==
  IF p \in def.mask /\ (def.storage = "dense" => InBounds(p))
    THEN [g EXCEPT !.top[p] = c] ELSE g

Depth(g, p) == Len(g.below[p]) + (IF g.top[p] = None THEN 0 ELSE 1)

(* A slip: a full stack takes one more.                                    *)
CanPushOneMore(g, p) ==
  CellValid(p) /\ (def.limit > 0 => Depth(g, p) <= def.limit)

CanPush(g, p) == CellValid(p) /\ (def.limit > 0 => Depth(g, p) < def.limit)

Push(g, p, c) ==
  IF g.top[p] = None THEN [g EXCEPT !.top[p] = c]
  ELSE [g EXCEPT !.below[p] = Append(@, g.top[p]), !.top[p] = c]

(* A slip: the piece is not taken from its stack.                          *)
PopNothing(g, p) == g

Pop(g, p) ==
  IF ~CellValid(p) \/ g.top[p] = None THEN g
  ELSE IF g.below[p] = <<>> THEN [g EXCEPT !.top[p] = None]
  ELSE [g EXCEPT !.top[p] = Last(g.below[p]), !.below[p] = Front(@)]

(* Where find_component_on_grid may find a component: on top.              *)
Places(g, c) == {p \in Points : g.top[p] = c}

-----------------------------------------------------------------------------
(* The actions: the grid, the table and whether the action is accepted *)

Outcome(g, t, ok) == [grid |-> g, comps |-> t, ok |-> ok]
Accept(g) == Outcome(g, comps, TRUE)
Refuse(g) == Outcome(g, comps, FALSE)

MoveOutcome(from, to) ==
  LET c == Get(grid, from)
      g == Pop(grid, from)
  IN IF c = None THEN Refuse(grid)
     ELSE IF Get(grid, to) # None /\ def.limit # 1
       THEN IF CanPush(g, to) THEN Accept(Push(g, to, c)) ELSE Refuse(g)
       ELSE Accept(Set(g, to, c))

(* The component is in the table before the position is looked at.         *)
PlaceOutcome(n, kind, to) ==
  LET c == Len(comps) + 1
      t == Append(comps, [owner |-> n, kind |-> kind])
  IN IF Len(comps) >= MaxComponents THEN Refuse(grid)
     ELSE IF Get(grid, to) = None THEN Outcome(Set(grid, to, c), t, TRUE)
     ELSE IF def.limit # 1 /\ CanPush(grid, to) THEN Outcome(Push(grid, to, c), t, TRUE)
     ELSE Outcome(grid, t, FALSE)

(* What a reveal places takes the cell, whatever stands there.             *)
RevealOutcome(n, kind, to) ==
  IF Len(comps) >= MaxComponents THEN Refuse(grid)
  ELSE Outcome(Set(grid, to, Len(comps) + 1),
               Append(comps, [owner |-> n, kind |-> kind]), TRUE)

RemoveOutcome(p) == Accept(Set(grid, p, None))

SwapOutcome(p, q) ==
  Accept(Set(Set(grid, p, Get(grid, q)), q, Get(grid, p)))

PromoteOutcome(c, kind) == Outcome(grid, [comps EXCEPT ![c].kind = kind], TRUE)

-----------------------------------------------------------------------------
(* Fog of war *)

Distance(p, q) ==
  LET Abs(k) == IF k < 0 THEN -k ELSE k
  IN Abs(p[1] - q[1]) + Abs(p[2] - q[2])

Units(g, t, n) == {p \in Points : g.top[p] # None /\ t[g.top[p]].owner = n}

InRange(g, t, n) ==
  {p \in Points : InBounds(p) /\ \E u \in Units(g, t, n) : Distance(p, u) <= def.vision}

FogState(n, p) == IF fog[n][p] = "unset" THEN def.unseen ELSE fog[n][p]

(* A slip: what a player no longer sees stays visible.                     *)
RecomputeNeverFogs(g, t, n) ==
  [p \in Points |-> IF p \in InRange(g, t, n) THEN "visible" ELSE fog[n][p]]

RecomputeFog(g, t, n) ==
  [p \in Points |-> IF p \in InRange(g, t, n) THEN "visible"
                    ELSE IF fog[n][p] = "visible" THEN "fogged"
                    ELSE fog[n][p]]

(* The pieces that the state sent to a player shows him.                   *)
View(n) == {p \in Points : /\ top[p] # None
                           /\ def.vision > 0 => FogState(n, p) = "visible"}

-----------------------------------------------------------------------------
(* End conditions, in the order of the definition: a line, a full board *)

OwnedBy(g, t, p, n) == p \in Points /\ g.top[p] # None /\ t[g.top[p]].owner = n

Columns == 0..(def.width - 1)
Rows == 0..(def.height - 1)

CompleteLine(g, t, n) ==
  def.bounded /\
  \/ \E r \in Rows : \A c \in Columns : OwnedBy(g, t, <<c, r>>, n)
  \/ \E c \in Columns : \A r \in Rows : OwnedBy(g, t, <<c, r>>, n)
  \/ /\ def.width = def.height
     /\ \/ \A i \in Rows : OwnedBy(g, t, <<i, i>>, n)
        \/ \A i \in Rows : OwnedBy(g, t, <<def.width - 1 - i, i>>, n)

(* The occupied cells are counted against the size of the whole grid.      *)
FullBoard(g) ==
  def.bounded /\ Cardinality({p \in Points : g.top[p] # None}) = def.width * def.height

(* A slip: the conditions are looked at for the player after the mover.    *)
CurrentAfterTurn == 1 - turn

(* Whom "current" stands for: the turn is passed afterwards.               *)
Current == turn

Decision(g, t) ==
  IF def.lines /\ CompleteLine(g, t, Current) THEN Current
  ELSE IF FullBoard(g) THEN Draw
  ELSE Undecided

-----------------------------------------------------------------------------
(* execute_action and what follows it *)

Finish(o) ==
  /\ top' = o.grid.top /\ below' = o.grid.below /\ comps' = o.comps
  /\ result' = IF o.ok THEN Decision(o.grid, o.comps) ELSE result
  /\ turn' = IF o.ok /\ result' = Undecided THEN 1 - turn ELSE turn
  /\ UNCHANGED def

KeepFog == UNCHANGED fog
UpdateFog(o) ==
  fog' = IF o.ok /\ def.vision > 0
           THEN [fog EXCEPT ![turn] = RecomputeFog(o.grid, o.comps, turn)] ELSE fog

Playing == result = Undecided

MovePiece == Playing /\ \E from, to \in Points :
  LET o == MoveOutcome(from, to) IN Finish(o) /\ UpdateFog(o)

Place == Playing /\ \E kind \in Kinds, to \in Points :
  LET o == PlaceOutcome(turn, kind, to) IN Finish(o) /\ UpdateFog(o)

Reveal == Playing /\ \E kind \in Kinds, to \in Points :
  Finish(RevealOutcome(turn, kind, to)) /\ KeepFog

RemovePiece == Playing /\ \E c \in Components : \E p \in Places(grid, c) :
  Finish(RemoveOutcome(p)) /\ KeepFog

Swap == Playing /\ \E c, d \in Components :
  \E p \in Places(grid, c), q \in Places(grid, d) :
    Finish(SwapOutcome(p, q)) /\ KeepFog

(* Components are looked up in the table: one that is off the board can be *)
(* flipped and promoted.                                                   *)
Flip == Playing /\ Components # {} /\ Finish(Accept(grid)) /\ KeepFog

Promote == Playing /\ \E c \in Components, kind \in Kinds :
  Finish(PromoteOutcome(c, kind)) /\ KeepFog

BoardNext ==
  MovePiece \/ Place \/ Reveal \/ RemovePiece \/ Swap \/ Flip \/ Promote

BoardSpec == BoardInit /\ [][BoardNext]_vars

-----------------------------------------------------------------------------
(* The moves that moves.rs offers *)

Orthogonal == {<<1, 0>>, <<-1, 0>>, <<0, 1>>, <<0, -1>>}
Diagonal == {<<1, 1>>, <<1, -1>>, <<-1, 1>>, <<-1, -1>>}
HexDiagonal == {<<-1, 1>>, <<1, -1>>}

Adjacent == CASE def.adjacency = "hex6" -> Orthogonal \union HexDiagonal
              [] def.adjacency = "orthogonal4" -> Orthogonal
              [] OTHER -> Orthogonal \union Diagonal

Vectors(name) ==
  CASE name = "orthogonal" -> Orthogonal
    [] name = "diagonal" -> IF def.adjacency = "hex6" THEN HexDiagonal ELSE Diagonal
    [] name = "adjacent" -> Adjacent
    [] name = "forward" -> {<<0, 1>>}
    [] name = "forward_diagonal" -> {<<1, 1>>, <<-1, 1>>}
    [] name = "backward" -> {<<0, -1>>}
    [] name = "backward_diagonal" -> {<<1, -1>>, <<-1, -1>>}

Directions(mp) ==
  IF mp.direction = {} THEN Adjacent ELSE UNION {Vectors(name) : name \in mp.direction}

Along(p, d, k) == <<p[1] + k * d[1], p[2] + k * d[2]>>
OnGrid(p) == p \in Points /\ CellValid(p)

IsEmpty(p) == Get(grid, p) = None
IsEnemy(p, n) == ~IsEmpty(p) /\ Owner(Get(grid, p)) # n

(* A slip: a piece may move onto a piece of its own side.                  *)
MayEnterAny(p, n, condition) ==
  CASE condition = "empty" -> IsEmpty(p)
    [] condition = "enemy" -> ~IsEmpty(p)
    [] OTHER -> TRUE

MayEnter(p, n, condition) ==
  CASE condition = "empty" -> IsEmpty(p)
    [] condition = "enemy" -> IsEnemy(p, n)
    [] OTHER -> IsEmpty(p) \/ IsEnemy(p, n)

StepTargets(n, at, mp) ==
  {p \in {Along(at, d, mp.distance) : d \in Directions(mp)} :
     OnGrid(p) /\ MayEnter(p, n, mp.condition)}

Reach == 1..(def.width + def.height)

SlideTargets(n, at, mp) ==
  UNION {{Along(at, d, k) : k \in {k \in Reach :
            /\ \A j \in 1..(k - 1) : OnGrid(Along(at, d, j)) /\ IsEmpty(Along(at, d, j))
            /\ OnGrid(Along(at, d, k))
            /\ MayEnter(Along(at, d, k), n, "empty_or_enemy")}} : d \in Directions(mp)}

LeapTargets(n, at, mp) ==
  {p \in {<<at[1] + sx * l[1], at[2] + sy * l[2]>> :
            sx \in {1, -1}, sy \in {1, -1}, l \in {<<mp.dx, mp.dy>>, <<mp.dy, mp.dx>>}} :
     OnGrid(p) /\ MayEnter(p, n, "empty_or_enemy")}

HopTargets(at, mp) ==
  {p \in {Along(at, d, 2) : d \in Directions(mp)} :
     /\ OnGrid(p) /\ IsEmpty(p)
     /\ LET mid == <<(at[1] + p[1]) \div 2, (at[2] + p[2]) \div 2>>
        IN OnGrid(mid) /\ ~IsEmpty(mid)}

Targets(n, at, mp) ==
  CASE mp.primitive = "step" -> StepTargets(n, at, mp)
    [] mp.primitive = "slide" -> SlideTargets(n, at, mp)
    [] mp.primitive = "leap" -> LeapTargets(n, at, mp)
    [] mp.primitive = "hop" -> HopTargets(at, mp)
    [] OTHER -> {}

(* The pieces of a player that are on top somewhere, and their movement.   *)
Movable(n) == {p \in Points : top[p] # None /\ Owner(top[p]) = n}
Movement(p) == def.movement[comps[top[p]].kind]

(* legal_moves: pairs of positions to move from and to.                    *)
LegalMoves(n) ==
  UNION {UNION {{<<p, q>> : q \in Targets(n, p, mp)} : mp \in Movement(p)} : p \in Movable(n)}

(* The components of the neighbours a piece may swap with.                 *)
LegalSwaps(n) ==
  UNION {UNION {{<<p, q>> : q \in {Along(p, d, mp.distance) : d \in Directions(mp)}} :
           mp \in {mp \in Movement(p) : mp.primitive = "swap"}} : p \in Movable(n)}

-----------------------------------------------------------------------------
(* Properties *)

OnBoard(g) == {g.top[p] : p \in {q \in Points : g.top[q] # None}}
                \union UNION {ToSet(g.below[p]) : p \in Points}

(* A sparse grid with dimensions takes a component at a position off the   *)
(* board and never gives it back: a move from there leaves it where it is. *)
Tracked == def.storage = "dense" \/ ~def.bounded

(* Every variable has its type, and no storage but a sparse one holds      *)
(* anything at a position off the board.                                   *)
BoardTypeOK ==
  /\ def \in Defs /\ turn \in Players /\ result \in {Undecided, Draw} \union Players
  /\ \A c \in Components : Owner(c) \in Players /\ comps[c].kind \in Kinds
  /\ Len(comps) <= MaxComponents
  /\ \A p \in Points : /\ top[p] \in Components \union {None}
                       /\ ToSet(below[p]) \subseteq Components
                       /\ (def.storage = "dense" /\ ~CellValid(p)) => top[p] = None
                       /\ \A n \in Players : fog[n][p] \in {"unset", "fogged", "visible"}

(* A component is never in two places, on top or in a stack (the actions   *)
(* of transition.rs:230), on every grid but a sparse one with dimensions.  *)
NothingTwice ==
  Tracked =>
    /\ \A p, q \in Points : top[p] = top[q] /\ top[p] # None => p = q
    /\ \A p, q \in Points : \A i \in DOMAIN below[p] :
         /\ below[p][i] # top[q]
         /\ \A j \in DOMAIN below[q] : below[p][i] = below[q][j] => p = q /\ i = j

(* A stack never exceeds the limit of its grid (runtime.rs:706), also when *)
(* its top was removed and something was put on what lies beneath.         *)
StackWithinLimit ==
  def.limit > 0 => \A p \in Points : Depth(grid, p) <= def.limit

(* What moves.rs offers, execute_action carries out: without a limit or    *)
(* with a limit of one, every move is accepted, the piece arrives, and no  *)
(* other piece leaves the board but an enemy captured on a grid without    *)
(* stacks (moves.rs:90, transition.rs:241).                                *)
LegalMovesCarriedOut ==
  /\ (def.limit \in {0, 1} /\ Playing) =>
       \A m \in LegalMoves(turn) :
         LET o == MoveOutcome(m[1], m[2])
             victim == IF def.limit = 1 THEN {Get(grid, m[2])} \ {None} ELSE {}
         IN /\ o.ok
            /\ Get(o.grid, m[2]) = top[m[1]]
            /\ Tracked => OnBoard(o.grid) = OnBoard(grid) \ victim
            /\ \A v \in victim : Owner(v) # turn
  /\ \A m \in LegalSwaps(turn) :
       (OnGrid(m[1]) /\ OnGrid(m[2]) /\ ~IsEmpty(m[2])) =>
         LET o == SwapOutcome(m[1], m[2])
         IN o.grid.top[m[1]] = top[m[2]] /\ o.grid.top[m[2]] = top[m[1]]

(* After a player has moved or placed, he sees what is within range of his *)
(* pieces and nothing else (runtime.rs:961), however often cells came in   *)
(* and out of sight; what he has once seen is never unexplored again.      *)
FogFollowsMover ==
  [][\A n \in Players :
       /\ (/\ n = turn /\ (MovePiece \/ Place) /\ (turn' # turn \/ ~Playing')
           /\ def.vision > 0 /\ def.unseen # "visible") =>
            {p \in Points : FogState(n, p)' = "visible"} = InRange(grid, comps, n)'
       /\ \A p \in Points : fog[n][p] # "unset" => fog[n][p]' # "unset"]_vars

(* Where a refusal loses no piece (a limit of one), the game goes on       *)
(* exactly while the player who acted last has no line and a cell is free; *)
(* a line counts before a full board (end_conditions.rs:7).                *)
DecidedByMover ==
  LET mover == IF Playing THEN 1 - turn ELSE turn
      line == def.lines /\ CompleteLine(grid, comps, mover)
  IN def.limit = 1 =>
       result = IF line THEN mover ELSE IF FullBoard(grid) THEN Draw ELSE Undecided

(* What AI-PLAYER-GUIDE.md:396 says: after an action that is refused one   *)
(* can try again, from the same board.                                     *)
RefusedChangesNothing ==
  [][turn' = turn /\ Playing' => UNCHANGED <<top, below>>]_vars
=============================================================================
