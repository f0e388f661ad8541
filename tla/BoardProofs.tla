---------------------------- MODULE BoardProofs -----------------------------
(***************************************************************************)
(* Theorems about Board, for any definitions, any positions and any number *)
(* of components: types, that no component is in two places, that stacks   *)
(* keep their limit, that the moves offered are carried out, that fog      *)
(* follows the player who moved, and whom the end is attributed to.        *)
(***************************************************************************)
EXTENDS Board, FiniteSetTheorems, SequenceTheorems, TLAPS

(* Grids that hold components up to number n.                              *)
Grids(n) == [top : [Points -> 0..n], below : [Points -> Seq(1..n)]]

(* What stands on a position of the mask, and of a grid that keeps track.  *)
OnMask(g) ==
  \A p \in Points : g.top[p] # None => /\ p \in def.mask
                                       /\ Tracked => CellValid(p)

(* A component is in one place of a grid, or in none.                      *)
Once(g) ==
  /\ \A p, q \in Points : g.top[p] = g.top[q] /\ g.top[p] # None => p = q
  /\ \A p, q \in Points : \A i \in 1..Len(g.below[p]) :
       /\ g.below[p][i] # g.top[q]
       /\ \A j \in 1..Len(g.below[q]) : g.below[p][i] = g.below[q][j] => p = q /\ i = j

Absent(c, g) == \A p \in Points : /\ g.top[p] # c
                                  /\ \A i \in 1..Len(g.below[p]) : g.below[p][i] # c

(* Whatever lies in a stack leaves room for a top.                         *)
Limited(g) == def.limit > 0 => \A p \in Points : Len(g.below[p]) < def.limit

Sound(g, n) == /\ g \in Grids(n) /\ OnMask(g) /\ Limited(g)
               /\ Tracked => Once(g)

-----------------------------------------------------------------------------
(* The operations of a grid *)

(* A position of the mask that is not off a dense grid takes what it gets. *)
LEMMA Puts ==
  ASSUME NEW n \in Nat, NEW g \in Grids(n), NEW p \in Points, NEW c \in 0..n,
         p \in def.mask, def.storage = "dense" => InBounds(p)
  PROVE  /\ Set(g, p, c) \in Grids(n) /\ Set(g, p, c).below = g.below
         /\ \A q \in Points : Set(g, p, c).top[q] = IF q = p THEN c ELSE g.top[q]
<1> DEFINE h == Set(g, p, c)
<1>1. h = [g EXCEPT !.top[p] = c]
  BY DEF Set
<1> HIDE DEF h
<1>2. h = [top |-> h.top, below |-> h.below] /\ h.top = [g.top EXCEPT ![p] = c] /\ h.below = g.below
  BY <1>1 DEF Grids
<1>3. h.top \in [Points -> 0..n] /\ h.below \in [Points -> Seq(1..n)]
  BY <1>2 DEF Grids
<1>4. /\ h \in Grids(n) /\ h.below = g.below
      /\ \A q \in Points : h.top[q] = IF q = p THEN c ELSE g.top[q]
  BY <1>2, <1>3 DEF Grids
<1> QED BY <1>4 DEF h

(* A component that is nowhere may be put anywhere, and nothing always.    *)
LEMMA Sets ==
  ASSUME NEW n \in Nat, NEW g, Sound(g, n), NEW p \in Points, NEW c \in 0..n,
         def.bounded \in BOOLEAN,
         Tracked /\ c # None => Absent(c, g)
  PROVE  Sound(Set(g, p, c), n)
<1>1. CASE Set(g, p, c) = g
  BY <1>1
<1>2. CASE Set(g, p, c) # g
  <2> DEFINE h == Set(g, p, c)
  <2>1. p \in def.mask /\ (def.storage = "dense" => InBounds(p))
    BY <1>2 DEF Set
  <2>2. h \in Grids(n) /\ h.below = g.below /\ \A q \in Points : h.top[q] = IF q = p THEN c ELSE g.top[q]
    BY <2>1, Puts DEF Sound
  <2>3. Tracked => CellValid(p)
    BY <2>1 DEF Tracked, CellValid, InBounds
  <2> HIDE DEF h
  <2>4. OnMask(h)
    BY <2>1, <2>2, <2>3 DEF Sound, OnMask
  <2>5. Limited(h)
    BY <2>2 DEF Sound, Limited
  <2>6. ASSUME Tracked PROVE Once(h)
    <3>1. Once(g) /\ g \in Grids(n)
      BY <2>6 DEF Sound
    <3>2. \A q \in Points : \A i \in 1..Len(g.below[q]) : g.below[q][i] # None
      BY <3>1 DEF Grids, None
    <3> QED BY <2>2, <2>6, <3>1, <3>2 DEF Once, Absent
  <2>7. Sound(h, n)
    BY <2>2, <2>4, <2>5, <2>6 DEF Sound
  <2> QED BY <2>7 DEF h
<1> QED BY <1>1, <1>2

LEMMA LastFront ==
  ASSUME NEW S, NEW s \in Seq(S), s # <<>>
  PROVE  /\ Front(s) \in Seq(S) /\ Len(Front(s)) = Len(s) - 1 /\ Len(s) \in Nat \ {0}
         /\ \A i \in 1..(Len(s) - 1) : Front(s)[i] = s[i]
         /\ \A i \in 1..Len(Front(s)) : i \in 1..Len(s) /\ Front(s)[i] = s[i]
         /\ Last(s) = s[Len(s)] /\ Last(s) \in S
<1>1. Len(s) \in Nat \ {0} /\ Len(s) \in 1..Len(s)
  OBVIOUS
<1> DEFINE k == Len(s) - 1
<1>2. k \in Nat /\ k = Len(s) - 1
  BY <1>1
<1> HIDE DEF k
<1>3. \A i \in 1..k : i \in 1..Len(s)
  BY <1>1, <1>2
<1>4. \A i \in 1..k : s[i] \in S
  BY <1>3
<1>5. /\ SubSeq(s, 1, k) \in Seq(S)
      /\ Len(SubSeq(s, 1, k)) = IF 1 <= k THEN k - 1 + 1 ELSE 0
      /\ \A i \in 1..(k - 1 + 1) : SubSeq(s, 1, k)[i] = s[1 + i - 1]
  BY <1>2, <1>4, SubSeqProperties
<1>6. /\ Len(SubSeq(s, 1, k)) = k
      /\ \A i \in 1..k : i \in 1..(k - 1 + 1) /\ 1 + i - 1 = i
  BY <1>2, <1>5
<1>7. \A i \in 1..k : SubSeq(s, 1, k)[i] = s[i]
  BY <1>5, <1>6
<1>8. Front(s) = SubSeq(s, 1, k) /\ Last(s) = s[Len(s)]
  BY <1>2 DEF Front, Last
<1> QED BY <1>1, <1>2, <1>5, <1>6, <1>7, <1>3, <1>8

LEMMA Pops ==
  ASSUME NEW n \in Nat, NEW g, Sound(g, n), NEW p \in Points, def.limit \in Nat
  PROVE  /\ Sound(Pop(g, p), n)
         /\ Tracked /\ g.top[p] # None => Absent(g.top[p], Pop(g, p))
<1>1. CASE ~CellValid(p) \/ g.top[p] = None
  BY <1>1 DEF Pop, Sound, OnMask
<1>2. CASE CellValid(p) /\ g.top[p] # None /\ g.below[p] = <<>>
  <2> DEFINE h == [g EXCEPT !.top[p] = None]
  <2>1. Pop(g, p) = h
    BY <1>2 DEF Pop
  <2>2. h \in Grids(n) /\ h.below = g.below /\ \A q \in Points : h.top[q] = IF q = p THEN None ELSE g.top[q]
    <3>1. None \in 0..n
      BY DEF None
    <3>2. g \in Grids(n) /\ h = [g EXCEPT !.top[p] = None]
      BY DEF Sound
    <3> HIDE DEF h
    <3>3. h = [top |-> h.top, below |-> h.below] /\ h.top = [g.top EXCEPT ![p] = None] /\ h.below = g.below
      BY <3>2 DEF Grids
    <3>4. h.top \in [Points -> 0..n] /\ h.below \in [Points -> Seq(1..n)]
      BY <3>1, <3>2, <3>3 DEF Grids
    <3> QED BY <3>2, <3>3, <3>4 DEF Grids
  <2> HIDE DEF h
  <2>3. OnMask(h) /\ Limited(h)
    BY <2>2 DEF Sound, OnMask, Limited
  <2>4. ASSUME Tracked PROVE Once(h) /\ Absent(g.top[p], h)
    <3>1. Once(g) /\ g \in Grids(n)
      BY <2>4 DEF Sound
    <3>2. \A q \in Points : \A i \in 1..Len(g.below[q]) : g.below[q][i] # None
      BY <3>1 DEF Grids, None
    <3> QED BY <1>2, <2>2, <3>1, <3>2 DEF Once, Absent
  <2> QED BY <2>1, <2>2, <2>3, <2>4 DEF Sound
<1>3. CASE CellValid(p) /\ g.top[p] # None /\ g.below[p] # <<>>
  <2> DEFINE s == g.below[p]
             h == [g EXCEPT !.top[p] = Last(s), !.below[p] = Front(@)]
  <2>1. Pop(g, p) = h
    BY <1>3 DEF Pop
  <2>2. s \in Seq(1..n) /\ Len(s) \in Nat \ {0}
    BY <1>3 DEF Sound, Grids
  <2>3. /\ Front(s) \in Seq(1..n) /\ Len(Front(s)) = Len(s) - 1
        /\ \A i \in 1..(Len(s) - 1) : Front(s)[i] = s[i]
        /\ Last(s) = s[Len(s)] /\ Last(s) \in 1..n
    <3>1. s # <<>>
      BY <1>3
    <3> HIDE DEF s
    <3> QED BY <2>2, <3>1, LastFront
  <2>4. /\ h \in Grids(n)
        /\ \A q \in Points : h.top[q] = IF q = p THEN s[Len(s)] ELSE g.top[q]
        /\ \A q \in Points : h.below[q] = IF q = p THEN Front(s) ELSE g.below[q]
    <3>1. g \in Grids(n) /\ Last(s) \in 0..n
      BY <2>3 DEF Sound
    <3>2. h = [g EXCEPT !.top[p] = Last(s), !.below[p] = Front(@)]
      OBVIOUS
    <3> HIDE DEF h
    <3>3. /\ h = [top |-> h.top, below |-> h.below]
          /\ h.top = [g.top EXCEPT ![p] = Last(s)] /\ h.below = [g.below EXCEPT ![p] = Front(s)]
      BY <3>1, <3>2 DEF Grids
    <3>4. h.top \in [Points -> 0..n] /\ h.below \in [Points -> Seq(1..n)]
      BY <2>3, <3>1, <3>3 DEF Grids
    <3> QED BY <2>3, <3>1, <3>3, <3>4 DEF Grids
  <2> HIDE DEF h
  <2>5. OnMask(h)
    BY <1>3, <2>4 DEF Sound, OnMask, CellValid
  <2>6. Limited(h)
    <3>1. \A q \in Points : /\ Len(h.below[q]) <= Len(g.below[q])
                            /\ Len(g.below[q]) \in Nat /\ Len(h.below[q]) \in Nat
      <4>1. TAKE q \in Points
      <4>2. Len(g.below[q]) \in Nat
        BY DEF Sound, Grids
      <4>3. CASE q # p
        BY <2>4, <4>2, <4>3
      <4>4. CASE q = p
        <5>1. h.below[q] = Front(s) /\ g.below[q] = s
          BY <2>4, <4>4
        <5> HIDE DEF s
        <5> QED BY <2>2, <2>3, <5>1
      <4> QED BY <4>3, <4>4
    <3> HIDE DEF s
    <3> QED BY <3>1 DEF Sound, Limited
  <2>7. ASSUME Tracked PROVE Once(h) /\ Absent(g.top[p], h)
    <3>1. Once(g) /\ g \in Grids(n)
      BY <2>7 DEF Sound
    <3>2. \A q \in Points : \A i \in 1..Len(h.below[q]) : i \in 1..Len(g.below[q]) /\ h.below[q][i] = g.below[q][i]
      <4>1. TAKE q \in Points
      <4>2. CASE q # p
        BY <2>4, <4>2
      <4>3. CASE q = p
        <5>1. h.below[q] = Front(s) /\ g.below[q] = s
          BY <2>4, <4>3
        <5>2. \A i \in 1..Len(Front(s)) : i \in 1..Len(s) /\ Front(s)[i] = s[i]
          <6> HIDE DEF s
          <6> QED BY <2>2, <2>3
        <5> HIDE DEF s, h
        <5> QED BY <5>1, <5>2
      <4> QED BY <4>2, <4>3
    <3>3. \A i \in 1..Len(h.below[p]) : i # Len(s)
      BY <2>2, <2>3, <2>4
    <3>4. Len(s) \in 1..Len(g.below[p])
      BY <2>2
    <3>5. \A q \in Points : \A i \in 1..Len(g.below[q]) : g.below[q][i] # None
      BY <3>1 DEF Grids, None
    <3>6. \A q \in Points : h.top[q] = IF q = p THEN g.below[p][Len(s)] ELSE g.top[q]
      BY <2>4
    <3> HIDE DEF s
    <3>7. Absent(g.top[p], h)
      <4>1. \A q \in Points : h.top[q] # g.top[p]
        BY <1>3, <3>1, <3>4, <3>6 DEF Once
      <4>2. \A q \in Points : \A i \in 1..Len(h.below[q]) : h.below[q][i] # g.top[p]
        BY <3>1, <3>2 DEF Once
      <4> QED BY <4>1, <4>2 DEF Absent
    <3>8. \A q, r \in Points : h.top[q] = h.top[r] /\ h.top[q] # None => q = r
      BY <3>1, <3>4, <3>6 DEF Once
    <3>9. \A q, r \in Points : \A i \in 1..Len(h.below[q]) : h.below[q][i] # h.top[r]
      BY <3>1, <3>2, <3>3, <3>4, <3>6 DEF Once
    <3>10. \A q, r \in Points : \A i \in 1..Len(h.below[q]), j \in 1..Len(h.below[r]) :
             h.below[q][i] = h.below[r][j] => q = r /\ i = j
      BY <3>1, <3>2 DEF Once
    <3> QED BY <3>7, <3>8, <3>9, <3>10 DEF Once
  <2> QED BY <2>1, <2>4, <2>5, <2>6, <2>7 DEF Sound
<1> QED BY <1>1, <1>2, <1>3

LEMMA Pushes ==
  ASSUME NEW n \in Nat, NEW g, Sound(g, n), NEW p \in Points, NEW c \in 1..n,
         def.limit \in Nat, CanPush(g, p), Tracked => Absent(c, g)
  PROVE  Sound(Push(g, p, c), n)
<1>1. CASE g.top[p] = None
  <2> DEFINE h == [g EXCEPT !.top[p] = c]
  <2>1. Push(g, p, c) = h
    BY <1>1 DEF Push
  <2>2. h \in Grids(n) /\ h.below = g.below /\ \A q \in Points : h.top[q] = IF q = p THEN c ELSE g.top[q]
    <3>1. g \in Grids(n) /\ c \in 0..n /\ h = [g EXCEPT !.top[p] = c]
      BY DEF Sound
    <3> HIDE DEF h
    <3>2. h = [top |-> h.top, below |-> h.below] /\ h.top = [g.top EXCEPT ![p] = c] /\ h.below = g.below
      BY <3>1 DEF Grids
    <3>3. h.top \in [Points -> 0..n] /\ h.below \in [Points -> Seq(1..n)]
      BY <3>1, <3>2 DEF Grids
    <3> QED BY <3>1, <3>2, <3>3 DEF Grids
  <2> HIDE DEF h
  <2>3. OnMask(h) /\ Limited(h)
    BY <2>2 DEF Sound, OnMask, Limited, CanPush, CellValid
  <2>4. ASSUME Tracked PROVE Once(h)
    BY <2>2, <2>4 DEF Sound, Once, Absent
  <2> QED BY <2>1, <2>2, <2>3, <2>4 DEF Sound
<1>2. CASE g.top[p] # None
  <2> DEFINE s == g.below[p]
             a == g.top[p]
             h == [g EXCEPT !.below[p] = Append(@, g.top[p]), !.top[p] = c]
  <2>1. Push(g, p, c) = h
    BY <1>2 DEF Push
  <2>2. s \in Seq(1..n) /\ a \in 1..n
    BY <1>2 DEF Sound, Grids, None
  <2>3. /\ Append(s, a) \in Seq(1..n) /\ Len(Append(s, a)) = Len(s) + 1 /\ Len(s) \in Nat
        /\ \A i \in 1..Len(s) : Append(s, a)[i] = s[i]
        /\ Append(s, a)[Len(s) + 1] = a
    <3> HIDE DEF s, a
    <3> QED BY <2>2
  <2>4. /\ h \in Grids(n)
        /\ \A q \in Points : h.top[q] = IF q = p THEN c ELSE g.top[q]
        /\ \A q \in Points : h.below[q] = IF q = p THEN Append(s, a) ELSE g.below[q]
    <3>1. g \in Grids(n) /\ c \in 0..n
      BY DEF Sound
    <3>2. h = [g EXCEPT !.below[p] = Append(@, g.top[p]), !.top[p] = c]
      OBVIOUS
    <3> HIDE DEF h
    <3>3. /\ h = [top |-> h.top, below |-> h.below]
          /\ h.top = [g.top EXCEPT ![p] = c] /\ h.below = [g.below EXCEPT ![p] = Append(s, a)]
      BY <3>1, <3>2 DEF Grids
    <3>4. h.top \in [Points -> 0..n] /\ h.below \in [Points -> Seq(1..n)]
      BY <2>3, <3>1, <3>3 DEF Grids
    <3> QED BY <2>3, <3>1, <3>3, <3>4 DEF Grids
  <2> HIDE DEF h
  <2>5. OnMask(h)
    BY <2>4 DEF Sound, OnMask, CanPush, CellValid
  <2>6. Limited(h)
    <3>1. def.limit > 0 => Len(s) + 1 < def.limit
      BY <1>2, <2>3 DEF CanPush, Depth
    <3> QED BY <2>3, <2>4, <3>1 DEF Sound, Limited
  <2>7. ASSUME Tracked PROVE Once(h)
    <3>1. Once(g) /\ g \in Grids(n) /\ Absent(c, g)
      BY <2>7 DEF Sound
    <3>2. \A q \in Points : \A i \in 1..Len(h.below[q]) :
            \/ i \in 1..Len(g.below[q]) /\ h.below[q][i] = g.below[q][i]
            \/ q = p /\ i = Len(s) + 1 /\ h.below[q][i] = g.top[p]
      <4>1. TAKE q \in Points
      <4>2. CASE q # p
        BY <2>4, <4>2
      <4>3. CASE q = p
        <5>1. h.below[q] = Append(s, a) /\ g.below[q] = s /\ g.top[p] = a
          BY <2>4, <4>3
        <5> HIDE DEF s, a
        <5>2. \A i \in 1..(Len(s) + 1) : i \in 1..Len(s) \/ i = Len(s) + 1
          BY <2>3
        <5> QED BY <2>3, <4>3, <5>1, <5>2
      <4> QED BY <4>2, <4>3
    <3> HIDE DEF s, a
    <3>3. \A q, r \in Points : h.top[q] = h.top[r] /\ h.top[q] # None => q = r
      BY <2>4, <3>1 DEF Once, Absent
    <3>4. \A q, r \in Points : \A i \in 1..Len(h.below[q]) : h.below[q][i] # h.top[r]
      BY <1>2, <2>4, <3>1, <3>2 DEF Once, Absent
    <3>5. \A q, r \in Points : \A i \in 1..Len(h.below[q]), j \in 1..Len(h.below[r]) :
             h.below[q][i] = h.below[r][j] => q = r /\ i = j
      BY <1>2, <3>1, <3>2 DEF Once
    <3> QED BY <3>3, <3>4, <3>5 DEF Once
  <2> QED BY <2>1, <2>4, <2>5, <2>6, <2>7 DEF Sound
<1> QED BY <1>1, <1>2

LEMMA MoreComponents ==
  ASSUME NEW n \in Nat, NEW g, Sound(g, n)
  PROVE  Sound(g, n + 1) /\ Absent(n + 1, g)
<1>1. 0..n \subseteq 0..(n + 1) /\ 1..n \subseteq 1..(n + 1)
  OBVIOUS
<1>2. g \in Grids(n + 1)
  <2>1. g.top \in [Points -> 0..(n + 1)] /\ g.below \in [Points -> Seq(1..(n + 1))]
    BY <1>1 DEF Sound, Grids
  <2> QED BY <2>1 DEF Sound, Grids
<1>3. Absent(n + 1, g)
  BY DEF Sound, Grids, Absent
<1> QED BY <1>2, <1>3 DEF Sound

-----------------------------------------------------------------------------
(* The actions *)

Entries == [owner : Players, kind : Kinds]

BoardInv ==
  /\ def \in Defs /\ turn \in Players /\ result \in {Undecided, Draw} \union Players
  /\ comps \in Seq(Entries) /\ Len(comps) <= MaxComponents
  /\ fog \in [Players -> [Points -> {"unset", "fogged", "visible"}]]
  /\ Sound(grid, Len(comps))

(* What an action may leave behind.  A refusal on a grid with a limit of   *)
(* one leaves everything but an entry at the end of the table.             *)
Lawful(o) ==
  /\ o.comps \in Seq(Entries) /\ Len(o.comps) <= MaxComponents
  /\ Sound(o.grid, Len(o.comps))
  /\ ~o.ok /\ def.limit = 1 =>
       /\ o.grid = grid
       /\ \A k \in 1..Len(comps) : k \in 1..Len(o.comps) /\ o.comps[k] = comps[k]

LEMMA Given ==
  ASSUME BoardInv
  PROVE  /\ def.limit \in Nat /\ def.bounded \in BOOLEAN /\ MaxComponents \in Nat
         /\ Len(comps) \in Nat /\ grid.top = top /\ grid.below = below
         /\ top \in [Points -> 0..Len(comps)] /\ below \in [Points -> Seq(1..Len(comps))]
BY BoardAssumption DEF BoardInv, grid, Sound, Grids

LEMMA Same == BoardInv => Lawful(Accept(grid)) /\ Lawful(Refuse(grid))
BY DEF BoardInv, Lawful, Accept, Refuse, Outcome

LEMMA MoveLawful ==
  ASSUME BoardInv, NEW from \in Points, NEW to \in Points
  PROVE  Lawful(MoveOutcome(from, to))
<1> DEFINE n == Len(comps)
           c == Get(grid, from)
           g == Pop(grid, from)
<1>1. n \in Nat /\ def.limit \in Nat /\ def.bounded \in BOOLEAN /\ Sound(grid, n)
  BY Given DEF BoardInv
<1>2. CASE c = None
  BY <1>2, Same DEF MoveOutcome
<1>3. CASE c # None
  <2>1. c = top[from] /\ c \in 1..n
    BY <1>3, Given DEF Get, None
  <2>2. Sound(g, n) /\ (Tracked => Absent(c, g))
    BY <1>1, <1>3, <2>1, Given, Pops
  <2> HIDE DEF c, g, n
  <2>3. CASE Get(grid, to) # None /\ def.limit # 1
    <3>1. CASE CanPush(g, to)
      <4>1. Sound(Push(g, to, c), n)
        BY <1>1, <2>1, <2>2, <3>1, Pushes
      <4>2. MoveOutcome(from, to) = Accept(Push(g, to, c))
        BY <1>3, <2>3, <3>1 DEF MoveOutcome, c, g
      <4> QED BY <4>1, <4>2 DEF Lawful, Accept, Outcome, BoardInv, n
    <3>2. CASE ~CanPush(g, to)
      <4>1. MoveOutcome(from, to) = Refuse(g)
        BY <1>3, <2>3, <3>2 DEF MoveOutcome, c, g
      <4> QED BY <2>2, <2>3, <4>1 DEF Lawful, Refuse, Outcome, BoardInv, n
    <3> QED BY <3>1, <3>2
  <2>4. CASE ~(Get(grid, to) # None /\ def.limit # 1)
    <3>1. Sound(Set(g, to, c), n)
      <4>1. c \in 0..n
        BY <1>1, <2>1
      <4> QED BY <1>1, <2>2, <4>1, Sets
    <3>2. MoveOutcome(from, to) = Accept(Set(g, to, c))
      BY <1>3, <2>4 DEF MoveOutcome, c, g
    <3> QED BY <3>1, <3>2 DEF Lawful, Accept, Outcome, BoardInv, n
  <2> QED BY <2>3, <2>4
<1> QED BY <1>2, <1>3

(* A new component is one more entry of the table, and nowhere yet.        *)
LEMMA Enters ==
  ASSUME BoardInv, NEW n \in Players, NEW kind \in Kinds, Len(comps) < MaxComponents,
         NEW t, t = Append(comps, [owner |-> n, kind |-> kind])
  PROVE  /\ t \in Seq(Entries) /\ Len(t) = Len(comps) + 1 /\ Len(t) <= MaxComponents
         /\ \A k \in 1..Len(comps) : k \in 1..Len(t) /\ t[k] = comps[k]
         /\ Len(t) \in Nat /\ Len(t) \in 1..Len(t) /\ Len(t) \in 0..Len(t)
         /\ Sound(grid, Len(t)) /\ Absent(Len(t), grid)
<1> DEFINE e == [owner |-> n, kind |-> kind]
<1>1. e \in Entries
  BY DEF Entries
<1>2. comps \in Seq(Entries) /\ Len(comps) \in Nat /\ MaxComponents \in Nat /\ Sound(grid, Len(comps))
  BY Given DEF BoardInv
<1> HIDE DEF e
<1>3. t = Append(comps, e)
  BY DEF e
<1>4. t \in Seq(Entries) /\ Len(t) = Len(comps) + 1 /\ \A k \in 1..Len(comps) : t[k] = comps[k]
  BY <1>1, <1>2, <1>3, AppendProperties
<1>5. Sound(grid, Len(comps) + 1) /\ Absent(Len(comps) + 1, grid)
  BY <1>2, MoreComponents
<1> QED BY <1>2, <1>4, <1>5

LEMMA PlaceLawful ==
  ASSUME BoardInv, NEW n \in Players, NEW kind \in Kinds, NEW to \in Points
  PROVE  Lawful(PlaceOutcome(n, kind, to))
<1>1. Len(comps) \in Nat /\ MaxComponents \in Nat /\ def.limit \in Nat /\ def.bounded \in BOOLEAN
  BY Given
<1>2. CASE Len(comps) >= MaxComponents
  BY <1>2, Same DEF PlaceOutcome
<1>3. CASE Len(comps) < MaxComponents
  <2> DEFINE t == Append(comps, [owner |-> n, kind |-> kind])
             c == Len(comps) + 1
  <2>1. /\ t \in Seq(Entries) /\ Len(t) = c /\ c <= MaxComponents
        /\ \A k \in 1..Len(comps) : k \in 1..c /\ t[k] = comps[k]
        /\ c \in Nat /\ c \in 1..c /\ c \in 0..c /\ Sound(grid, c) /\ Absent(c, grid)
    BY <1>3, Enters
  <2>2. PlaceOutcome(n, kind, to) =
          IF Get(grid, to) = None THEN Outcome(Set(grid, to, c), t, TRUE)
          ELSE IF def.limit # 1 /\ CanPush(grid, to) THEN Outcome(Push(grid, to, c), t, TRUE)
          ELSE Outcome(grid, t, FALSE)
    <3>1. ~(Len(comps) >= MaxComponents)
      BY <1>1, <1>3
    <3> QED BY <3>1 DEF PlaceOutcome
  <2> HIDE DEF t, c
  <2>3. Sound(Set(grid, to, c), c)
    BY <1>1, <2>1, Sets
  <2>4. CanPush(grid, to) => Sound(Push(grid, to, c), c)
    BY <1>1, <2>1, Pushes
  <2>5. Lawful(Outcome(Set(grid, to, c), t, TRUE))
    BY <2>1, <2>3 DEF Lawful, Outcome
  <2>6. CanPush(grid, to) => Lawful(Outcome(Push(grid, to, c), t, TRUE))
    BY <2>1, <2>4 DEF Lawful, Outcome
  <2>7. Lawful(Outcome(grid, t, FALSE))
    BY <2>1 DEF Lawful, Outcome
  <2> QED BY <2>2, <2>5, <2>6, <2>7
<1> QED BY <1>1, <1>2, <1>3

LEMMA RevealLawful ==
  ASSUME BoardInv, NEW n \in Players, NEW kind \in Kinds, NEW to \in Points
  PROVE  Lawful(RevealOutcome(n, kind, to))
<1>1. Len(comps) \in Nat /\ MaxComponents \in Nat /\ def.bounded \in BOOLEAN
  BY Given
<1>2. CASE Len(comps) >= MaxComponents
  BY <1>2, Same DEF RevealOutcome
<1>3. CASE Len(comps) < MaxComponents
  <2> DEFINE t == Append(comps, [owner |-> n, kind |-> kind])
             c == Len(comps) + 1
  <2>1. /\ t \in Seq(Entries) /\ Len(t) = c /\ c <= MaxComponents
        /\ c \in Nat /\ c \in 0..c /\ Sound(grid, c) /\ Absent(c, grid)
    BY <1>3, Enters
  <2>2. RevealOutcome(n, kind, to) = Outcome(Set(grid, to, c), t, TRUE)
    <3>1. ~(Len(comps) >= MaxComponents)
      BY <1>1, <1>3
    <3> QED BY <3>1 DEF RevealOutcome
  <2> HIDE DEF t, c
  <2>3. Sound(Set(grid, to, c), c)
    BY <1>1, <2>1, Sets
  <2> QED BY <2>1, <2>2, <2>3 DEF Lawful, Outcome
<1> QED BY <1>1, <1>2, <1>3

LEMMA RemoveLawful == ASSUME BoardInv, NEW p \in Points PROVE Lawful(RemoveOutcome(p))
<1>1. Len(comps) \in Nat /\ def.bounded \in BOOLEAN /\ None \in 0..Len(comps) /\ Sound(grid, Len(comps))
  BY Given DEF None, BoardInv
<1>2. Sound(Set(grid, p, None), Len(comps))
  BY <1>1, Sets
<1> QED BY <1>2 DEF RemoveOutcome, Accept, Outcome, Lawful, BoardInv

LEMMA SwapLawful ==
  ASSUME BoardInv, NEW c \in Components, NEW d \in Components,
         NEW p \in Places(grid, c), NEW q \in Places(grid, d)
  PROVE  Lawful(SwapOutcome(p, q))
<1> DEFINE n == Len(comps)
           g == Set(grid, p, d)
           h == Set(g, q, c)
<1>1. /\ n \in Nat /\ p \in Points /\ q \in Points /\ grid \in Grids(n) /\ OnMask(grid)
      /\ c \in 0..n /\ d \in 0..n /\ c # None /\ d # None
      /\ top[p] = c /\ top[q] = d /\ grid.top = top /\ grid.below = below /\ def.bounded \in BOOLEAN
  BY Given DEF BoardInv, Sound, Components, Places, None
<1>2. /\ p \in def.mask /\ q \in def.mask /\ (Tracked => CellValid(p) /\ CellValid(q))
      /\ def.storage = "dense" => InBounds(p) /\ InBounds(q)
  BY <1>1 DEF OnMask, CellValid, Tracked
<1>3. SwapOutcome(p, q) = Accept(h)
  BY <1>1, <1>2 DEF SwapOutcome, Get
<1> HIDE DEF n
<1>4. g \in Grids(n) /\ g.below = below /\ \A x \in Points : g.top[x] = IF x = p THEN d ELSE top[x]
  BY <1>1, <1>2, Puts
<1> HIDE DEF g
<1>5. h \in Grids(n) /\ h.below = below /\ \A x \in Points : h.top[x] = IF x = q THEN c ELSE g.top[x]
  BY <1>1, <1>2, <1>4, Puts
<1> HIDE DEF h
<1>6. OnMask(h) /\ Limited(h)
  BY <1>1, <1>2, <1>4, <1>5 DEF BoardInv, Sound, OnMask, Limited
<1>7. ASSUME Tracked PROVE Once(h)
  <2>1. Once(grid)
    BY <1>7 DEF BoardInv, Sound
  <2>2. \A x, y \in Points : h.top[x] = h.top[y] /\ h.top[x] # None => x = y
    BY <1>1, <1>4, <1>5, <2>1 DEF Once
  <2>3. \A x, y \in Points : \A i \in 1..Len(h.below[x]) : h.below[x][i] # h.top[y]
    BY <1>1, <1>4, <1>5, <2>1 DEF Once
  <2>4. \A x, y \in Points : \A i \in 1..Len(h.below[x]), j \in 1..Len(h.below[y]) :
          h.below[x][i] = h.below[y][j] => x = y /\ i = j
    BY <1>1, <1>5, <2>1 DEF Once
  <2> QED BY <2>2, <2>3, <2>4 DEF Once
<1> QED BY <1>3, <1>5, <1>6, <1>7 DEF Lawful, Accept, Outcome, BoardInv, Sound, n

LEMMA PromoteLawful ==
  ASSUME BoardInv, NEW c \in Components, NEW kind \in Kinds
  PROVE  Lawful(PromoteOutcome(c, kind))
<1> DEFINE t == [comps EXCEPT ![c].kind = kind]
<1>1. comps \in Seq(Entries) /\ c \in 1..Len(comps) /\ comps[c] \in Entries /\ Len(comps) \in Nat
  BY Given DEF BoardInv, Components
<1>2. [comps[c] EXCEPT !.kind = kind] \in Entries
  BY <1>1 DEF Entries
<1>3. t = [comps EXCEPT ![c] = [comps[c] EXCEPT !.kind = kind]]
  BY <1>1
<1>4. t \in Seq(Entries) /\ Len(t) = Len(comps)
  BY <1>1, <1>2, <1>3, ExceptSeq
<1> HIDE DEF t
<1>5. PromoteOutcome(c, kind) = Outcome(grid, t, TRUE)
  BY DEF PromoteOutcome, t
<1> QED BY <1>4, <1>5 DEF Lawful, Outcome, BoardInv

(* Every step of the game is the end of one lawful outcome.                *)
LEMMA StepIsLawful ==
  ASSUME BoardInv, BoardNext
  PROVE  Playing /\ \E o : Lawful(o) /\ Finish(o) /\ (KeepFog \/ UpdateFog(o))
<1>0. turn \in Players
  BY DEF BoardInv
<1>1. CASE MovePiece
  BY <1>1, MoveLawful DEF MovePiece
<1>2. CASE Place
  BY <1>0, <1>2, PlaceLawful DEF Place
<1>3. CASE Reveal
  BY <1>0, <1>3, RevealLawful DEF Reveal
<1>4. CASE RemovePiece
  BY <1>4, RemoveLawful DEF RemovePiece, Places
<1>5. CASE Swap
  BY <1>5, SwapLawful DEF Swap
<1>6. CASE Flip
  BY <1>6, Same DEF Flip
<1>7. CASE Promote
  BY <1>7, PromoteLawful DEF Promote
<1> QED BY <1>1, <1>2, <1>3, <1>4, <1>5, <1>6, <1>7 DEF BoardNext

-----------------------------------------------------------------------------
(* The invariant *)

LEMMA BoardStart == BoardInit => BoardInv
<1> SUFFICES ASSUME BoardInit PROVE BoardInv
  OBVIOUS
<1>1. comps \in Seq(Entries) /\ Len(comps) = 0
  BY DEF BoardInit
<1>2. def.limit \in Nat /\ 0 <= MaxComponents
  BY BoardAssumption DEF BoardInit
<1>3. /\ \A p \in Points : grid.top[p] = None /\ grid.below[p] = <<>>
      /\ grid = [top |-> top, below |-> below]
      /\ top \in [Points -> 0..0] /\ below \in [Points -> Seq(1..0)]
  BY DEF BoardInit, grid, None
<1>4. grid \in Grids(0)
  BY <1>3 DEF Grids
<1>5. OnMask(grid) /\ Once(grid)
  BY <1>3 DEF OnMask, Once
<1>6. Limited(grid)
  BY <1>2, <1>3 DEF Limited
<1> QED BY <1>1, <1>2, <1>4, <1>5, <1>6 DEF BoardInit, BoardInv, Sound, Players, Undecided

LEMMA FinishKeeps ==
  ASSUME BoardInv, NEW o, Lawful(o), Finish(o), KeepFog \/ UpdateFog(o)
  PROVE  BoardInv'
<1>1. /\ top' = o.grid.top /\ below' = o.grid.below /\ comps' = o.comps /\ def' = def
      /\ def \in Defs /\ turn \in Players /\ o.grid \in Grids(Len(o.comps))
  BY DEF Finish, BoardInv, Lawful, Sound
<1>2. grid' = o.grid
  BY <1>1 DEF grid, Grids
<1>3. comps' \in Seq(Entries') /\ Len(comps') <= MaxComponents
  BY <1>1 DEF Lawful, Entries, Kinds
<1>4. result' \in {Undecided, Draw} \union Players
  BY DEF Finish, Decision, Current, BoardInv
<1>5. turn' \in Players
  BY DEF Finish, Players, BoardInv
<1>6. fog' \in [Players -> [Points -> {"unset", "fogged", "visible"}]]
  <2>1. RecomputeFog(o.grid, o.comps, turn) \in [Points -> {"unset", "fogged", "visible"}]
    BY <1>1 DEF RecomputeFog, BoardInv
  <2> QED BY <1>1, <2>1 DEF KeepFog, UpdateFog, BoardInv
<1>7. Sound(grid, Len(comps))'
  <2>1. Sound(o.grid, Len(comps'))
    BY <1>1 DEF Lawful
  <2> QED BY <1>1, <1>2, <2>1 DEF Sound, Grids, OnMask, Limited, Once, Tracked, CellValid, InBounds
<1> QED BY <1>1, <1>3, <1>4, <1>5, <1>6, <1>7 DEF BoardInv

LEMMA BoardStep == BoardInv /\ [BoardNext]_vars => BoardInv'
<1> SUFFICES ASSUME BoardInv, [BoardNext]_vars PROVE BoardInv'
  OBVIOUS
<1>1. CASE BoardNext
  <2>1. PICK o : Lawful(o) /\ Finish(o) /\ (KeepFog \/ UpdateFog(o))
    BY <1>1, StepIsLawful
  <2> QED BY <2>1, FinishKeeps
<1>2. CASE UNCHANGED vars
  BY <1>2 DEF vars, BoardInv, Entries, Kinds, grid, Sound, Grids, OnMask, Limited, Once, Tracked,
              CellValid, InBounds
<1> QED BY <1>1, <1>2

LEMMA BoardInvariant == BoardSpec => []BoardInv
BY BoardStart, BoardStep, PTL DEF BoardSpec

-----------------------------------------------------------------------------
(* Types, places and limits *)

(* Types: what stands on the board or lies in a stack is in the table, and *)
(* nothing stands off a dense board.                                       *)
THEOREM BoardTypeCorrect == BoardSpec => []BoardTypeOK
<1>1. BoardInv => BoardTypeOK
  <2> SUFFICES ASSUME BoardInv PROVE BoardTypeOK
    OBVIOUS
  <2>1. \A c \in Components : Owner(c) \in Players /\ comps[c].kind \in Kinds
    <3>1. \A c \in 1..Len(comps) : comps[c] \in Entries
      BY DEF BoardInv
    <3> QED BY <3>1 DEF Components, Owner, Entries
  <2>2. \A p \in Points : /\ top[p] \in Components \union {None}
                          /\ ToSet(below[p]) \subseteq Components
    <3>1. TAKE p \in Points
    <3>2. top[p] \in 0..Len(comps) /\ below[p] \in Seq(1..Len(comps)) /\ Len(comps) \in Nat
      BY Given
    <3>3. \A i \in DOMAIN below[p] : below[p][i] \in 1..Len(comps)
      BY <3>2
    <3> QED BY <3>2, <3>3 DEF Components, None, ToSet
  <2>3. \A p \in Points : def.storage = "dense" /\ ~CellValid(p) => top[p] = None
    BY Given DEF BoardInv, Sound, OnMask, Tracked
  <2> QED BY <2>1, <2>2, <2>3 DEF BoardInv, BoardTypeOK
<1> QED BY <1>1, BoardInvariant, PTL

(* Components are conserved: no sequence of moves, captures, pushes,       *)
(* removals and swaps puts one in two places (transition.rs:230).          *)
THEOREM ComponentsAreUnique == BoardSpec => []NothingTwice
<1>1. BoardInv => NothingTwice
  <2> SUFFICES ASSUME BoardInv, Tracked PROVE NothingTwice
    BY DEF NothingTwice
  <2>1. Once(grid) /\ grid.top = top /\ grid.below = below /\ below \in [Points -> Seq(1..Len(comps))]
    BY Given DEF BoardInv, Sound
  <2>2. \A p \in Points : DOMAIN below[p] = 1..Len(below[p])
    BY <2>1
  <2>3. \A p, q \in Points : top[p] = top[q] /\ top[p] # None => p = q
    BY <2>1 DEF Once
  <2>4. \A p, q \in Points : \A i \in DOMAIN below[p] :
          /\ below[p][i] # top[q]
          /\ \A j \in DOMAIN below[q] : below[p][i] = below[q][j] => p = q /\ i = j
    <3>1. TAKE p, q \in Points
    <3>2. DOMAIN below[p] = 1..Len(grid.below[p]) /\ DOMAIN below[q] = 1..Len(grid.below[q])
      BY <2>1, <2>2
    <3>3. \A i \in 1..Len(grid.below[p]) :
            /\ grid.below[p][i] # grid.top[q]
            /\ \A j \in 1..Len(grid.below[q]) : grid.below[p][i] = grid.below[q][j] => p = q /\ i = j
      BY <2>1 DEF Once
    <3> QED BY <2>1, <3>2, <3>3
  <2> QED BY <2>3, <2>4 DEF NothingTwice
<1> QED BY <1>1, BoardInvariant, PTL

(* A stack keeps its limit although its top and what lies beneath are      *)
(* changed separately (runtime.rs:706).                                    *)
THEOREM StacksKeepTheirLimit == BoardSpec => []StackWithinLimit
<1>1. BoardInv => StackWithinLimit
  <2> SUFFICES ASSUME BoardInv, def.limit > 0, NEW p \in Points PROVE Depth(grid, p) <= def.limit
    BY DEF StackWithinLimit
  <2>1. Len(grid.below[p]) < def.limit /\ def.limit \in Nat /\ Len(grid.below[p]) \in Nat
    BY Given DEF BoardInv, Sound, Limited
  <2>2. Depth(grid, p) = Len(grid.below[p]) \/ Depth(grid, p) = Len(grid.below[p]) + 1
    <3>1. CASE grid.top[p] = None
      <4>1. Depth(grid, p) = Len(grid.below[p]) + 0
        BY <3>1 DEF Depth
      <4> QED BY <2>1, <4>1
    <3>2. CASE grid.top[p] # None
      BY <3>2 DEF Depth
    <3> QED BY <3>1, <3>2
  <2> QED BY <2>1, <2>2
<1> QED BY <1>1, BoardInvariant, PTL

-----------------------------------------------------------------------------
(* Fog of war *)

(* After a move or a placement the player sees what is in range of his     *)
(* pieces and nothing else, and nothing seen is forgotten (runtime.rs:961).*)
THEOREM FogIsCurrent == BoardSpec => FogFollowsMover
<1> DEFINE Follows ==
      \A n \in Players :
        /\ (/\ n = turn /\ (MovePiece \/ Place) /\ (turn' # turn \/ ~Playing')
            /\ def.vision > 0 /\ def.unseen # "visible") =>
             {p \in Points : FogState(n, p)' = "visible"} = InRange(grid, comps, n)'
        /\ \A p \in Points : fog[n][p] # "unset" => fog[n][p]' # "unset"
<1>1. ASSUME BoardInv, BoardNext PROVE Follows
  <2>1. fog \in [Players -> [Points -> {"unset", "fogged", "visible"}]]
    BY <1>1 DEF BoardInv
  <2>2. ASSUME NEW n \in Players, NEW p \in Points, fog[n][p] # "unset" PROVE fog'[n][p] # "unset"
    <3>1. PICK o : KeepFog \/ UpdateFog(o)
      BY <1>1, StepIsLawful
    <3>2. CASE fog' = fog
      BY <2>2, <3>2
    <3>3. CASE fog' = [fog EXCEPT ![turn] = RecomputeFog(o.grid, o.comps, turn)]
      <4>1. CASE n = turn
        <5>1. fog'[n] = RecomputeFog(o.grid, o.comps, n)
          BY <2>1, <3>3, <4>1
        <5> QED BY <2>2, <5>1 DEF RecomputeFog
      <4>2. CASE n # turn
        BY <2>1, <2>2, <3>3, <4>2
      <4> QED BY <4>1, <4>2
    <3> QED BY <3>1, <3>2, <3>3 DEF KeepFog, UpdateFog
  <2>3. ASSUME NEW n \in Players, n = turn, MovePiece \/ Place, turn' # turn \/ ~Playing',
               def.vision > 0, def.unseen # "visible"
        PROVE  {p \in Points : FogState(n, p)' = "visible"} = InRange(grid, comps, n)'
    <3>1. PICK o : Lawful(o) /\ Finish(o) /\ UpdateFog(o)
      <4>1. CASE MovePiece
        BY <1>1, <4>1, MoveLawful DEF MovePiece
      <4>2. CASE Place
        BY <1>1, <2>3, <4>2, PlaceLawful DEF Place
      <4> QED BY <2>3, <4>1, <4>2
    <3>2. o.ok
      BY <1>1, <2>3, <3>1, StepIsLawful DEF Finish, Playing
    <3>3. fog'[n] = RecomputeFog(o.grid, o.comps, n)
      BY <2>1, <2>3, <3>1, <3>2 DEF UpdateFog
    <3>4. /\ grid' = o.grid /\ comps' = o.comps /\ def' = def
      BY <3>1 DEF Finish, grid, Lawful, Sound, Grids
    <3>5. InRange(grid, comps, n)' = InRange(o.grid, o.comps, n)
      BY <3>4 DEF InRange, InBounds, Units, Distance
    <3>6. \A p \in Points : FogState(n, p)' = "visible" <=> p \in InRange(o.grid, o.comps, n)
      BY <2>1, <2>3, <3>3, <3>4 DEF RecomputeFog, FogState
    <3>7. InRange(o.grid, o.comps, n) \subseteq Points
      BY DEF InRange
    <3> QED BY <3>5, <3>6, <3>7
  <2> QED BY <2>2, <2>3 DEF FogState
<1> QED BY <1>1, BoardInvariant, PTL DEF BoardSpec, FogFollowsMover

-----------------------------------------------------------------------------
(* The end of the game *)

LEMMA NotYetDecided == BoardInit => DecidedByMover
<1> SUFFICES ASSUME BoardInit PROVE CompleteLine(grid, comps, 1 - turn) = FALSE /\ ~FullBoard(grid)
  BY DEF BoardInit, DecidedByMover, Playing
<1>1. \A p \in Points : grid.top[p] = None
  BY DEF BoardInit, grid
<1>2. def.bounded => def.width \in Nat \ {0} /\ def.height \in Nat \ {0}
  BY BoardAssumption DEF BoardInit
<1>3. def.bounded => 0 \in Columns /\ 0 \in Rows
  BY <1>2 DEF Columns, Rows
<1>4. \A p, n : ~OwnedBy(grid, comps, p, n)
  BY <1>1 DEF OwnedBy
<1>5. ~FullBoard(grid)
  <2>1. {p \in Points : grid.top[p] # None} = {}
    BY <1>1
  <2>2. ASSUME NEW w \in Nat \ {0}, NEW h \in Nat \ {0} PROVE w * h # 0
    BY <2>2
  <2>3. Cardinality({}) = 0
    BY FS_EmptySet
  <2> QED BY <1>2, <2>1, <2>2, <2>3 DEF FullBoard
<1> QED BY <1>3, <1>4, <1>5 DEF CompleteLine

(* A line of the old board is a line of the new when nothing has moved.    *)
LEMMA SameLine ==
  ASSUME BoardInv, NEW t, \A k \in 1..Len(comps) : t[k] = comps[k], NEW n
  PROVE  CompleteLine(grid, t, n) <=> CompleteLine(grid, comps, n)
<1>1. \A p : OwnedBy(grid, t, p, n) <=> OwnedBy(grid, comps, p, n)
  BY Given DEF OwnedBy, None
<1> QED BY <1>1 DEF CompleteLine

LEMMA DecidedStep ==
  ASSUME BoardInv, DecidedByMover, [BoardNext]_vars PROVE DecidedByMover'
<1>1. CASE UNCHANGED vars
  <2>1. UNCHANGED <<def, top, below, comps, turn, result>> /\ grid' = grid
    BY <1>1 DEF vars, grid
  <2>2. ASSUME NEW n \in {0, 1} PROVE CompleteLine(grid, comps, n)' <=> CompleteLine(grid, comps, n)
    BY <2>1 DEF CompleteLine, Rows, Columns, OwnedBy
  <2>3. FullBoard(grid)' <=> FullBoard(grid)
    BY <2>1 DEF FullBoard
  <2>4. Playing' <=> Playing
    BY <2>1 DEF Playing
  <2>5. PICK m \in {0, 1} : m = IF Playing THEN 1 - turn ELSE turn
    BY DEF BoardInv, Players
  <2> QED BY <2>1, <2>2, <2>3, <2>4, <2>5 DEF DecidedByMover
<1>2. CASE BoardNext
  <2>1. PICK o : Lawful(o) /\ Finish(o)
    BY <1>2, StepIsLawful
  <2>2. Playing /\ turn \in {0, 1}
    BY <1>2, StepIsLawful DEF BoardInv, Players
  <2>3. grid' = o.grid /\ comps' = o.comps /\ def' = def
    BY <2>1 DEF Finish, grid, Lawful, Sound, Grids
  <2>4. ASSUME NEW n \in {0, 1} PROVE CompleteLine(grid, comps, n)' <=> CompleteLine(o.grid, o.comps, n)
    BY <2>3 DEF CompleteLine, Rows, Columns, OwnedBy
  <2>5. FullBoard(grid)' <=> FullBoard(o.grid)
    BY <2>3 DEF FullBoard
  <2>6. PICK m \in {0, 1} : m = IF o.ok THEN turn ELSE 1 - turn
    BY <2>2
  <2>7. (IF Playing' THEN 1 - turn' ELSE turn') = m
    BY <2>1, <2>2, <2>6 DEF Finish, Playing
  <2>8. CASE o.ok
    <3>1. result' = Decision(o.grid, o.comps) /\ m = turn
      BY <2>1, <2>6, <2>8 DEF Finish
    <3>2. result' = IF def.lines /\ CompleteLine(grid, comps, m)' THEN m
                    ELSE IF FullBoard(grid)' THEN Draw ELSE Undecided
      BY <2>4, <2>5, <3>1 DEF Decision, Current
    <3> QED BY <2>3, <2>7, <3>2 DEF DecidedByMover
  <2>9. CASE ~o.ok /\ def.limit = 1
    <3>1. result' = result /\ m = 1 - turn /\ result = Undecided
      BY <2>1, <2>2, <2>6, <2>9 DEF Finish, Playing
    <3>2. o.grid = grid /\ \A k \in 1..Len(comps) : o.comps[k] = comps[k]
      BY <2>1, <2>9 DEF Lawful
    <3>3. CompleteLine(grid, comps, m)' <=> CompleteLine(grid, comps, m)
      BY <2>4, <3>2, SameLine
    <3>4. FullBoard(grid)' <=> FullBoard(grid)
      BY <2>5, <3>2
    <3>5. result = IF def.lines /\ CompleteLine(grid, comps, m) THEN m
                   ELSE IF FullBoard(grid) THEN Draw ELSE Undecided
      BY <2>2, <2>9, <3>1 DEF DecidedByMover, Playing
    <3> QED BY <2>3, <2>7, <3>1, <3>3, <3>4, <3>5 DEF DecidedByMover
  <2>10. CASE def.limit # 1
    BY <2>3, <2>10 DEF DecidedByMover
  <2> QED BY <2>8, <2>9, <2>10
<1> QED BY <1>1, <1>2

(* Where a refusal loses nothing, the game goes on exactly while the last  *)
(* player has no line and a cell is free (end_conditions.rs:7).            *)
THEOREM EndIsTheMovers == BoardSpec => []DecidedByMover
BY NotYetDecided, DecidedStep, BoardInvariant, PTL DEF BoardSpec

-----------------------------------------------------------------------------
(* The moves that are offered *)

On(x, g) == \/ \E r \in Points : g.top[r] # None /\ x = g.top[r]
            \/ \E r \in Points : \E i \in 1..Len(g.below[r]) : x = g.below[r][i]

LEMMA OnIsOnBoard ==
  ASSUME NEW n \in Nat, NEW g \in Grids(n), NEW x PROVE x \in OnBoard(g) <=> On(x, g)
<1>1. \A r \in Points : DOMAIN g.below[r] = 1..Len(g.below[r])
  BY DEF Grids
<1>2. x \in {g.top[r] : r \in {q \in Points : g.top[q] # None}}
        <=> \E r \in Points : g.top[r] # None /\ x = g.top[r]
  OBVIOUS
<1>3. x \in UNION {ToSet(g.below[r]) : r \in Points}
        <=> \E r \in Points : \E i \in 1..Len(g.below[r]) : x = g.below[r][i]
  BY <1>1 DEF ToSet
<1> QED BY <1>2, <1>3 DEF OnBoard, On

(* What each operation does to the components on the board.                *)
LEMMA OnPop ==
  ASSUME NEW n \in Nat, NEW g, Sound(g, n), NEW p \in Points, g.top[p] # None, Tracked,
         def.limit \in Nat
  PROVE  /\ \A x : On(x, Pop(g, p)) <=> On(x, g) /\ x # g.top[p]
         /\ \A q \in Points : q # p => Pop(g, p).top[q] = g.top[q]
<1>1. CellValid(p) /\ g \in Grids(n) /\ g.top \in [Points -> 0..n] /\ g.below \in [Points -> Seq(1..n)]
  BY DEF Sound, OnMask, Grids
<1>2. \A x : On(x, Pop(g, p)) => x # g.top[p]
  BY Pops DEF Absent, On
<1>3. CASE g.below[p] = <<>>
  <2> DEFINE h == [g EXCEPT !.top[p] = None]
  <2>1. Pop(g, p) = h
    BY <1>1, <1>3 DEF Pop
  <2>2. h.below = g.below /\ h.top = [g.top EXCEPT ![p] = None]
    BY <1>1 DEF Grids
  <2> HIDE DEF h
  <2>3. \A q \in Points : h.top[q] = IF q = p THEN None ELSE g.top[q]
    BY <1>1, <2>2
  <2>4. \A x : On(x, h) => On(x, g)
    BY <2>2, <2>3 DEF On
  <2>5. \A x : On(x, g) /\ x # g.top[p] => On(x, h)
    BY <2>2, <2>3 DEF On
  <2> QED BY <1>2, <2>1, <2>3, <2>4, <2>5
<1>4. CASE g.below[p] # <<>>
  <2> DEFINE s == g.below[p]
             h == [g EXCEPT !.top[p] = Last(s), !.below[p] = Front(@)]
  <2>1. Pop(g, p) = h
    BY <1>1, <1>4 DEF Pop
  <2>2. h.below = [g.below EXCEPT ![p] = Front(s)] /\ h.top = [g.top EXCEPT ![p] = Last(s)]
    BY <1>1 DEF Grids
  <2> HIDE DEF h
  <2>3. /\ \A q \in Points : h.top[q] = IF q = p THEN Last(s) ELSE g.top[q]
        /\ \A q \in Points : h.below[q] = IF q = p THEN Front(s) ELSE g.below[q]
    BY <1>1, <2>2
  <2>4. s \in Seq(1..n) /\ s # <<>> /\ g.below[p] = s
    BY <1>1, <1>4
  <2> HIDE DEF s
  <2>5. /\ Len(Front(s)) = Len(s) - 1 /\ Len(s) \in Nat \ {0} /\ Last(s) = s[Len(s)] /\ Last(s) \in 1..n
        /\ \A i \in 1..Len(Front(s)) : i \in 1..Len(s) /\ Front(s)[i] = s[i]
    BY <2>4, LastFront
  <2>6. \A i \in 1..Len(s) : i = Len(s) \/ i \in 1..Len(Front(s))
    BY <2>5
  <2>7. \A x : On(x, h) => On(x, g)
    <3>1. Len(s) \in 1..Len(s)
      BY <2>5
    <3>2. On(Last(s), g) /\ \A r \in Points : g.top[r] = None \/ On(g.top[r], g)
      BY <2>4, <2>5, <3>1 DEF On
    <3>3. \A r \in Points : \A i \in 1..Len(h.below[r]) : On(h.below[r][i], g)
      BY <2>3, <2>4, <2>5 DEF On
    <3>4. \A r \in Points : h.top[r] = None \/ On(h.top[r], g)
      BY <2>3, <3>2
    <3>5. ASSUME NEW x, On(x, h) PROVE On(x, g)
      <4>1. CASE \E r \in Points : h.top[r] # None /\ x = h.top[r]
        BY <3>4, <4>1
      <4>2. CASE \E r \in Points : \E i \in 1..Len(h.below[r]) : x = h.below[r][i]
        BY <3>3, <4>2
      <4> QED BY <3>5, <4>1, <4>2 DEF On
    <3> QED BY <3>5
  <2>8. \A x : On(x, g) /\ x # g.top[p] => On(x, h)
    <3>1. \A r \in Points : r # p /\ g.top[r] # None => On(g.top[r], h)
      BY <2>3 DEF On
    <3>2. \A i \in 1..Len(s) : On(s[i], h)
      <4>1. On(s[Len(s)], h)
        <5>1. h.top[p] = s[Len(s)] /\ h.top[p] # None
          BY <2>3, <2>5 DEF None
        <5> QED BY <5>1 DEF On
      <4>2. \A i \in 1..Len(Front(s)) : On(s[i], h)
        BY <2>3, <2>5 DEF On
      <4> QED BY <2>6, <4>1, <4>2
    <3>3. \A r \in Points : r # p => \A i \in 1..Len(g.below[r]) : On(g.below[r][i], h)
      BY <2>3 DEF On
    <3>4. ASSUME NEW x, On(x, g), x # g.top[p] PROVE On(x, h)
      <4>1. CASE \E r \in Points : g.top[r] # None /\ x = g.top[r]
        BY <3>1, <3>4, <4>1
      <4>2. CASE \E r \in Points : \E i \in 1..Len(g.below[r]) : x = g.below[r][i]
        BY <2>4, <3>2, <3>3, <4>2
      <4> QED BY <3>4, <4>1, <4>2 DEF On
    <3> QED BY <3>4
  <2> QED BY <1>2, <2>1, <2>3, <2>7, <2>8
<1> QED BY <1>3, <1>4

LEMMA OnPush ==
  ASSUME NEW n \in Nat, NEW g \in Grids(n), NEW p \in Points, NEW c \in 1..n
  PROVE  /\ \A x : On(x, Push(g, p, c)) <=> On(x, g) \/ x = c
         /\ Push(g, p, c).top[p] = c
         /\ Push(g, p, c) \in Grids(n)
<1>0. g.top \in [Points -> 0..n] /\ g.below \in [Points -> Seq(1..n)] /\ c # None
  BY DEF Grids, None
<1>1. CASE g.top[p] = None
  <2> DEFINE h == [g EXCEPT !.top[p] = c]
  <2>1. Push(g, p, c) = h
    BY <1>1 DEF Push
  <2>2. h.below = g.below /\ h.top = [g.top EXCEPT ![p] = c]
    BY <1>0 DEF Grids
  <2>0. h = [g EXCEPT !.top[p] = c]
    OBVIOUS
  <2> HIDE DEF h
  <2>6. h = [top |-> h.top, below |-> h.below]
    BY <2>0 DEF Grids
  <2>4. h.top \in [Points -> 0..n] /\ h.below \in [Points -> Seq(1..n)]
    <3>1. c \in 0..n
      OBVIOUS
    <3> QED BY <1>0, <2>2, <3>1
  <2>5. h \in Grids(n)
    BY <2>4, <2>6 DEF Grids
  <2>3. \A q \in Points : h.top[q] = IF q = p THEN c ELSE g.top[q]
    BY <1>0, <2>2
  <2> QED BY <1>0, <1>1, <2>1, <2>2, <2>3, <2>5 DEF On
<1>2. CASE g.top[p] # None
  <2> DEFINE s == g.below[p]
             a == g.top[p]
             h == [g EXCEPT !.below[p] = Append(@, g.top[p]), !.top[p] = c]
  <2>1. Push(g, p, c) = h
    BY <1>2 DEF Push
  <2>2. h.below = [g.below EXCEPT ![p] = Append(s, a)] /\ h.top = [g.top EXCEPT ![p] = c]
    BY <1>0 DEF Grids
  <2>0. h \in Grids(n)
    <3>1. s \in Seq(1..n) /\ a \in 1..n
      BY <1>0, <1>2 DEF None
    <3>2. Append(s, a) \in Seq(1..n)
      BY <3>1
    <3>3. h.below \in [Points -> Seq(1..n)] /\ h.top \in [Points -> 0..n]
      BY <1>0, <2>2, <3>2
    <3>4. h = [g EXCEPT !.below[p] = Append(@, g.top[p]), !.top[p] = c]
      OBVIOUS
    <3> HIDE DEF h
    <3>5. h = [top |-> h.top, below |-> h.below]
      BY <3>4 DEF Grids
    <3> QED BY <3>3, <3>5 DEF Grids
  <2> HIDE DEF h
  <2>3. /\ \A q \in Points : h.top[q] = IF q = p THEN c ELSE g.top[q]
        /\ \A q \in Points : h.below[q] = IF q = p THEN Append(s, a) ELSE g.below[q]
    BY <1>0, <2>2
  <2>4. s \in Seq(1..n) /\ a \in 0..n /\ g.below[p] = s /\ g.top[p] = a /\ a # None
    BY <1>0, <1>2
  <2> HIDE DEF s, a
  <2>5. /\ Len(Append(s, a)) = Len(s) + 1 /\ Len(s) \in Nat
        /\ \A i \in 1..Len(s) : i \in 1..Len(Append(s, a)) /\ Append(s, a)[i] = s[i]
        /\ Append(s, a)[Len(s) + 1] = a /\ Len(s) + 1 \in 1..Len(Append(s, a))
        /\ \A i \in 1..Len(Append(s, a)) : i \in 1..Len(s) \/ i = Len(s) + 1
    BY <2>4
  <2>6. \A x : On(x, h) => On(x, g) \/ x = c
    <3>1. \A r \in Points : h.top[r] = c \/ h.top[r] = None \/ On(h.top[r], g)
      BY <2>3 DEF On
    <3>2. \A r \in Points : \A i \in 1..Len(h.below[r]) : On(h.below[r][i], g)
      BY <2>3, <2>4, <2>5 DEF On
    <3>3. ASSUME NEW x, On(x, h) PROVE On(x, g) \/ x = c
      <4>1. CASE \E r \in Points : h.top[r] # None /\ x = h.top[r]
        BY <3>1, <4>1
      <4>2. CASE \E r \in Points : \E i \in 1..Len(h.below[r]) : x = h.below[r][i]
        BY <3>2, <4>2
      <4> QED BY <3>3, <4>1, <4>2 DEF On
    <3> QED BY <3>3
  <2>7. \A x : On(x, g) \/ x = c => On(x, h)
    <3>1. On(c, h)
      BY <1>0, <2>3 DEF On
    <3>2. On(a, h)
      BY <2>3, <2>5 DEF On
    <3>3. \A r \in Points : r # p /\ g.top[r] # None => On(g.top[r], h)
      BY <2>3 DEF On
    <3>4. \A r \in Points : \A i \in 1..Len(g.below[r]) : On(g.below[r][i], h)
      BY <2>3, <2>4, <2>5 DEF On
    <3>5. ASSUME NEW x, On(x, g) PROVE On(x, h)
      <4>1. CASE \E r \in Points : g.top[r] # None /\ x = g.top[r]
        BY <2>4, <3>2, <3>3, <4>1
      <4>2. CASE \E r \in Points : \E i \in 1..Len(g.below[r]) : x = g.below[r][i]
        BY <3>4, <4>2
      <4> QED BY <3>5, <4>1, <4>2 DEF On
    <3> QED BY <3>1, <3>5
  <2> QED BY <2>0, <2>1, <2>3, <2>6, <2>7
<1> QED BY <1>1, <1>2

LEMMA OnSet ==
  ASSUME NEW n \in Nat, NEW g \in Grids(n), Once(g), NEW p \in Points, NEW c \in 1..n,
         p \in def.mask, def.storage = "dense" => InBounds(p)
  PROVE  \A x : On(x, Set(g, p, c)) <=> (On(x, g) /\ x # g.top[p]) \/ x = c
<1> DEFINE h == Set(g, p, c)
<1>1. /\ h.below = g.below /\ \A q \in Points : h.top[q] = IF q = p THEN c ELSE g.top[q]
      /\ c # None /\ g.below \in [Points -> Seq(1..n)]
  <2>1. c \in 0..n /\ c # None
    BY DEF None
  <2>2. g.below \in [Points -> Seq(1..n)]
    BY DEF Grids
  <2> QED BY <2>1, <2>2, Puts
<1> HIDE DEF h
<1>2. \A x : On(x, h) => (On(x, g) /\ x # g.top[p]) \/ x = c
  <2>1. \A r \in Points : h.top[r] = c \/ h.top[r] = None \/ (On(h.top[r], g) /\ h.top[r] # g.top[p])
    BY <1>1 DEF On, Once
  <2>2. \A r \in Points : \A i \in 1..Len(h.below[r]) : On(h.below[r][i], g) /\ h.below[r][i] # g.top[p]
    BY <1>1 DEF On, Once
  <2>3. ASSUME NEW x, On(x, h) PROVE (On(x, g) /\ x # g.top[p]) \/ x = c
    <3>1. CASE \E r \in Points : h.top[r] # None /\ x = h.top[r]
      BY <2>1, <3>1
    <3>2. CASE \E r \in Points : \E i \in 1..Len(h.below[r]) : x = h.below[r][i]
      BY <2>2, <3>2
    <3> QED BY <2>3, <3>1, <3>2 DEF On
  <2> QED BY <2>3
<1>3. \A x : (On(x, g) /\ x # g.top[p]) \/ x = c => On(x, h)
  <2>1. On(c, h)
    BY <1>1 DEF On
  <2>2. \A r \in Points : r # p /\ g.top[r] # None => On(g.top[r], h)
    BY <1>1 DEF On
  <2>3. \A r \in Points : \A i \in 1..Len(g.below[r]) : On(g.below[r][i], h)
    BY <1>1 DEF On
  <2>4. ASSUME NEW x, On(x, g), x # g.top[p] PROVE On(x, h)
    <3>1. CASE \E r \in Points : g.top[r] # None /\ x = g.top[r]
      BY <2>2, <2>4, <3>1
    <3>2. CASE \E r \in Points : \E i \in 1..Len(g.below[r]) : x = g.below[r][i]
      BY <2>3, <3>2
    <3> QED BY <2>4, <3>1, <3>2 DEF On
  <2> QED BY <2>1, <2>4
<1>4. \A x : On(x, h) <=> (On(x, g) /\ x # g.top[p]) \/ x = c
  BY <1>2, <1>3
<1> QED BY <1>4 DEF h

(* What is offered lies on the board and is empty or an enemy's.           *)
LEMMA TargetsAreFree ==
  ASSUME NEW n, NEW at, NEW mp, NEW q \in Targets(n, at, mp)
  PROVE  OnGrid(q) /\ (IsEmpty(q) \/ IsEnemy(q, n))
<1>1. \A p, condition : MayEnter(p, n, condition) => IsEmpty(p) \/ IsEnemy(p, n)
  BY DEF MayEnter
<1>2. CASE mp.primitive = "step"
  BY <1>1, <1>2 DEF Targets, StepTargets
<1>3. CASE mp.primitive = "slide"
  BY <1>1, <1>3 DEF Targets, SlideTargets
<1>4. CASE mp.primitive = "leap"
  BY <1>1, <1>4 DEF Targets, LeapTargets
<1>5. CASE mp.primitive = "hop"
  BY <1>5 DEF Targets, HopTargets
<1> QED BY <1>2, <1>3, <1>4, <1>5 DEF Targets

Captured(q) == IF def.limit = 1 THEN {Get(grid, q)} \ {None} ELSE {}

CarriedOut(p, q) ==
  LET o == MoveOutcome(p, q)
  IN /\ o.ok
     /\ Get(o.grid, q) = top[p]
     /\ Tracked => OnBoard(o.grid) = OnBoard(grid) \ Captured(q)
     /\ \A v \in Captured(q) : Owner(v) # turn

(* A move of a piece of the player to such a position.                     *)
LEMMA Carried ==
  ASSUME BoardInv, def.limit \in {0, 1}, NEW p \in Movable(turn), NEW q,
         OnGrid(q), IsEmpty(q) \/ IsEnemy(q, turn)
  PROVE  CarriedOut(p, q)
<1> DEFINE n == Len(comps)
           c == top[p]
           g == Pop(grid, p)
           o == MoveOutcome(p, q)
           e == top[q]
           victim == Captured(q)
<1>1. /\ n \in Nat /\ Sound(grid, n) /\ def.limit \in Nat
      /\ p \in Points /\ q \in Points /\ grid.top = top /\ c # None
      /\ p \in def.mask /\ q \in def.mask /\ CellValid(q)
      /\ Get(grid, p) = c /\ Get(grid, q) = e /\ Owner(c) = turn
  BY Given DEF BoardInv, Movable, OnGrid, CellValid, Get, Sound, OnMask, grid
<1>2. p # q
  BY <1>1 DEF IsEmpty, IsEnemy
<1>3. Sound(g, n) /\ g \in Grids(n) /\ c \in 1..n /\ e \in 0..n
  <2>1. Sound(g, n)
    BY <1>1, Pops
  <2>2. c \in 0..n /\ e \in 0..n
    BY <1>1 DEF Sound, Grids
  <2> QED BY <1>1, <2>1, <2>2 DEF Sound, None
<1>4. \A w \in victim : Owner(w) # turn
  BY <1>1 DEF IsEmpty, IsEnemy, Captured
<1>5. def.storage = "dense" => InBounds(q)
  BY <1>1 DEF CellValid
<1>6. CASE e # None /\ def.limit # 1
  <2>1. def.limit = 0 /\ CanPush(g, q)
    BY <1>1, <1>6 DEF CanPush
  <2>2. o = Accept(Push(g, q, c))
    BY <1>1, <1>6, <2>1 DEF MoveOutcome
  <2>3. o.ok /\ o.grid = Push(g, q, c)
    BY <2>2 DEF Accept, Outcome
  <2>4. o.grid.top[q] = c /\ o.grid \in Grids(n)
    BY <1>1, <1>3, <2>3, OnPush
  <2>5. ASSUME Tracked PROVE OnBoard(o.grid) = OnBoard(grid)
    <3>1. \A x : On(x, g) <=> On(x, grid) /\ x # c
      BY <1>1, <2>5, OnPop
    <3>2. \A x : On(x, o.grid) <=> On(x, g) \/ x = c
      BY <1>1, <1>3, <2>3, OnPush
    <3>3. On(c, grid)
      BY <1>1 DEF On
    <3>4. \A x : On(x, o.grid) <=> On(x, grid)
      BY <3>1, <3>2, <3>3
    <3>5. \A x : (x \in OnBoard(o.grid) <=> On(x, o.grid)) /\ (x \in OnBoard(grid) <=> On(x, grid))
      BY <1>1, <2>4, OnIsOnBoard DEF Sound
    <3> QED BY <3>4, <3>5
  <2> QED BY <1>1, <1>4, <2>1, <2>3, <2>4, <2>5 DEF Get, Captured, CarriedOut
<1>7. CASE e = None \/ def.limit = 1
  <2>1. o = Accept(Set(g, q, c))
    BY <1>1, <1>7 DEF MoveOutcome
  <2>2. o.ok /\ o.grid = Set(g, q, c)
    BY <2>1 DEF Accept, Outcome
  <2>3. o.grid.top[q] = c /\ o.grid \in Grids(n)
    <3>1. c \in 0..n
      BY <1>1, <1>3
    <3> HIDE DEF g, c, o, n
    <3>2. Set(g, q, c) \in Grids(n) /\ Set(g, q, c).top[q] = c
      BY <1>1, <1>3, <1>5, <3>1, Puts
    <3> QED BY <2>2, <3>2
  <2>4. ASSUME Tracked PROVE OnBoard(o.grid) = OnBoard(grid) \ victim
    <3>1. (\A x : On(x, g) <=> On(x, grid) /\ x # c) /\ g.top[q] = e
      BY <1>1, <1>2, <2>4, OnPop
    <3>2. \A x : On(x, o.grid) <=> (On(x, g) /\ x # e) \/ x = c
      <4>1. Once(g)
        BY <1>3, <2>4 DEF Sound
      <4> QED BY <1>1, <1>3, <1>5, <2>2, <3>1, <4>1, OnSet
    <3>3. On(c, grid) /\ ~On(None, grid)
      <4>1. \A r \in Points : \A i \in 1..Len(grid.below[r]) : grid.below[r][i] # None
        BY <1>1 DEF Sound, Grids, None
      <4> QED BY <1>1, <4>1 DEF On
    <3>4. c # e
      BY <1>1, <1>2, <2>4 DEF Sound, Once
    <3>5. \A x : On(x, o.grid) <=> On(x, grid) /\ x \notin victim
      BY <1>1, <1>7, <3>1, <3>2, <3>3, <3>4 DEF Captured
    <3>6. \A x : (x \in OnBoard(o.grid) <=> On(x, o.grid)) /\ (x \in OnBoard(grid) <=> On(x, grid))
      BY <1>1, <2>3, OnIsOnBoard DEF Sound
    <3> QED BY <3>5, <3>6
  <2> QED BY <1>1, <1>4, <2>2, <2>3, <2>4 DEF Get, Captured, CarriedOut
<1> QED BY <1>6, <1>7

(* Two pieces change places.                                               *)
LEMMA Exchanged ==
  ASSUME BoardInv, NEW p \in Movable(turn), NEW q, OnGrid(p), OnGrid(q)
  PROVE  LET o == SwapOutcome(p, q) IN o.grid.top[p] = top[q] /\ o.grid.top[q] = top[p]
<1> DEFINE n == Len(comps)
           a == top[p]
           b == top[q]
           g == Set(grid, p, b)
           o == SwapOutcome(p, q)
<1>1. /\ n \in Nat /\ grid \in Grids(n) /\ grid.top = top
      /\ p \in Points /\ q \in Points /\ p \in def.mask /\ q \in def.mask
      /\ def.storage = "dense" => InBounds(p) /\ InBounds(q)
      /\ Get(grid, p) = a /\ Get(grid, q) = b
  BY Given DEF BoardInv, OnGrid, CellValid, Get, Sound, grid
<1>2. a \in 0..n /\ b \in 0..n
  BY <1>1 DEF Grids
<1>3. o.grid = Set(g, q, a)
  BY <1>1 DEF SwapOutcome, Accept, Outcome
<1>4. g \in Grids(n) /\ g.top[p] = b
  BY <1>1, <1>2, Puts
<1> HIDE DEF g
<1> HIDE DEF a, b, o, n
<1>5. \A r \in Points : o.grid.top[r] = IF r = q THEN a ELSE g.top[r]
  BY <1>1, <1>2, <1>3, <1>4, Puts
<1> QED BY <1>1, <1>4, <1>5 DEF a, b, o

(* What moves.rs offers, execute_action carries out (moves.rs:90,          *)
(* transition.rs:241): the move is accepted, the piece arrives and nothing *)
(* is lost but an enemy that is captured.                                  *)
THEOREM OfferedMovesAreCarriedOut == BoardSpec => []LegalMovesCarriedOut
<1>1. BoardInv => LegalMovesCarriedOut
  <2> SUFFICES ASSUME BoardInv PROVE LegalMovesCarriedOut
    OBVIOUS
  <2>1. ASSUME def.limit \in {0, 1}, NEW m \in LegalMoves(turn)
        PROVE  LET o == MoveOutcome(m[1], m[2])
                   victim == IF def.limit = 1 THEN {Get(grid, m[2])} \ {None} ELSE {}
               IN /\ o.ok
                  /\ Get(o.grid, m[2]) = top[m[1]]
                  /\ Tracked => OnBoard(o.grid) = OnBoard(grid) \ victim
                  /\ \A v \in victim : Owner(v) # turn
    <3>1. PICK p \in Movable(turn) : \E mp \in Movement(p) : \E q \in Targets(turn, p, mp) : m = <<p, q>>
      BY <2>1 DEF LegalMoves
    <3>2. PICK mp \in Movement(p) : \E q \in Targets(turn, p, mp) : m = <<p, q>>
      BY <3>1
    <3>0. PICK q \in Targets(turn, p, mp) : m = <<p, q>>
      BY <3>2
    <3>3. OnGrid(q) /\ (IsEmpty(q) \/ IsEnemy(q, turn))
      BY TargetsAreFree
    <3>4. m[1] = p /\ m[2] = q
      BY <3>0
    <3>5. CarriedOut(p, q)
      BY <2>1, <3>3, Carried
    <3> QED BY <3>4, <3>5 DEF CarriedOut, Captured
  <2>2. ASSUME NEW m \in LegalSwaps(turn), OnGrid(m[1]), OnGrid(m[2])
        PROVE  LET o == SwapOutcome(m[1], m[2])
               IN o.grid.top[m[1]] = top[m[2]] /\ o.grid.top[m[2]] = top[m[1]]
    <3>1. m[1] \in Movable(turn)
      BY <2>2 DEF LegalSwaps
    <3> QED BY <2>2, <3>1, Exchanged
  <2> QED BY <2>1, <2>2 DEF LegalMovesCarriedOut
<1> QED BY <1>1, BoardInvariant, PTL DEF BoardSpec
=============================================================================
