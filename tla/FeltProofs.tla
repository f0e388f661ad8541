----------------------------- MODULE FeltProofs -----------------------------
(***************************************************************************)
(* Proofs about FeltPipeline, for every vocabulary, program and parser     *)
(* that is what its rules say of it: a program is read as it was written,  *)
(* and it is refused exactly if it is recursive.                           *)
(*                                                                         *)
(* First the search for recursion (CallGraph), for every call graph.  Then *)
(* the parser: where the text of an expression stands in a source, which   *)
(* tokens may follow it, and how each kind of expression is read, one      *)
(* after the other.  A program is written from the leaves up, so what      *)
(* holds of the parts of a node holds of the node, and the invariant of    *)
(* the writing needs no induction over trees.                              *)
(***************************************************************************)
EXTENDS FeltPipeline, FiniteSetTheorems, SequenceTheorems, WellFoundedInduction, TLAPS

-----------------------------------------------------------------------------
(* Numbers *)

(* A non-empty set of numbers has a least element.                         *)
LEMMA Least ==
  ASSUME NEW S \in SUBSET Nat, S # {}
  PROVE  \E x \in S : \A y \in S : x <= y
<1>1. \E x \in S : \A y \in S : ~ (<<y, x>> \in OpToRel(<, Nat))
  BY NatLessThanWellFounded, WFMin
<1>2. PICK x \in S : \A y \in S : ~ (<<y, x>> \in OpToRel(<, Nat))
  BY <1>1
<1>3. \A y \in S : ~ (y < x)
  BY <1>2 DEF OpToRel
<1> QED BY <1>3

(* What holds of zero, and of the next when it holds of one, holds of all. *)
LEMMA Induction ==
  ASSUME NEW S, 0 \in S, \A n \in Nat : n \in S => n + 1 \in S
  PROVE  \A n \in Nat : n \in S
<1> SUFFICES ASSUME Nat \ S # {} PROVE FALSE OBVIOUS
<1>1. PICK x \in Nat \ S : \A y \in Nat \ S : x <= y BY Least
<1>2. x - 1 \in Nat /\ ~(x <= x - 1) /\ x = (x - 1) + 1 BY <1>1
<1> QED BY <1>1, <1>2

-----------------------------------------------------------------------------
(* Recursion *)

(* The function that FollowAll defines by recursion exists, and goes from  *)
(* function to function.                                                   *)
LEMMA FollowAllDefined ==
  ASSUME NEW deeper, NEW s, NEW ys, Len(ys) \in Nat
  PROVE  \E f : /\ f[0] = s
                /\ \A i \in 1..Len(ys) : f[i] = Follow(deeper, f[i - 1], ys[i])
                /\ FollowAll(deeper, s, ys) = f[Len(ys)]
<1> DEFINE Q(k, u) == u = [i \in 0..k |-> IF i = 0 THEN s ELSE Follow(deeper, u[i - 1], ys[i])]
<1> DEFINE S == {k \in Nat : \E u : Q(k, u)}
<1>1. 0 \in S
  <2>1. Q(0, [i \in 0..0 |-> s]) OBVIOUS
  <2>2. QED BY <2>1
<1>2. ASSUME NEW k \in Nat, k \in S
      PROVE  k + 1 \in S
  <2>1. PICK f : Q(k, f) BY <1>2
  <2> DEFINE g == [i \in 0..(k + 1) |-> IF i = k + 1 THEN Follow(deeper, f[k], ys[k + 1]) ELSE f[i]]
  <2>2. ASSUME NEW i \in 0..(k + 1)
        PROVE  g[i] = IF i = 0 THEN s ELSE Follow(deeper, g[i - 1], ys[i])
    <3>1. CASE i = k + 1
      <4>1. i # 0 /\ i - 1 = k /\ g[i - 1] = f[k] BY <3>1
      <4>2. QED BY <3>1, <4>1
    <3>2. CASE i \in 0..k
      <4>1. f[i] = IF i = 0 THEN s ELSE Follow(deeper, f[i - 1], ys[i]) BY <2>1, <3>2
      <4>2. g[i] = f[i] /\ (i # 0 => g[i - 1] = f[i - 1]) BY <3>2
      <4>3. QED BY <4>1, <4>2
    <3>3. QED BY <3>1, <3>2
  <2>3. Q(k + 1, g)
    <3> HIDE DEF g
    <3>1. g = [i \in 0..(k + 1) |-> g[i]] BY DEF g
    <3>2. QED BY <3>1, <2>2
  <2>4. \E u : Q(k + 1, u) BY <2>3
  <2> HIDE DEF Q
  <2>5. QED BY <2>4
<1> HIDE DEF S
<1>3. Len(ys) \in S BY <1>1, <1>2, Induction
<1>4. \E u : Q(Len(ys), u) BY <1>3 DEF S
<1> DEFINE h == CHOOSE u : Q(Len(ys), u)
<1>5. Q(Len(ys), h) BY <1>4
<1>6. FollowAll(deeper, s, ys) = h[Len(ys)] BY DEF FollowAll
<1> HIDE DEF h
<1>7. h[0] = s BY <1>5
<1>8. \A i \in 1..Len(ys) : h[i] = Follow(deeper, h[i - 1], ys[i]) BY <1>5
<1>9. QED BY <1>6, <1>7, <1>8

(* The same for Dfs, level by level.                                       *)
LEMMA DfsDefined ==
  ASSUME NEW calls, Cardinality(DOMAIN calls) \in Nat
  PROVE  \E f : /\ f[0] = <<>>
                /\ \A n \in 1..Cardinality(DOMAIN calls) : f[n] = Visit(calls, f[n - 1])
                /\ Dfs(calls) = f[Cardinality(DOMAIN calls)]
<1> DEFINE N == Cardinality(DOMAIN calls)
<1> DEFINE Q(k, u) == u = [n \in 0..k |-> IF n = 0 THEN <<>> ELSE Visit(calls, u[n - 1])]
<1> DEFINE S == {k \in Nat : \E u : Q(k, u)}
<1>1. 0 \in S
  <2>1. Q(0, [n \in 0..0 |-> <<>>]) OBVIOUS
  <2>2. QED BY <2>1
<1>2. ASSUME NEW k \in Nat, k \in S
      PROVE  k + 1 \in S
  <2>1. PICK f : Q(k, f) BY <1>2
  <2> DEFINE g == [n \in 0..(k + 1) |-> IF n = k + 1 THEN Visit(calls, f[k]) ELSE f[n]]
  <2>2. ASSUME NEW n \in 0..(k + 1)
        PROVE  g[n] = IF n = 0 THEN <<>> ELSE Visit(calls, g[n - 1])
    <3>1. CASE n = k + 1
      <4>1. n # 0 /\ n - 1 = k /\ g[n - 1] = f[k] BY <3>1
      <4>2. QED BY <3>1, <4>1
    <3>2. CASE n \in 0..k
      <4>1. f[n] = IF n = 0 THEN <<>> ELSE Visit(calls, f[n - 1]) BY <2>1, <3>2
      <4>2. g[n] = f[n] /\ (n # 0 => g[n - 1] = f[n - 1]) BY <3>2
      <4>3. QED BY <4>1, <4>2
    <3>3. QED BY <3>1, <3>2
  <2>3. Q(k + 1, g)
    <3> HIDE DEF g
    <3>1. g = [n \in 0..(k + 1) |-> g[n]] BY DEF g
    <3>2. QED BY <3>1, <2>2
  <2>4. \E u : Q(k + 1, u) BY <2>3
  <2> HIDE DEF Q
  <2>5. QED BY <2>4
<1> HIDE DEF S
<1>3. N \in S BY <1>1, <1>2, Induction
<1>4. \E u : Q(N, u) BY <1>3 DEF S
<1> DEFINE h == CHOOSE u : Q(N, u)
<1>5. Q(N, h) BY <1>4
<1>6. Dfs(calls) = h[N] BY DEF Dfs
<1> HIDE DEF h
<1>7. h[0] = <<>> BY <1>5
<1>8. \A n \in 1..N : h[n] = Visit(calls, h[n - 1]) BY <1>5
<1>9. QED BY <1>6, <1>7, <1>8

-----------------------------------------------------------------------------
(* Calls and cycles *)

Mentions(calls, x, y) == \E i \in 1..Len(calls[x]) : calls[x][i] = y

IsWalk(calls, p) == \A i \in 1..(Len(p) - 1) : Mentions(calls, p[i], p[i + 1])

(* A function that reaches itself.                                         *)
IsCycle(calls, c) ==
  /\ c \in Seq(DOMAIN calls) /\ Len(c) >= 2
  /\ c[1] = c[Len(c)]
  /\ IsWalk(calls, c)

NoCycleIn(calls, S) == ~ \E c \in Seq(S) : IsCycle(calls, c)

Finished(s) == s.visited \ ToSet(s.path)

(* The invariant of a search without a cycle so far.                       *)
Sound(calls, s) ==
  /\ s \in Search(DOMAIN calls)
  /\ s.cycle = <<>>
  /\ ToSet(s.path) \subseteq s.visited
  /\ IsWalk(calls, s.path)
  /\ \A x \in Finished(s), y \in DOMAIN calls : Mentions(calls, x, y) => y \in Finished(s)
  /\ NoCycleIn(calls, Finished(s))

(* y is next: at the top, or mentioned by the function being searched.     *)
MayFollow(calls, s, y) == s.path = <<>> \/ Mentions(calls, s.path[Len(s.path)], y)

(* What searching on from s leads to.                                      *)
Continues(calls, s, r) ==
  /\ r \in Search(DOMAIN calls)
  /\ IF r.cycle # <<>> THEN IsCycle(calls, r.cycle)
     ELSE Sound(calls, r) /\ r.path = s.path /\ s.visited \subseteq r.visited

Searches(calls, deeper, n) ==
  \A y \in DOMAIN calls : \A s \in Search(DOMAIN calls) :
    /\ Sound(calls, s) /\ MayFollow(calls, s, y)
    /\ y \notin s.visited /\ Cardinality(DOMAIN calls \ s.visited) <= n
    => /\ Continues(calls, s, deeper[y][s])
       /\ deeper[y][s].cycle = <<>> => y \in deeper[y][s].visited

(* What a walk reaches from a set that calls do not lead out of is in it.  *)
LEMMA WalkStays ==
  ASSUME NEW calls, NEW F, NEW c \in Seq(DOMAIN calls), IsWalk(calls, c),
         \A x \in F, y \in DOMAIN calls : Mentions(calls, x, y) => y \in F,
         NEW i \in 1..Len(c), c[i] \in F
  PROVE  \A j \in i..Len(c) : c[j] \in F
<1> DEFINE S == {n \in Nat : i + n <= Len(c) => c[i + n] \in F}
<1>1. 0 \in S OBVIOUS
<1>2. ASSUME NEW n \in Nat, n \in S
      PROVE  n + 1 \in S
  <2>1. CASE i + (n + 1) <= Len(c)
    <3>1. i + n \in 1..(Len(c) - 1) /\ i + (n + 1) \in 1..Len(c) /\ (i + n) + 1 = i + (n + 1)
      BY <2>1
    <3>2. c[i + n] \in F BY <1>2, <3>1
    <3>3. Mentions(calls, c[i + n], c[i + (n + 1)]) BY <3>1 DEF IsWalk
    <3>4. c[i + (n + 1)] \in DOMAIN calls BY <3>1, ElementOfSeq
    <3>5. QED BY <3>2, <3>3, <3>4
  <2>2. QED BY <2>1
<1> HIDE DEF S
<1>3. ASSUME NEW j \in i..Len(c)
      PROVE  c[j] \in F
  <2>1. j - i \in Nat /\ i + (j - i) = j BY <1>3
  <2>2. j - i \in S BY <2>1, <1>1, <1>2, Induction
  <2>3. QED BY <2>1, <2>2 DEF S
<1>4. QED BY <1>3

(* A function all of whose calls are to functions that are finished can be *)
(* finished too.                                                           *)
LEMMA OneMoreFinished ==
  ASSUME NEW calls, NEW F \in SUBSET DOMAIN calls, NEW x \in DOMAIN calls \ F,
         \A z \in F, y \in DOMAIN calls : Mentions(calls, z, y) => y \in F,
         \A y \in DOMAIN calls : Mentions(calls, x, y) => y \in F,
         NoCycleIn(calls, F)
  PROVE  NoCycleIn(calls, F \union {x})
<1> SUFFICES ASSUME NEW c \in Seq(F \union {x}), IsCycle(calls, c) PROVE FALSE
  BY DEF NoCycleIn
<1>1. c \in Seq(DOMAIN calls) /\ Len(c) \in Nat /\ Len(c) >= 2 /\ c[1] = c[Len(c)] /\ IsWalk(calls, c)
  BY DEF IsCycle
<1>2. \A i \in 1..Len(c) : c[i] \in F \union {x} BY ElementOfSeq
<1>3. PICK i \in 1..Len(c) : c[i] = x
  <2>1. SUFFICES ASSUME \A i \in 1..Len(c) : c[i] # x PROVE FALSE OBVIOUS
  <2>2. \A i \in 1..Len(c) : c[i] \in F BY <2>1, <1>2
  <2>3. c \in Seq(F) BY <2>2, <1>1, SeqDef
  <2>4. QED BY <2>3 DEF NoCycleIn
<1>4. \E j \in 1..(Len(c) - 1) : c[j] = x
  <2>1. CASE i = Len(c)
    <3>1. c[1] = x /\ 1 \in 1..(Len(c) - 1) BY <2>1, <1>1, <1>3
    <3>2. QED BY <3>1
  <2>2. CASE i # Len(c) BY <2>2, <1>1, <1>3
  <2>3. QED BY <2>1, <2>2
<1>5. PICK j \in 1..(Len(c) - 1) : c[j] = x BY <1>4
<1>6. j + 1 \in 1..Len(c) /\ j \in 1..Len(c) /\ Len(c) \in (j + 1)..Len(c) /\ j \in 1..Len(c) BY <1>1
<1>7. c[j + 1] \in F
  <2>1. Mentions(calls, x, c[j + 1]) BY <1>1, <1>5 DEF IsWalk
  <2>2. c[j + 1] \in DOMAIN calls BY <1>1, <1>6, ElementOfSeq
  <2>3. QED BY <2>1, <2>2
<1>8. c[Len(c)] \in F BY <1>1, <1>6, <1>7, WalkStays
<1>9. c[1] \in F /\ 1 \in 1..Len(c) BY <1>1, <1>8
<1>10. c[j] \in F BY <1>1, <1>6, <1>9, WalkStays
<1>11. QED BY <1>5, <1>10

-----------------------------------------------------------------------------
(* Steps of the search *)

(* The functions of a path are those at its places.                        *)
LEMMA SetOfPath ==
  ASSUME NEW p
  PROVE  \A x : x \in ToSet(p) <=> \E i \in DOMAIN p : p[i] = x
BY DEF ToSet

(* Entering a function not visited adds it to the path, and nothing to the *)
(* finished ones.                                                          *)
LEMMA Entering ==
  ASSUME NEW calls, NEW s, Sound(calls, s), NEW x \in DOMAIN calls,
         x \notin s.visited, MayFollow(calls, s, x)
  PROVE  /\ Sound(calls, Enter(s, x))
         /\ Enter(s, x).path = Append(s.path, x)
         /\ Enter(s, x).visited = s.visited \union {x}
         /\ Finished(Enter(s, x)) = Finished(s)
<1> DEFINE e == Enter(s, x)
<1>0. s \in Search(DOMAIN calls) /\ s.visited \in SUBSET DOMAIN calls /\ s.path \in Seq(DOMAIN calls)
      /\ s.cycle = <<>>
  BY DEF Sound, Search
<1>1. /\ e.path = Append(s.path, x) /\ e.visited = s.visited \union {x} /\ e.cycle = <<>>
      /\ e \in Search(DOMAIN calls)
  BY <1>0, AppendProperties DEF Enter, Search
<1>2. /\ e.path \in Seq(DOMAIN calls) /\ Len(e.path) = Len(s.path) + 1 /\ Len(s.path) \in Nat
      /\ \A i \in 1..Len(s.path) : e.path[i] = s.path[i]
      /\ e.path[Len(s.path) + 1] = x
      /\ DOMAIN s.path = 1..Len(s.path) /\ DOMAIN e.path = 1..(Len(s.path) + 1)
  BY <1>0, <1>1, AppendProperties, LenProperties
<1> HIDE DEF e
<1>3. ToSet(e.path) = ToSet(s.path) \union {x}
  <2>1. ASSUME NEW z \in ToSet(e.path) PROVE z \in ToSet(s.path) \union {x}
    <3>1. PICK i \in 1..(Len(s.path) + 1) : e.path[i] = z BY <2>1, <1>2, SetOfPath
    <3>2. i = Len(s.path) + 1 \/ i \in 1..Len(s.path) BY <1>2
    <3>3. QED BY <3>1, <3>2, <1>2, SetOfPath
  <2>2. ASSUME NEW z \in ToSet(s.path) PROVE z \in ToSet(e.path)
    <3>1. PICK i \in 1..Len(s.path) : s.path[i] = z BY <2>2, <1>2, SetOfPath
    <3>2. i \in 1..(Len(s.path) + 1) BY <1>2
    <3>3. QED BY <3>1, <3>2, <1>2, SetOfPath
  <2>3. x \in ToSet(e.path)
    <3>1. Len(s.path) + 1 \in 1..(Len(s.path) + 1) BY <1>2
    <3>2. QED BY <3>1, <1>2, SetOfPath
  <2>4. QED BY <2>1, <2>2, <2>3
<1>4. Finished(e) = Finished(s) BY <1>1, <1>3 DEF Finished
<1>5. IsWalk(calls, e.path)
  <2> SUFFICES ASSUME NEW i \in 1..(Len(e.path) - 1)
               PROVE  Mentions(calls, e.path[i], e.path[i + 1])
    BY DEF IsWalk
  <2>1. CASE i = Len(s.path)
    <3>1. s.path # <<>> BY <2>1, <1>2
    <3>2. Mentions(calls, s.path[Len(s.path)], x) BY <3>1 DEF MayFollow
    <3>3. QED BY <3>2, <2>1, <1>2
  <2>2. CASE i # Len(s.path)
    <3>1. i \in 1..(Len(s.path) - 1) /\ i \in 1..Len(s.path) /\ i + 1 \in 1..Len(s.path)
      BY <2>2, <1>2
    <3>2. Mentions(calls, s.path[i], s.path[i + 1]) BY <3>1 DEF Sound, IsWalk
    <3>3. QED BY <3>1, <3>2, <1>2
  <2>3. QED BY <2>1, <2>2
<1>6. ToSet(e.path) \subseteq e.visited BY <1>1, <1>3 DEF Sound
<1>7. Sound(calls, e) BY <1>1, <1>4, <1>5, <1>6 DEF Sound
<1>8. QED BY <1>1, <1>4, <1>7 DEF e

(* The path closed is a cycle.                                             *)
LEMMA Closing ==
  ASSUME NEW calls, NEW s, Sound(calls, s), NEW y \in DOMAIN calls,
         y \in ToSet(s.path), MayFollow(calls, s, y)
  PROVE  /\ CloseCycle(s, y) \in Search(DOMAIN calls)
         /\ CloseCycle(s, y).cycle # <<>>
         /\ IsCycle(calls, CloseCycle(s, y).cycle)
<1> DEFINE start == CHOOSE i \in DOMAIN s.path : s.path[i] = y
<1> DEFINE rest == SubSeq(s.path, start, Len(s.path))
<1> DEFINE c == Append(rest, y)
<1>0. s \in Search(DOMAIN calls) /\ s.path \in Seq(DOMAIN calls) /\ Len(s.path) \in Nat
      /\ DOMAIN s.path = 1..Len(s.path)
  BY LenProperties DEF Sound, Search
<1>1. start \in 1..Len(s.path) /\ s.path[start] = y
  <2>1. \E i \in DOMAIN s.path : s.path[i] = y BY SetOfPath
  <2>2. QED BY <2>1, <1>0
<1> HIDE DEF start
<1>2. /\ rest \in Seq(DOMAIN calls) /\ Len(rest) = Len(s.path) - start + 1
      /\ \A i \in 1..(Len(s.path) - start + 1) : rest[i] = s.path[start + i - 1]
  BY <1>0, <1>1, SubSeqProperties
<1> HIDE DEF rest
<1>3. /\ c \in Seq(DOMAIN calls) /\ Len(c) = Len(s.path) - start + 2
      /\ \A i \in 1..(Len(s.path) - start + 1) : c[i] = s.path[start + i - 1]
      /\ c[Len(s.path) - start + 2] = y
  <2>1. Len(rest) + 1 = Len(s.path) - start + 2 BY <1>0, <1>1, <1>2
  <2>2. QED BY <1>2, <2>1, AppendProperties
<1> HIDE DEF c
<1>4. Len(c) >= 2 /\ c[1] = c[Len(c)]
  <2>1. 1 \in 1..(Len(s.path) - start + 1) /\ start + 1 - 1 = start BY <1>0, <1>1
  <2>2. c[1] = y BY <2>1, <1>1, <1>3
  <2>3. QED BY <2>2, <1>0, <1>1, <1>3
<1>5. IsWalk(calls, c)
  <2> SUFFICES ASSUME NEW i \in 1..(Len(c) - 1)
               PROVE  Mentions(calls, c[i], c[i + 1])
    BY DEF IsWalk
  <2>0. i \in 1..(Len(s.path) - start + 1) /\ c[i] = s.path[start + i - 1] BY <1>0, <1>1, <1>3
  <2>1. CASE i = Len(s.path) - start + 1
    <3>1. start + i - 1 = Len(s.path) /\ i + 1 = Len(s.path) - start + 2 BY <2>1, <1>0, <1>1
    <3>2. s.path # <<>> BY <1>0, <1>1
    <3>3. Mentions(calls, s.path[Len(s.path)], y) BY <3>2 DEF MayFollow
    <3>4. QED BY <3>1, <3>3, <2>0, <1>3
  <2>2. CASE i # Len(s.path) - start + 1
    <3> DEFINE n == Len(s.path)
    <3>0. n \in Nat /\ start \in 1..n /\ i \in 1..(n - start + 1) /\ i # n - start + 1
      BY <2>0, <2>2, <1>0, <1>1
    <3>1. /\ i + 1 \in 1..(n - start + 1)
          /\ start + i - 1 \in 1..(n - 1)
          /\ start + (i + 1) - 1 = (start + i - 1) + 1
      <4> HIDE DEF n
      <4>1. start \in Int /\ i \in Int /\ 1 <= start /\ 1 <= i /\ i < n - start + 1 BY <3>0
      <4> QED BY <3>0, <4>1
    <3>2. c[i + 1] = s.path[(start + i - 1) + 1] BY <3>1, <1>3
    <3>3. Mentions(calls, s.path[start + i - 1], s.path[(start + i - 1) + 1])
      BY <3>1 DEF Sound, IsWalk
    <3>4. QED BY <2>0, <3>2, <3>3
  <2>3. QED BY <2>1, <2>2
<1>6. IsCycle(calls, c) BY <1>3, <1>4, <1>5 DEF IsCycle
<1>7. CloseCycle(s, y) = [s EXCEPT !.cycle = c] BY DEF CloseCycle, c, rest, start
<1>8. CloseCycle(s, y) \in Search(DOMAIN calls) /\ CloseCycle(s, y).cycle = c
  BY <1>0, <1>3, <1>7 DEF Search
<1>9. c # <<>> BY <1>4
<1>10. QED BY <1>6, <1>8, <1>9

(* Following a function: on a cycle the search ends, otherwise it is       *)
(* finished now.                                                           *)
LEMMA Following ==
  ASSUME NEW calls, NEW n, NEW deeper, Searches(calls, deeper, n),
         NEW s, Sound(calls, s), NEW y \in DOMAIN calls, MayFollow(calls, s, y),
         Cardinality(DOMAIN calls \ s.visited) <= n
  PROVE  /\ Continues(calls, s, Follow(deeper, s, y))
         /\ Follow(deeper, s, y).cycle = <<>> => y \in Finished(Follow(deeper, s, y))
<1> DEFINE r == Follow(deeper, s, y)
<1>0. s \in Search(DOMAIN calls) /\ s.cycle = <<>> /\ ToSet(s.path) \subseteq s.visited BY DEF Sound
<1>1. CASE y \notin s.visited
  <2>1. r = deeper[y][s] BY <1>0, <1>1 DEF Follow
  <2>2. Continues(calls, s, r) /\ (r.cycle = <<>> => y \in r.visited)
    BY <1>0, <1>1, <2>1 DEF Searches
  <2> HIDE DEF r
  <2>3. r.cycle = <<>> => y \in Finished(r) BY <1>0, <1>1, <2>2 DEF Continues, Finished
  <2>4. QED BY <2>2, <2>3 DEF r
<1>2. CASE y \in s.visited /\ y \in ToSet(s.path)
  <2>1. r = CloseCycle(s, y) BY <1>0, <1>2 DEF Follow
  <2>2. QED BY <1>2, <2>1, Closing DEF Continues
<1>3. CASE y \in s.visited /\ y \notin ToSet(s.path)
  <2>1. r = s BY <1>0, <1>3 DEF Follow
  <2>2. QED BY <1>0, <1>3, <2>1 DEF Continues, Finished
<1>4. QED BY <1>1, <1>2, <1>3

(* The loop over the functions that one mentions.                          *)
LEMMA FollowingAll ==
  ASSUME NEW calls, IsFiniteSet(DOMAIN calls),
         NEW n \in Nat, NEW deeper, Searches(calls, deeper, n),
         NEW s, Sound(calls, s), NEW ys \in Seq(DOMAIN calls),
         \A i \in 1..Len(ys) : MayFollow(calls, s, ys[i]),
         Cardinality(DOMAIN calls \ s.visited) <= n
  PROVE  /\ Continues(calls, s, FollowAll(deeper, s, ys))
         /\ FollowAll(deeper, s, ys).cycle = <<>> =>
              \A i \in 1..Len(ys) : ys[i] \in Finished(FollowAll(deeper, s, ys))
<1>0. Len(ys) \in Nat BY LenProperties
<1>1. PICK f : /\ f[0] = s
               /\ \A i \in 1..Len(ys) : f[i] = Follow(deeper, f[i - 1], ys[i])
               /\ FollowAll(deeper, s, ys) = f[Len(ys)]
  BY <1>0, FollowAllDefined
<1> DEFINE P(k) == /\ Continues(calls, s, f[k])
                   /\ f[k].cycle = <<>> => \A i \in 1..k : ys[i] \in Finished(f[k])
<1> DEFINE S == {k \in Nat : k <= Len(ys) => P(k)}
<1>2. 0 \in S
  <2>1. Continues(calls, s, s) BY DEF Continues, Sound
  <2>2. QED BY <2>1, <1>1
<1>3. ASSUME NEW k \in Nat, k \in S
      PROVE  k + 1 \in S
  <2> SUFFICES ASSUME k + 1 <= Len(ys) PROVE P(k + 1) OBVIOUS
  <2> DEFINE r == f[k]
  <2> DEFINE q == f[k + 1]
  <2>1. P(k) /\ k + 1 \in 1..Len(ys) /\ (k + 1) - 1 = k BY <1>0, <1>3
  <2>2. q = Follow(deeper, r, ys[k + 1]) /\ ys[k + 1] \in DOMAIN calls
    BY <1>1, <2>1, ElementOfSeq
  <2>3. CASE r.cycle # <<>>
    <3>1. q = r BY <2>2, <2>3 DEF Follow
    <3>2. QED BY <2>1, <2>3, <3>1 DEF Continues
  <2>4. CASE r.cycle = <<>>
    <3>1. /\ Sound(calls, r) /\ r.path = s.path /\ s.visited \subseteq r.visited
          /\ \A i \in 1..k : ys[i] \in Finished(r)
      BY <2>1, <2>4 DEF Continues
    <3>2. MayFollow(calls, r, ys[k + 1]) BY <2>1, <3>1 DEF MayFollow
    <3>3. Cardinality(DOMAIN calls \ r.visited) <= n
      <4>1. DOMAIN calls \ r.visited \subseteq DOMAIN calls \ s.visited BY <3>1
      <4>2. IsFiniteSet(DOMAIN calls \ s.visited) BY FS_Difference
      <4>3. /\ Cardinality(DOMAIN calls \ r.visited) <= Cardinality(DOMAIN calls \ s.visited)
            /\ IsFiniteSet(DOMAIN calls \ r.visited)
        BY <4>1, <4>2, FS_Subset
      <4>4. /\ Cardinality(DOMAIN calls \ r.visited) \in Nat
            /\ Cardinality(DOMAIN calls \ s.visited) \in Nat
        BY <4>2, <4>3, FS_CardinalityType
      <4>5. QED BY <4>3, <4>4
    <3> HIDE DEF r, q
    <3>4. /\ Continues(calls, r, q)
          /\ q.cycle = <<>> => ys[k + 1] \in Finished(q)
      BY <2>2, <3>1, <3>2, <3>3, Following
    <3>5. Continues(calls, s, q) BY <3>1, <3>4 DEF Continues
    <3>6. ASSUME q.cycle = <<>>, NEW i \in 1..(k + 1)
          PROVE  ys[i] \in Finished(q)
      <4>1. Finished(r) \subseteq Finished(q) BY <3>4, <3>6 DEF Continues, Finished
      <4>2. i = k + 1 \/ i \in 1..k BY <3>6
      <4>3. QED BY <4>1, <4>2, <3>1, <3>4, <3>6
    <3>7. QED BY <3>5, <3>6 DEF q
  <2>5. QED BY <2>3, <2>4
<1>4. Len(ys) \in S
  <2> HIDE DEF S
  <2>1. QED BY <1>0, <1>2, <1>3, Induction
<1>5. QED BY <1>0, <1>1, <1>4

(* A function whose calls were all followed is finished when the search    *)
(* leaves it.                                                              *)
LEMMA Leaving ==
  ASSUME NEW calls, NEW s, Sound(calls, s), NEW x \in DOMAIN calls, x \notin s.visited,
         NEW r, r.cycle = <<>>, Continues(calls, Enter(s, x), r),
         Enter(s, x).path = Append(s.path, x), Enter(s, x).visited = s.visited \union {x},
         \A y \in DOMAIN calls : Mentions(calls, x, y) => y \in Finished(r)
  PROVE  /\ Continues(calls, s, Leave(r))
         /\ Leave(r).cycle = <<>> /\ x \in Leave(r).visited
<1> DEFINE l == Leave(r)
<1>0. /\ s \in Search(DOMAIN calls) /\ s.path \in Seq(DOMAIN calls)
      /\ ToSet(s.path) \subseteq s.visited /\ IsWalk(calls, s.path)
  BY DEF Sound, Search
<1>1. /\ Sound(calls, r) /\ r \in Search(DOMAIN calls) /\ r.path = Append(s.path, x)
      /\ s.visited \union {x} \subseteq r.visited /\ r.visited \subseteq DOMAIN calls
  BY DEF Continues, Sound, Search
<1>2. Front(r.path) = s.path
  <2>1. Len(s.path) \in Nat /\ Len(r.path) = Len(s.path) + 1 BY <1>0, <1>1, AppendProperties
  <2>2. /\ SubSeq(r.path, 1, Len(s.path)) \in Seq(DOMAIN calls)
        /\ Len(SubSeq(r.path, 1, Len(s.path))) = Len(s.path)
        /\ \A i \in 1..Len(s.path) : SubSeq(r.path, 1, Len(s.path))[i] = r.path[i]
    <3>1. r.path \in Seq(DOMAIN calls) BY <1>1 DEF Search
    <3>2. QED BY <2>1, <3>1, SubSeqProperties
  <2>3. \A i \in 1..Len(s.path) : r.path[i] = s.path[i] BY <1>0, <1>1, AppendProperties
  <2>4. SubSeq(r.path, 1, Len(s.path)) = s.path BY <1>0, <2>2, <2>3, SeqEqual
  <2>5. QED BY <2>1, <2>4 DEF Front
<1>3. /\ l.path = s.path /\ l.visited = r.visited /\ l.cycle = <<>>
      /\ l \in Search(DOMAIN calls)
  BY <1>0, <1>1, <1>2 DEF Leave, Search
<1> HIDE DEF l
<1>4. ToSet(r.path) = ToSet(s.path) \union {x}
  <2>1. /\ Len(s.path) \in Nat /\ DOMAIN s.path = 1..Len(s.path)
        /\ DOMAIN r.path = 1..(Len(s.path) + 1)
        /\ \A i \in 1..Len(s.path) : r.path[i] = s.path[i]
        /\ r.path[Len(s.path) + 1] = x
    BY <1>0, <1>1, AppendProperties, LenProperties
  <2>2. ASSUME NEW z \in ToSet(r.path) PROVE z \in ToSet(s.path) \union {x}
    <3>1. PICK i \in 1..(Len(s.path) + 1) : r.path[i] = z BY <2>1, <2>2, SetOfPath
    <3>2. i = Len(s.path) + 1 \/ i \in 1..Len(s.path) BY <2>1
    <3>3. QED BY <3>1, <3>2, <2>1, SetOfPath
  <2>3. ASSUME NEW z \in ToSet(s.path) PROVE z \in ToSet(r.path)
    <3>1. PICK i \in 1..Len(s.path) : s.path[i] = z BY <2>1, <2>3, SetOfPath
    <3>2. i \in 1..(Len(s.path) + 1) BY <2>1
    <3>3. QED BY <3>1, <3>2, <2>1, SetOfPath
  <2>4. x \in ToSet(r.path)
    <3>1. Len(s.path) + 1 \in 1..(Len(s.path) + 1) BY <2>1
    <3>2. QED BY <3>1, <2>1, SetOfPath
  <2>5. QED BY <2>2, <2>3, <2>4
<1>5. Finished(l) = Finished(r) \union {x} /\ x \notin Finished(r) BY <1>0, <1>1, <1>3, <1>4 DEF Finished
<1>6. NoCycleIn(calls, Finished(r) \union {x})
  <2>1. /\ Finished(r) \in SUBSET DOMAIN calls /\ NoCycleIn(calls, Finished(r))
        /\ \A z \in Finished(r), y \in DOMAIN calls : Mentions(calls, z, y) => y \in Finished(r)
    BY <1>1 DEF Sound, Finished
  <2>2. QED BY <2>1, <1>5, OneMoreFinished
<1>7. \A z \in Finished(l), y \in DOMAIN calls : Mentions(calls, z, y) => y \in Finished(l)
  BY <1>1, <1>5 DEF Sound
<1>8. Sound(calls, l) BY <1>0, <1>1, <1>3, <1>5, <1>6, <1>7 DEF Sound
<1>9. QED BY <1>1, <1>3, <1>8 DEF Continues, l

(* dfs from any function that was not visited.                             *)
LEMMA Visiting ==
  ASSUME NEW calls, IsFiniteSet(DOMAIN calls), \A x \in DOMAIN calls : calls[x] \in Seq(DOMAIN calls),
         NEW n \in Nat, NEW deeper, Searches(calls, deeper, n)
  PROVE  Searches(calls, Visit(calls, deeper), n + 1)
<1> SUFFICES ASSUME NEW x \in DOMAIN calls, NEW s \in Search(DOMAIN calls),
                    Sound(calls, s), MayFollow(calls, s, x), x \notin s.visited,
                    Cardinality(DOMAIN calls \ s.visited) <= n + 1
             PROVE  /\ Continues(calls, s, Visit(calls, deeper)[x][s])
                    /\ Visit(calls, deeper)[x][s].cycle = <<>> => x \in Visit(calls, deeper)[x][s].visited
  BY DEF Searches
<1> DEFINE e == Enter(s, x)
<1> DEFINE r == FollowAll(deeper, e, calls[x])
<1>1. Visit(calls, deeper)[x][s] = Leave(r) BY DEF Visit
<1>2. /\ Sound(calls, e) /\ e.path = Append(s.path, x) /\ e.visited = s.visited \union {x}
  BY Entering
<1>3. Cardinality(DOMAIN calls \ e.visited) <= n
  <2>1. DOMAIN calls \ e.visited = (DOMAIN calls \ s.visited) \ {x} BY <1>2
  <2>2. IsFiniteSet(DOMAIN calls \ s.visited) /\ Cardinality(DOMAIN calls \ s.visited) \in Nat
    BY FS_Difference, FS_CardinalityType
  <2>3. Cardinality((DOMAIN calls \ s.visited) \ {x}) = Cardinality(DOMAIN calls \ s.visited) - 1
    BY <2>2, FS_RemoveElement
  <2>4. Cardinality(DOMAIN calls \ e.visited) = Cardinality(DOMAIN calls \ s.visited) - 1
    BY <2>1, <2>3
  <2> HIDE DEF e
  <2>5. QED BY <2>2, <2>4
<1>4. ASSUME NEW i \in 1..Len(calls[x])
      PROVE  MayFollow(calls, e, calls[x][i])
  <2>1. s.path \in Seq(DOMAIN calls) BY DEF Search
  <2>2. e.path[Len(e.path)] = x BY <1>2, <2>1, AppendProperties
  <2>3. QED BY <2>2 DEF MayFollow, Mentions
<1> HIDE DEF e
<1>5. /\ Continues(calls, e, r)
      /\ r.cycle = <<>> => \A i \in 1..Len(calls[x]) : calls[x][i] \in Finished(r)
  BY <1>2, <1>3, <1>4, FollowingAll
<1> HIDE DEF r
<1>6. CASE r.cycle # <<>>
  <2>1. Leave(r) = r BY <1>6 DEF Leave
  <2>2. QED BY <1>1, <1>5, <1>6, <2>1 DEF Continues
<1>7. CASE r.cycle = <<>>
  <2>1. \A y \in DOMAIN calls : Mentions(calls, x, y) => y \in Finished(r) BY <1>5, <1>7 DEF Mentions
  <2>2. /\ Enter(s, x).path = Append(s.path, x) /\ Enter(s, x).visited = s.visited \union {x}
        /\ Continues(calls, Enter(s, x), r)
    BY <1>2, <1>5 DEF e
  <2>3. Continues(calls, s, Leave(r)) /\ x \in Leave(r).visited BY <1>7, <2>1, <2>2, Leaving
  <2>4. QED BY <1>1, <2>3
<1>8. QED BY <1>6, <1>7

(* dfs goes as deep as it needs to.                                        *)
LEMMA DfsSearches ==
  ASSUME NEW calls, IsFiniteSet(DOMAIN calls), \A x \in DOMAIN calls : calls[x] \in Seq(DOMAIN calls)
  PROVE  Searches(calls, Dfs(calls), Cardinality(DOMAIN calls))
<1> DEFINE N == Cardinality(DOMAIN calls)
<1>0. N \in Nat BY FS_CardinalityType
<1>1. PICK f : /\ f[0] = <<>>
               /\ \A n \in 1..N : f[n] = Visit(calls, f[n - 1])
               /\ Dfs(calls) = f[N]
  BY <1>0, DfsDefined
<1> DEFINE S == {n \in Nat : n <= N => Searches(calls, f[n], n)}
<1>2. 0 \in S
  <2>1. ASSUME NEW y \in DOMAIN calls, NEW s \in Search(DOMAIN calls),
               y \notin s.visited, Cardinality(DOMAIN calls \ s.visited) <= 0
        PROVE  FALSE
    <3>1. IsFiniteSet(DOMAIN calls \ s.visited) BY FS_Difference
    <3>2. Cardinality(DOMAIN calls \ s.visited) = 0 BY <2>1, <3>1, FS_CardinalityType
    <3>3. DOMAIN calls \ s.visited = {} BY <3>1, <3>2, FS_EmptySet
    <3>4. QED BY <2>1, <3>3
  <2>2. Searches(calls, f[0], 0) BY <2>1 DEF Searches
  <2>3. QED BY <2>2
<1>3. ASSUME NEW n \in Nat, n \in S
      PROVE  n + 1 \in S
  <2> SUFFICES ASSUME n + 1 <= N PROVE Searches(calls, f[n + 1], n + 1) OBVIOUS
  <2>1. n <= N /\ n + 1 \in 1..N /\ (n + 1) - 1 = n BY <1>0
  <2>2. Searches(calls, f[n], n) BY <1>3, <2>1
  <2>3. f[n + 1] = Visit(calls, f[n]) BY <1>1, <2>1
  <2>4. QED BY <2>2, <2>3, Visiting
<1>4. N \in S
  <2> HIDE DEF S
  <2>1. QED BY <1>0, <1>2, <1>3, Induction
<1>5. Searches(calls, f[N], N) BY <1>0, <1>4
<1>6. QED BY <1>1, <1>5

-----------------------------------------------------------------------------
(* A program is refused exactly if a function can reach itself, by however *)
(* many calls, and the calls that are reported lead from a function back   *)
(* to it: for every call graph, whatever the order in which functions were *)
(* written and their calls are made (check_no_cycles, callgraph.rs:16).    *)
THEOREM RecursionIsFound ==
  ASSUME NEW calls, IsFiniteSet(DOMAIN calls), \A x \in DOMAIN calls : calls[x] \in Seq(DOMAIN calls),
         NEW names \in Seq(DOMAIN calls), \A x \in DOMAIN calls : \E i \in 1..Len(names) : names[i] = x
  PROVE  /\ CycleFrom(calls, names) # <<>> <=> \E c : IsCycle(calls, c)
         /\ CycleFrom(calls, names) # <<>> => IsCycle(calls, CycleFrom(calls, names))
<1> DEFINE r == FollowAll(Dfs(calls), NewSearch, names)
<1>1. Sound(calls, NewSearch)
  <2>1. NewSearch \in Search(DOMAIN calls) BY EmptySeq DEF NewSearch, Search
  <2>2. NewSearch.path = <<>> /\ NewSearch.visited = {} /\ NewSearch.cycle = <<>> BY DEF NewSearch
  <2>3. ToSet(NewSearch.path) = {} BY <2>2 DEF ToSet
  <2>4. IsWalk(calls, NewSearch.path) BY <2>2 DEF IsWalk
  <2>5. Finished(NewSearch) = {} BY <2>2 DEF Finished
  <2>6. NoCycleIn(calls, {})
    <3> SUFFICES ASSUME NEW c \in Seq({}), IsCycle(calls, c) PROVE FALSE BY DEF NoCycleIn
    <3>1. 1 \in 1..Len(c) BY DEF IsCycle
    <3>2. c[1] \in {} BY <3>1, ElementOfSeq
    <3>3. QED BY <3>2
  <2>7. QED BY <2>1, <2>2, <2>3, <2>4, <2>5, <2>6 DEF Sound
<1>2. \A i \in 1..Len(names) : MayFollow(calls, NewSearch, names[i]) BY DEF MayFollow, NewSearch
<1>3. /\ Cardinality(DOMAIN calls) \in Nat
      /\ Cardinality(DOMAIN calls \ NewSearch.visited) <= Cardinality(DOMAIN calls)
  <2>1. DOMAIN calls \ NewSearch.visited = DOMAIN calls BY DEF NewSearch
  <2>2. Cardinality(DOMAIN calls) \in Nat BY FS_CardinalityType
  <2>3. QED BY <2>1, <2>2
<1>4. /\ Continues(calls, NewSearch, r)
      /\ r.cycle = <<>> => \A i \in 1..Len(names) : names[i] \in Finished(r)
  BY <1>1, <1>2, <1>3, DfsSearches, FollowingAll
<1>5. CycleFrom(calls, names) = r.cycle BY DEF CycleFrom
<1> HIDE DEF r
<1>6. ASSUME r.cycle # <<>>
      PROVE  IsCycle(calls, r.cycle)
  BY <1>4, <1>6 DEF Continues
<1>7. ASSUME r.cycle = <<>>, NEW c, IsCycle(calls, c)
      PROVE  FALSE
  <2>1. DOMAIN calls \subseteq Finished(r) BY <1>4, <1>7
  <2>2. NoCycleIn(calls, Finished(r)) BY <1>4, <1>7 DEF Continues, Sound
  <2>3. c \in Seq(DOMAIN calls) BY <1>7 DEF IsCycle
  <2>4. \A i \in 1..Len(c) : c[i] \in Finished(r) BY <2>1, <2>3, ElementOfSeq
  <2>5. Len(c) \in Nat /\ c = [i \in 1..Len(c) |-> c[i]] BY <2>3, SeqDef, LenProperties
  <2>6. c \in Seq(Finished(r)) BY <2>4, <2>5, SeqDef
  <2>7. QED BY <2>2, <2>6, <1>7 DEF NoCycleIn
<1>8. QED BY <1>5, <1>6, <1>7

-----------------------------------------------------------------------------
(* The parser *)

Terminals ==
  BinOps \union {"(", ")", "|", "->", "=", "_", "not", "true", "false", "None", "Some", "lambda",
                 "let", "in", "if", "then", "else", "match", "with", "where", "fn"}

Token == {Tok(t) : t \in Terminals} \union {Num(v) : v \in Nat} \union {Id(x) : x \in STRING}

Texts == {ts \in Seq(Token) : Printable(ts)}

(* The parser is what its rules say of it.                                 *)
IsParser ==
  /\ \A ts \in Texts, i \in Nat, n \in 1..8 : ParseLevel(ts, i, n) = LevelRule(ts, i, n)
  /\ \A e : \A ts \in Texts, i \in Nat, n \in 1..7 :
       ParseRest(ts, Parsed(e, i), n) = RestRule(ts, Parsed(e, i), n)
  /\ \A ts \in Texts, i \in Nat : ParseUnary(ts, i) = UnaryRule(ts, i)
  /\ \A e : \A ts \in Texts, i \in Nat :
       ParseArguments(ts, Parsed(e, i)) = ArgumentsRule(ts, Parsed(e, i))
  /\ \A ts \in Texts, i \in Nat : ParseAtom(ts, i) = AtomRule(ts, i)
  /\ \A ts \in Texts, i \in Nat : ParseParams(ts, i) = ParamsRule(ts, i)
  /\ \A e : \A ts \in Texts, i \in Nat : ParseArms(ts, Parsed(e, i)) = ArmsRule(ts, Parsed(e, i))
  /\ \A ts \in Texts, i \in Nat : ParseWhere(ts, i) = WhereRule(ts, i)
  /\ \A bs : \A ts \in Texts, i \in Nat : ParseProgram(ts, i, bs) = ProgramRule(ts, i, bs)

-----------------------------------------------------------------------------
(* Where a text stands *)

Position == Nat \ {0}

IsText(s) == s \in Seq(Token) /\ Len(s) # 0

Join(s, r) == s \o r
One(a) == <<a>>
First(s) == s[1]

(* s stands in ts from position i up to j.                                 *)
Spans(ts, i, s, j) ==
  /\ i \in Position /\ j = i + Len(s) /\ j <= Len(ts) + 1
  /\ \A k \in 1..Len(s) : ts[i + k - 1] = s[k]

LEMMA TokensAreTokens ==
  /\ \A t \in Terminals : Tok(t) \in Token /\ Tok(t).t = t
  /\ \A v \in Nat : Num(v) \in Token /\ Num(v).t = "num" /\ Num(v).v = v
  /\ \A x \in STRING : Id(x) \in Token /\ Id(x).t = "id" /\ Id(x).x = x
<1>1. \A t \in Terminals : Tok(t) \in Token BY DEF Token
<1>2. \A v \in Nat : Num(v) \in Token BY DEF Token
<1>3. \A x \in STRING : Id(x) \in Token BY DEF Token
<1>4. \A t : Tok(t).t = t BY DEF Tok
<1>5. \A v : Num(v).t = "num" /\ Num(v).v = v BY DEF Num
<1>6. \A x : Id(x).t = "id" /\ Id(x).x = x BY DEF Id
<1> QED BY <1>1, <1>2, <1>3, <1>4, <1>5, <1>6

LEMMA TextsAreTokens ==
  ASSUME NEW ts \in Texts
  PROVE  ts \in Seq(Token) /\ Len(ts) \in Nat /\ DOMAIN ts = 1..Len(ts)
BY DEF Texts

LEMMA OneToken ==
  ASSUME NEW a \in Token
  PROVE  IsText(One(a)) /\ First(One(a)) = a
BY DEF One, First, IsText

LEMMA TwoTexts ==
  ASSUME NEW s, IsText(s), NEW r, IsText(r)
  PROVE  IsText(Join(s, r)) /\ First(Join(s, r)) = First(s)
<1>1. Len(s) \in Nat /\ Len(r) \in Nat BY DEF IsText
<1>2. s \o r \in Seq(Token) /\ Len(s \o r) = Len(s) + Len(r) BY ConcatProperties DEF IsText
<1>3. Len(s \o r) # 0 BY <1>1, <1>2 DEF IsText
<1>4. 1 \in 1..Len(s) BY <1>1 DEF IsText
<1>5. (s \o r)[1] = s[1] BY <1>4, ConcatProperties DEF IsText
<1> QED BY <1>2, <1>3, <1>5 DEF IsText, Join, First

LEMMA JoinedTokens ==
  ASSUME NEW s \in Seq(Token), NEW r \in Seq(Token)
  PROVE  /\ s \o r \in Seq(Token) /\ Len(s \o r) = Len(s) + Len(r)
         /\ \A k \in 1..Len(s) : (s \o r)[k] = s[k]
         /\ \A k \in 1..Len(r) : (s \o r)[Len(s) + k] = r[k]
<1>1. Len(s) \in Nat /\ Len(r) \in Nat BY LenProperties
<1>2. s \o r \in Seq(Token) /\ Len(s \o r) = Len(s) + Len(r) BY ConcatProperties
<1>3. \A k \in 1..Len(s) : (s \o r)[k] = s[k] BY <1>1, ConcatProperties
<1>4. \A k \in 1..Len(r) : (s \o r)[Len(s) + k] = r[k] BY <1>1, ConcatProperties
<1> QED BY <1>2, <1>3, <1>4

LEMMA SpansTwo ==
  ASSUME NEW ts \in Texts, NEW i, NEW j, NEW s \in Seq(Token), NEW r \in Seq(Token),
         Spans(ts, i, Join(s, r), j)
  PROVE  \E k \in Position : Spans(ts, i, s, k) /\ Spans(ts, k, r, j)
<1>0. i \in Position /\ i \in Nat \ {0} /\ Spans(ts, i, s \o r, j) BY DEF Join, Spans, Position
<1>1. Len(s) \in Nat /\ Len(r) \in Nat /\ Len(ts) \in Nat BY DEF Texts
<1>2. s \o r \in Seq(Token) /\ Len(s \o r) = Len(s) + Len(r) BY JoinedTokens
<1>3. \A k \in 1..Len(s) : (s \o r)[k] = s[k] BY JoinedTokens
<1>4. \A k \in 1..Len(r) : (s \o r)[Len(s) + k] = r[k] BY JoinedTokens
<1>5. /\ j = i + Len(s \o r) /\ j <= Len(ts) + 1
      /\ \A k \in 1..Len(s \o r) : ts[i + k - 1] = (s \o r)[k]
  BY <1>0 DEF Spans
<1> DEFINE k == i + Len(s)
<1>6. k \in Position /\ j = k + Len(r) /\ k <= Len(ts) + 1 BY <1>0, <1>1, <1>2, <1>5 DEF Position
<1>7. Spans(ts, i, s, k)
  <2>1. ASSUME NEW m \in 1..Len(s) PROVE ts[i + m - 1] = s[m]
    <3>1. m \in 1..Len(s \o r) BY <1>1, <1>2
    <3> QED BY <1>5, <3>1, <1>3
  <2> QED BY <1>0, <1>6, <2>1 DEF Spans
<1>8. Spans(ts, k, r, j)
  <2>1. ASSUME NEW m \in 1..Len(r) PROVE ts[k + m - 1] = r[m]
    <3>1. Len(s) + m \in 1..Len(s \o r) BY <1>1, <1>2
    <3>2. ts[i + (Len(s) + m) - 1] = (s \o r)[Len(s) + m] BY <1>5, <3>1
    <3>3. i + (Len(s) + m) - 1 = k + m - 1 BY <1>0, <1>1
    <3> QED BY <3>2, <3>3, <1>4
  <2> QED BY <1>5, <1>6, <2>1 DEF Spans
<1> QED BY <1>6, <1>7, <1>8

LEMMA SpansFirst ==
  ASSUME NEW ts \in Texts, NEW i, NEW j, NEW s, IsText(s), Spans(ts, i, s, j)
  PROVE  i \in Position /\ i \in 1..Len(ts) /\ j \in Position /\ ts[i] = First(s) /\ Peek(ts, i) = First(s).t
<1>1. Len(s) \in Nat /\ 1 \in 1..Len(s) BY DEF IsText
<1>2. Len(ts) \in Nat /\ DOMAIN ts = 1..Len(ts) BY TextsAreTokens
<1>3. i \in Position /\ j = i + Len(s) /\ j <= Len(ts) + 1 BY DEF Spans
<1>4. j \in Position /\ i \in 1..Len(ts) /\ i + 1 - 1 = i BY <1>1, <1>2, <1>3 DEF Position
<1>5. ts[i] = First(s) BY <1>1, <1>4 DEF Spans, First
<1> QED BY <1>2, <1>3, <1>4, <1>5 DEF Peek

LEMMA SpansOne ==
  ASSUME NEW ts \in Texts, NEW i, NEW j, NEW a \in Token, Spans(ts, i, One(a), j)
  PROVE  i \in Position /\ i \in 1..Len(ts) /\ j = i + 1 /\ j \in Position /\ ts[i] = a /\ Peek(ts, i) = a.t
<1>1. IsText(One(a)) /\ First(One(a)) = a BY OneToken
<1>2. Len(One(a)) = 1 BY DEF One
<1>3. j = i + 1 BY <1>2 DEF Spans
<1>4. i \in Position /\ i \in 1..Len(ts) /\ j \in Position /\ ts[i] = a /\ Peek(ts, i) = a.t
  BY <1>1, SpansFirst
<1> QED BY <1>3, <1>4

LEMMA SpansJoin ==
  ASSUME NEW ts \in Texts, NEW i, NEW j, NEW s, IsText(s), NEW r, IsText(r), Spans(ts, i, Join(s, r), j)
  PROVE  \E k \in Position : Spans(ts, i, s, k) /\ Spans(ts, k, r, j)
BY SpansTwo DEF IsText

(* A token, then a text.                                                   *)
LEMMA SpansAfter ==
  ASSUME NEW ts \in Texts, NEW i, NEW j, NEW a \in Token, NEW s, IsText(s),
         Spans(ts, i, Join(One(a), s), j)
  PROVE  /\ i \in Position /\ i \in 1..Len(ts) /\ ts[i] = a /\ Peek(ts, i) = a.t
         /\ i + 1 \in Position /\ Spans(ts, i + 1, s, j)
<1>1. IsText(One(a)) BY OneToken
<1>2. PICK k \in Position : Spans(ts, i, One(a), k) /\ Spans(ts, k, s, j) BY <1>1, SpansJoin
<1> QED BY <1>2, SpansOne

(* A text, a token, and a text.                                            *)
LEMMA SpansBetween ==
  ASSUME NEW ts \in Texts, NEW i, NEW j, NEW s, IsText(s), NEW a \in Token, NEW r, IsText(r),
         Spans(ts, i, Join(Join(s, One(a)), r), j)
  PROVE  \E k \in Position :
           /\ Spans(ts, i, s, k) /\ Peek(ts, k) = a.t /\ ts[k] = a
           /\ k + 1 \in Position /\ Spans(ts, k + 1, r, j)
<1>1. IsText(One(a)) /\ IsText(Join(s, One(a))) BY OneToken, TwoTexts
<1>2. PICK k \in Position : Spans(ts, i, Join(s, One(a)), k) /\ Spans(ts, k, r, j) BY <1>1, SpansJoin
<1>3. PICK m \in Position : Spans(ts, i, s, m) /\ Spans(ts, m, One(a), k) BY <1>1, <1>2, SpansJoin
<1> QED BY <1>2, <1>3, SpansOne

(* A text, then a token.                                                   *)
LEMMA SpansBefore ==
  ASSUME NEW ts \in Texts, NEW i, NEW j, NEW s, IsText(s), NEW a \in Token,
         Spans(ts, i, Join(s, One(a)), j)
  PROVE  \E k \in Position : Spans(ts, i, s, k) /\ Peek(ts, k) = a.t /\ j = k + 1
<1>1. IsText(One(a)) BY OneToken
<1>2. PICK k \in Position : Spans(ts, i, s, k) /\ Spans(ts, k, One(a), j) BY <1>1, SpansJoin
<1> QED BY <1>2, SpansOne

-----------------------------------------------------------------------------
(* The rules, one case of each at a time *)

LEMMA ParsedAnswers ==
  ASSUME NEW e, NEW j \in Position
  PROVE  ~Failed(Parsed(e, j)) /\ Parsed(e, j).e = e /\ Parsed(e, j).i = j
BY DEF Failed, Parsed, Position

LEMMA ExpectReads ==
  ASSUME NEW ts, NEW e, NEW j \in Position, NEW t, Peek(ts, j) = t
  PROVE  Expect(Parsed(e, j), ts, t) = Parsed(e, j + 1)
BY ParsedAnswers DEF Expect

LEMMA LevelDown ==
  ASSUME IsParser, NEW ts \in Texts, NEW i \in Position, NEW n \in 1..7, NEW e, NEW j \in Position,
         ParseLevel(ts, i, n + 1) = Parsed(e, j)
  PROVE  ParseLevel(ts, i, n) = ParseRest(ts, Parsed(e, j), n)
<1>1. ParseLevel(ts, i, n) = LevelRule(ts, i, n) BY DEF IsParser, Position
<1>2. n # Unary BY DEF Unary
<1> QED BY <1>1, <1>2, ParsedAnswers DEF LevelRule

LEMMA LevelOfUnary ==
  ASSUME IsParser, NEW ts \in Texts, NEW i \in Position
  PROVE  ParseLevel(ts, i, 8) = ParseUnary(ts, i)
<1>1. ParseLevel(ts, i, 8) = LevelRule(ts, i, 8) BY DEF IsParser, Position
<1> QED BY <1>1 DEF LevelRule, Unary

LEMMA RestStops ==
  ASSUME IsParser, NEW ts \in Texts, NEW n \in 1..7, NEW e, NEW j \in Position,
         Peek(ts, j) \notin OpsOf[n]
  PROVE  ParseRest(ts, Parsed(e, j), n) = Parsed(e, j)
<1>1. ParseRest(ts, Parsed(e, j), n) = RestRule(ts, Parsed(e, j), n) BY DEF IsParser, Position
<1> QED BY <1>1, ParsedAnswers DEF RestRule

LEMMA RestTakes ==
  ASSUME IsParser, NEW ts \in Texts, NEW n \in 1..7, NEW e, NEW j \in Position,
         NEW op \in OpsOf[n], Peek(ts, j) = op, NEW f, NEW k \in Position,
         ParseLevel(ts, j + 1, IF n = 5 THEN n ELSE n + 1) = Parsed(f, k), op # "|>"
  PROVE  ParseRest(ts, Parsed(e, j), n) =
           IF n \in {4, 5} THEN Parsed(Node(op, 0, NoName, <<e, f>>), k)
           ELSE ParseRest(ts, Parsed(Node(op, 0, NoName, <<e, f>>), k), n)
<1>1. ParseRest(ts, Parsed(e, j), n) = RestRule(ts, Parsed(e, j), n) BY DEF IsParser, Position
<1>2. Combine(op, e, f) = Node(op, 0, NoName, <<e, f>>) BY DEF Combine
<1> QED BY <1>1, <1>2, ParsedAnswers DEF RestRule

LEMMA UnaryPlain ==
  ASSUME IsParser, NEW ts \in Texts, NEW i \in Position, Peek(ts, i) \notin {"not", "-"}
  PROVE  ParseUnary(ts, i) = ParseArguments(ts, ParseAtom(ts, i))
<1>1. ParseUnary(ts, i) = UnaryRule(ts, i) BY DEF IsParser, Position
<1> QED BY <1>1 DEF UnaryRule

LEMMA UnaryTakes ==
  ASSUME IsParser, NEW ts \in Texts, NEW i \in Position, Peek(ts, i) \in {"not", "-"},
         NEW e, NEW j \in Position, ParseUnary(ts, i + 1) = Parsed(e, j)
  PROVE  ParseUnary(ts, i) =
           Parsed(Node(IF Peek(ts, i) = "-" THEN "neg" ELSE "not", 0, NoName, <<e>>), j)
<1>1. ParseUnary(ts, i) = UnaryRule(ts, i) BY DEF IsParser, Position
<1> QED BY <1>1, ParsedAnswers DEF UnaryRule

LEMMA ArgumentsStop ==
  ASSUME IsParser, NEW ts \in Texts, NEW e, NEW j \in Position, Peek(ts, j) \notin AtomStart
  PROVE  ParseArguments(ts, Parsed(e, j)) = Parsed(e, j)
<1>1. ParseArguments(ts, Parsed(e, j)) = ArgumentsRule(ts, Parsed(e, j)) BY DEF IsParser, Position
<1> QED BY <1>1, ParsedAnswers DEF ArgumentsRule

LEMMA ArgumentsTake ==
  ASSUME IsParser, NEW ts \in Texts, NEW e, NEW j \in Position, Peek(ts, j) \in AtomStart,
         NEW f, NEW k \in Position, ParseAtom(ts, j) = Parsed(f, k)
  PROVE  ParseArguments(ts, Parsed(e, j)) = ParseArguments(ts, Parsed(Apply(e, f), k))
<1>1. ParseArguments(ts, Parsed(e, j)) = ArgumentsRule(ts, Parsed(e, j)) BY DEF IsParser, Position
<1> QED BY <1>1, ParsedAnswers DEF ArgumentsRule

LEMMA AtomReads ==
  ASSUME IsParser, NEW ts \in Texts, NEW i \in Position
  PROVE  /\ Peek(ts, i) = "num" => ParseAtom(ts, i) = Parsed(Node("int", ts[i].v, NoName, <<>>), i + 1)
         /\ Peek(ts, i) = "true" => ParseAtom(ts, i) = Parsed(Node("bool", 1, NoName, <<>>), i + 1)
         /\ Peek(ts, i) = "false" => ParseAtom(ts, i) = Parsed(Node("bool", 0, NoName, <<>>), i + 1)
         /\ Peek(ts, i) = "None" => ParseAtom(ts, i) = Parsed(Node("none", 0, NoName, <<>>), i + 1)
         /\ Peek(ts, i) = "id" => ParseAtom(ts, i) = Parsed(Ident(ts[i].x), i + 1)
         /\ Peek(ts, i) = "Some" => ParseAtom(ts, i) = ParseSome(ts, i + 1)
         /\ Peek(ts, i) = "(" => ParseAtom(ts, i) = ParseParen(ts, i + 1)
         /\ Peek(ts, i) = "lambda" => ParseAtom(ts, i) = ParseLambda(ts, i + 1)
         /\ Peek(ts, i) = "let" => ParseAtom(ts, i) = ParseLet(ts, i + 1)
         /\ Peek(ts, i) = "if" => ParseAtom(ts, i) = ParseIf(ts, i + 1)
         /\ Peek(ts, i) = "match" => ParseAtom(ts, i) = ParseMatch(ts, i + 1)
<1>1. ParseAtom(ts, i) = AtomRule(ts, i) BY DEF IsParser, Position
<1>2. Peek(ts, i) = "id" => ExpectIdent(ts, i) = Parsed(Ident(ts[i].x), i + 1) BY DEF ExpectIdent
<1> QED BY <1>1, <1>2 DEF AtomRule

LEMMA SomeReads ==
  ASSUME NEW ts, NEW i, NEW e, NEW j \in Position, ParseAtom(ts, i) = Parsed(e, j)
  PROVE  ParseSome(ts, i) = Parsed(Node("some", 0, NoName, <<e>>), j)
BY ParsedAnswers DEF ParseSome

LEMMA ParenReads ==
  ASSUME NEW ts, NEW i, NEW e, NEW j \in Position, Peek(ts, i) \notin Sections,
         ParseLevel(ts, i, 1) = Parsed(e, j), Peek(ts, j) = ")"
  PROVE  ParseParen(ts, i) = Parsed(e, j + 1)
BY ExpectReads DEF ParseParen, ParseExpr

LEMMA SectionReads ==
  ASSUME NEW ts, NEW i, NEW e, NEW j \in Position, NEW op \in Sections, Peek(ts, i) = op,
         ParseLevel(ts, i + 1, 1) = Parsed(e, j), Peek(ts, j) = ")"
  PROVE  ParseParen(ts, i) = Parsed(Lambda("__x", Node(op, 0, NoName, <<Ident("__x"), e>>)), j + 1)
<1>1. Expect(ParseExpr(ts, i + 1), ts, ")") = Parsed(e, j + 1) /\ j + 1 \in Position
  BY ExpectReads DEF ParseExpr, Position
<1> QED BY <1>1, ParsedAnswers DEF ParseParen, ParseSection

LEMMA LambdaReads ==
  ASSUME IsParser, NEW ts \in Texts, NEW i \in Position, NEW e, NEW j \in Position,
         Peek(ts, i) = "id", Peek(ts, i + 1) = "->", ParseLevel(ts, i + 2, 1) = Parsed(e, j)
  PROVE  ParseLambda(ts, i) = Parsed(Lambda(ts[i].x, e), j)
<1>1. ParseParams(ts, i) = ParamsRule(ts, i) /\ ParseParams(ts, i + 1) = ParamsRule(ts, i + 1)
  BY DEF IsParser, Position
<1>2. i + 1 + 1 = i + 2 BY DEF Position
<1>3. ParseParams(ts, i + 1) = Parsed(e, j) BY <1>1, <1>2 DEF ParamsRule, ParseExpr
<1> QED BY <1>1, <1>3, ParsedAnswers DEF ParseLambda, ParamsRule

LEMMA LetReads ==
  ASSUME NEW ts, NEW i \in Position, Peek(ts, i) = "id", Peek(ts, i + 1) = "=",
         NEW e, NEW j \in Position, ParseLevel(ts, i + 2, 1) = Parsed(e, j), Peek(ts, j) = "in",
         NEW f, NEW k \in Position, ParseLevel(ts, j + 1, 1) = Parsed(f, k)
  PROVE  ParseLet(ts, i) = Parsed(Node("let", 0, ts[i].x, <<e, f>>), k)
<1>1. i + 1 \in Position /\ i + 2 \in Position /\ j + 1 \in Position /\ i + 1 + 1 = i + 2 BY DEF Position
<1>2. Expect(ExpectIdent(ts, i), ts, "=") = Parsed(Ident(ts[i].x), i + 2)
  BY <1>1, ExpectReads DEF ExpectIdent
<1>3. Expect(ParseExpr(ts, i + 2), ts, "in") = Parsed(e, j + 1) BY ExpectReads DEF ParseExpr
<1> QED BY <1>1, <1>2, <1>3, ParsedAnswers DEF ParseLet, ParseExpr

LEMMA IfReads ==
  ASSUME NEW ts, NEW i \in Position,
         NEW c, NEW j \in Position, ParseLevel(ts, i, 1) = Parsed(c, j), Peek(ts, j) = "then",
         NEW e, NEW k \in Position, ParseLevel(ts, j + 1, 1) = Parsed(e, k), Peek(ts, k) = "else",
         NEW f, NEW l \in Position, ParseLevel(ts, k + 1, 1) = Parsed(f, l)
  PROVE  ParseIf(ts, i) = Parsed(Node("if", 0, NoName, <<c, e, f>>), l)
<1>1. j + 1 \in Position /\ k + 1 \in Position BY DEF Position
<1>2. Expect(ParseExpr(ts, i), ts, "then") = Parsed(c, j + 1) BY ExpectReads DEF ParseExpr
<1>3. Expect(ParseExpr(ts, j + 1), ts, "else") = Parsed(e, k + 1) BY ExpectReads DEF ParseExpr
<1> QED BY <1>1, <1>2, <1>3, ParsedAnswers DEF ParseIf, ParseExpr

LEMMA MatchReads ==
  ASSUME NEW ts, NEW i \in Position,
         NEW e, NEW j \in Position, ParseLevel(ts, i, 1) = Parsed(e, j), Peek(ts, j) = "with",
         NEW es, NEW k \in Position, Len(es) # 1,
         ParseArms(ts, Parsed(Node("match", 0, NoName, <<e>>), j + 1)) = Parsed(Node("match", 0, NoName, es), k)
  PROVE  ParseMatch(ts, i) = Parsed(Node("match", 0, NoName, es), k)
<1>1. j + 1 \in Position BY DEF Position
<1>2. Expect(ParseExpr(ts, i), ts, "with") = Parsed(e, j + 1) BY ExpectReads DEF ParseExpr
<1>3. Node("match", 0, NoName, es).es = es BY DEF Node
<1> QED BY <1>1, <1>2, <1>3, ParsedAnswers DEF ParseMatch

LEMMA ArmsStop ==
  ASSUME IsParser, NEW ts \in Texts, NEW e, NEW j \in Position, Peek(ts, j) # "|"
  PROVE  ParseArms(ts, Parsed(e, j)) = Parsed(e, j)
<1>1. ParseArms(ts, Parsed(e, j)) = ArmsRule(ts, Parsed(e, j)) BY DEF IsParser, Position
<1> QED BY <1>1, ParsedAnswers DEF ArmsRule

LEMMA ArmsTake ==
  ASSUME IsParser, NEW ts \in Texts, NEW es, NEW j \in Position, Peek(ts, j) = "|",
         NEW k, NEW v, NEW x, NEW l \in Position,
         ParsePattern(ts, j + 1) = Parsed(Node(k, v, x, <<>>), l),
         Peek(ts, l) = "->", NEW f, NEW p \in Position, ParseLevel(ts, l + 1, 1) = Parsed(f, p)
  PROVE  ParseArms(ts, Parsed(Node("match", 0, NoName, es), j))
           = ParseArms(ts, Parsed(Node("match", 0, NoName, Append(es, Node(k, v, x, <<f>>))), p))
<1>1. ParseArms(ts, Parsed(Node("match", 0, NoName, es), j))
        = ArmsRule(ts, Parsed(Node("match", 0, NoName, es), j)) BY DEF IsParser, Position
<1>2. Expect(ParsePattern(ts, j + 1), ts, "->") = Parsed(Node(k, v, x, <<>>), l + 1) /\ l + 1 \in Position
  BY ExpectReads DEF Position
<1>3. [Node(k, v, x, <<>>) EXCEPT !.es = <<f>>] = Node(k, v, x, <<f>>) BY DEF Node
<1> DEFINE m == Node("match", 0, NoName, es)
<1> DEFINE arm == Node(k, v, x, <<f>>)
<1>4. m.es = es /\ \A y : [m EXCEPT !.es = y] = Node("match", 0, NoName, y) BY DEF Node
<1> HIDE DEF m
<1>5. LET r == Expect(ParsePattern(ts, j + 1), ts, "->")
          b == ParseExpr(ts, r.i)
      IN ~Failed(r) /\ ~Failed(b) /\ b.e = f /\ b.i = p /\ [r.e EXCEPT !.es = <<b.e>>] = arm
  BY <1>2, <1>3, ParsedAnswers DEF ParseExpr
<1> HIDE DEF arm
<1>6. ArmsRule(ts, Parsed(m, j)) = ParseArms(ts, Parsed([m EXCEPT !.es = Append(m.es, arm)], p))
  BY <1>5, ParsedAnswers DEF ArmsRule
<1> QED BY <1>1, <1>4, <1>6 DEF m, arm

LEMMA WhereReads ==
  ASSUME IsParser, NEW ts \in Texts, NEW i \in Position
  PROVE  /\ Peek(ts, i) = "=" => ParseWhere(ts, i) = ParseLevel(ts, i + 1, 1)
         /\ \A e : \A j \in Position : Peek(ts, i) = "id" /\ ParseWhere(ts, i + 1) = Parsed(e, j)
              => ParseWhere(ts, i) = Parsed(Lambda(ts[i].x, e), j)
<1>1. ParseWhere(ts, i) = WhereRule(ts, i) /\ i + 1 \in Position BY DEF IsParser, Position
<1>2. Peek(ts, i) = "id" => ExpectIdent(ts, i) = Parsed(Ident(ts[i].x), i + 1) BY DEF ExpectIdent
<1>3. Ident(ts[i].x).x = ts[i].x BY DEF Ident, Node
<1> QED BY <1>1, <1>2, <1>3, ParsedAnswers DEF WhereRule, ParseExpr

LEMMA BodyReads ==
  ASSUME NEW ts, NEW i \in Position, NEW e, NEW j \in Position, ParseLevel(ts, i, 1) = Parsed(e, j)
  PROVE  /\ Peek(ts, j) # "where" => ParseBody(ts, i) = Parsed(e, j)
         /\ \A f : \A k \in Position :
              /\ Peek(ts, j) = "where" /\ Peek(ts, j + 1) = "id"
              /\ ParseWhere(ts, j + 2) = Parsed(f, k)
              => ParseBody(ts, i) = Parsed(Node("let", 0, ts[j + 1].x, <<f, e>>), k)
<1>1. j + 1 + 1 = j + 2 /\ j + 2 \in Position BY DEF Position
<1>2. Peek(ts, j + 1) = "id" => ExpectIdent(ts, j + 1) = Parsed(Ident(ts[j + 1].x), j + 2)
  BY <1>1 DEF ExpectIdent
<1>3. Ident(ts[j + 1].x).x = ts[j + 1].x BY DEF Ident, Node
<1> QED BY <1>1, <1>2, <1>3, ParsedAnswers DEF ParseBody, ParseWhereClause, ParseExpr

LEMMA ProgramReads ==
  ASSUME IsParser, NEW ts \in Texts, NEW i \in Position, NEW bs
  PROVE  /\ i = Len(ts) + 1 => ParseProgram(ts, i, bs) = bs
         /\ \A e : \A j \in Position :
              /\ i # Len(ts) + 1 /\ Peek(ts, i) = "fn"
              /\ Peek(ts, i + 1) = "id" /\ Peek(ts, i + 2) = "=" /\ ParseBody(ts, i + 3) = Parsed(e, j)
              => ParseProgram(ts, i, bs) = ParseProgram(ts, j, Append(bs, e))
<1>1. ParseProgram(ts, i, bs) = ProgramRule(ts, i, bs) BY DEF IsParser, Position
<1>2. /\ i + 1 + 1 = i + 2 /\ i + 2 + 1 = i + 3 /\ i + 1 \in Position
      /\ i + 2 \in Position /\ i + 3 \in Position
  BY DEF Position
<1>3. Peek(ts, i + 1) = "id" /\ Peek(ts, i + 2) = "=" =>
        Expect(ExpectIdent(ts, i + 1), ts, "=") = Parsed(Ident(ts[i + 1].x), i + 3)
  BY <1>2, ExpectReads DEF ExpectIdent
<1>4. ASSUME NEW e, NEW j \in Position, Peek(ts, i + 1) = "id", Peek(ts, i + 2) = "=",
             ParseBody(ts, i + 3) = Parsed(e, j)
      PROVE  ParseFnDef(ts, i + 1) = Parsed(e, j)
  BY <1>2, <1>3, <1>4, ParsedAnswers DEF ParseFnDef
<1> QED BY <1>1, <1>4, ParsedAnswers DEF ProgramRule

-----------------------------------------------------------------------------
(* The levels of expressions *)

(* A token that does not continue an expression of level m or more; one    *)
(* that ends any expression.                                               *)
Stops(t, m) == t \notin AtomStart /\ \A k \in m..7 : t \notin OpsOf[k]
Ends(t) == Stops(t, 1) /\ t # "|"

Levels == {0, 2, 3, 4, 5, 6, 7, 8, 9, 10}

(* What an expression of a level begins with.                              *)
Begins(t, l) ==
  CASE l = 0 -> t \in {"lambda", "let", "if", "match"}
    [] l \in 2..8 -> t \in AtomStart \union {"not", "-"}
    [] OTHER -> t \in AtomStart

(* How the parser reads one that stands in ts from i to j: the atom, the   *)
(* arguments or the operands that follow it are read after it.             *)
ReadsAt(ts, i, j, e, l) ==
  /\ l = 10 => ParseAtom(ts, i) = Parsed(e, j)
  /\ l = 9 => ParseArguments(ts, ParseAtom(ts, i)) = ParseArguments(ts, Parsed(e, j))
  /\ l = 8 /\ Peek(ts, j) \notin AtomStart => ParseUnary(ts, i) = Parsed(e, j)
  /\ l \in {2, 3, 6, 7} /\ Stops(Peek(ts, j), l + 1) => ParseLevel(ts, i, l) = ParseRest(ts, Parsed(e, j), l)
  /\ l \in {4, 5} /\ Stops(Peek(ts, j), 5) => ParseLevel(ts, i, l) = Parsed(e, j)
  /\ l = 0 /\ Ends(Peek(ts, j)) => ParseAtom(ts, i) = Parsed(e, j)

(* From one level down to another, where no operator in between follows.   *)
LEMMA Climb ==
  ASSUME IsParser, NEW ts \in Texts, NEW i \in Position, NEW e, NEW j \in Position,
         NEW n \in 1..8, ParseLevel(ts, i, n) = Parsed(e, j), NEW m \in 1..n, Stops(Peek(ts, j), m)
  PROVE  ParseLevel(ts, i, m) = Parsed(e, j)
<1> DEFINE S == {d \in Nat : d <= n - m => ParseLevel(ts, i, n - d) = Parsed(e, j)}
<1>1. 0 \in S BY n - 0 = n
<1>2. ASSUME NEW d \in Nat, d \in S PROVE d + 1 \in S
  <2> SUFFICES ASSUME d + 1 <= n - m PROVE ParseLevel(ts, i, n - (d + 1)) = Parsed(e, j) OBVIOUS
  <2> DEFINE k == n - (d + 1)
  <2>1. k \in 1..7 /\ k \in m..7 /\ k + 1 = n - d /\ d <= n - m OBVIOUS
  <2> HIDE DEF k
  <2>2. ParseLevel(ts, i, k + 1) = Parsed(e, j) BY <1>2, <2>1
  <2>3. ParseLevel(ts, i, k) = ParseRest(ts, Parsed(e, j), k) BY <2>1, <2>2, LevelDown
  <2>4. Peek(ts, j) \notin OpsOf[k] BY <2>1 DEF Stops
  <2>5. ParseRest(ts, Parsed(e, j), k) = Parsed(e, j) BY <2>1, <2>4, RestStops
  <2> QED BY <2>3, <2>5 DEF k
<1>3. n - m \in S
  <2> HIDE DEF S
  <2> QED BY <1>1, <1>2, Induction
<1> QED BY <1>3, n - (n - m) = m

LEMMA StopsAbove ==
  ASSUME NEW t, NEW m \in 1..8, NEW n \in m..8, Stops(t, m)
  PROVE  Stops(t, n)
BY DEF Stops

(* An expression of level m or more is read where one of level m may stand *)
LEMMA Reading ==
  ASSUME IsParser, NEW ts \in Texts, NEW i \in Position, NEW e, NEW j \in Position,
         NEW l \in Levels, ReadsAt(ts, i, j, e, l), Begins(Peek(ts, i), l),
         NEW m \in 1..8, m <= l, Stops(Peek(ts, j), m)
  PROVE  ParseLevel(ts, i, m) = Parsed(e, j)
<1>0. Peek(ts, j) \notin AtomStart BY DEF Stops
<1>1. CASE l \in {8, 9, 10}
  <2>1. l \in {9, 10} => Peek(ts, i) \notin {"not", "-"} BY DEF Begins, AtomStart
  <2>2. l \in {9, 10} => ParseUnary(ts, i) = ParseArguments(ts, ParseAtom(ts, i)) BY <2>1, UnaryPlain
  <2>3. ParseArguments(ts, Parsed(e, j)) = Parsed(e, j) BY <1>0, ArgumentsStop
  <2>4. ParseUnary(ts, i) = Parsed(e, j) BY <1>0, <1>1, <2>2, <2>3 DEF ReadsAt
  <2>5. ParseLevel(ts, i, 8) = Parsed(e, j) BY <2>4, LevelOfUnary
  <2> QED BY <2>5, Climb
<1>2. CASE l \in {2, 3, 6, 7}
  <2>1. l \in 1..7 /\ l + 1 \in m..8 /\ m \in 1..l /\ l \in m..7 /\ l \in 1..8 BY <1>2
  <2>2. Stops(Peek(ts, j), l + 1) /\ Peek(ts, j) \notin OpsOf[l] BY <2>1, StopsAbove DEF Stops
  <2>3. ParseLevel(ts, i, l) = ParseRest(ts, Parsed(e, j), l) BY <1>2, <2>2 DEF ReadsAt
  <2>4. ParseLevel(ts, i, l) = Parsed(e, j) BY <2>1, <2>2, <2>3, RestStops
  <2> QED BY <2>1, <2>4, Climb
<1>3. CASE l \in {4, 5}
  <2>1. 5 \in m..8 /\ m \in 1..l /\ l \in 1..8 BY <1>3
  <2>2. ParseLevel(ts, i, l) = Parsed(e, j) BY <1>3, <2>1, StopsAbove DEF ReadsAt
  <2> QED BY <2>1, <2>2, Climb
<1> QED BY <1>1, <1>2, <1>3 DEF Levels

(* Its operator is read after it.                                          *)
LEMMA ReadingLeft ==
  ASSUME IsParser, NEW ts \in Texts, NEW i \in Position, NEW e, NEW j \in Position,
         NEW l \in Levels, ReadsAt(ts, i, j, e, l), Begins(Peek(ts, i), l),
         NEW n \in 2..7, Stops(Peek(ts, j), n + 1), n < l \/ (n = l /\ n \notin {4, 5})
  PROVE  ParseLevel(ts, i, n) = ParseRest(ts, Parsed(e, j), n)
<1>1. CASE n < l
  <2>1. n + 1 \in 1..8 /\ n + 1 <= l /\ n \in 1..7 BY <1>1 DEF Levels
  <2>2. ParseLevel(ts, i, n + 1) = Parsed(e, j) BY <2>1, Reading
  <2> QED BY <2>1, <2>2, LevelDown
<1>2. CASE n = l /\ n \notin {4, 5}
  BY <1>2 DEF ReadsAt
<1> QED BY <1>1, <1>2

(* Any expression is read where one ends.                                  *)
LEMMA ReadingAny ==
  ASSUME IsParser, NEW ts \in Texts, NEW i \in Position, NEW e, NEW j \in Position,
         NEW l \in Levels, ReadsAt(ts, i, j, e, l), Begins(Peek(ts, i), l), Ends(Peek(ts, j))
  PROVE  ParseLevel(ts, i, 1) = Parsed(e, j)
<1>1. Stops(Peek(ts, j), 1) /\ Peek(ts, j) \notin AtomStart BY DEF Ends, Stops
<1>2. CASE l # 0
  <2>1. 1 <= l BY <1>2 DEF Levels
  <2> QED BY <1>1, <2>1, Reading
<1>3. CASE l = 0
  <2>1. Peek(ts, i) \notin {"not", "-"} BY <1>3 DEF Begins
  <2>2. ParseUnary(ts, i) = ParseArguments(ts, ParseAtom(ts, i)) BY <2>1, UnaryPlain
  <2>3. ParseAtom(ts, i) = Parsed(e, j) BY <1>3 DEF ReadsAt
  <2>4. ParseUnary(ts, i) = Parsed(e, j) BY <1>1, <2>2, <2>3, ArgumentsStop
  <2>5. ParseLevel(ts, i, 8) = Parsed(e, j) BY <2>4, LevelOfUnary
  <2> QED BY <1>1, <2>5, Climb
<1> QED BY <1>2, <1>3

-----------------------------------------------------------------------------
(* Texts of expressions *)

Expression(e, s, l) ==
  /\ IsText(s) /\ Begins(First(s).t, l)
  /\ \A ts \in Texts, i \in Position, j \in Position : Spans(ts, i, s, j) => ReadsAt(ts, i, j, e, l)

(* s may stand where an expression of level n or more is wanted.           *)
Standing(e, s, n) == \E l \in Levels : n <= l /\ Expression(e, s, l)

LEMMA StandingText ==
  ASSUME NEW e, NEW s, NEW n \in Nat, Standing(e, s, n)
  PROVE  /\ IsText(s)
         /\ \A m \in Nat : m <= n => Standing(e, s, m)
         /\ First(s).t \in AtomStart \union {"not", "-", "let", "if", "match"}
         /\ n >= 1 => First(s).t \in AtomStart \union {"not", "-"}
         /\ n >= 9 => First(s).t \in AtomStart
<1>1. PICK l \in Levels : n <= l /\ Expression(e, s, l) BY DEF Standing
<1>2. IsText(s) /\ Begins(First(s).t, l) BY <1>1 DEF Expression
<1>3. l \in Nat BY DEF Levels
<1>4. \A m \in Nat : m <= n => Standing(e, s, m) BY <1>1, <1>3 DEF Standing
<1>5. First(s).t \in AtomStart \union {"not", "-", "let", "if", "match"} BY <1>2 DEF Begins, AtomStart
<1>6. n >= 9 => First(s).t \in AtomStart BY <1>1, <1>2 DEF Begins, Levels
<1>7. n >= 1 => First(s).t \in AtomStart \union {"not", "-"} BY <1>1, <1>2 DEF Begins, Levels
<1> QED BY <1>2, <1>4, <1>5, <1>6, <1>7

LEMMA StandingAt ==
  ASSUME NEW e, NEW s, NEW n \in Nat, Standing(e, s, n),
         NEW ts \in Texts, NEW i, NEW j, Spans(ts, i, s, j)
  PROVE  \E l \in Levels :
           /\ n <= l /\ Begins(Peek(ts, i), l) /\ ReadsAt(ts, i, j, e, l)
           /\ i \in Position /\ j \in Position
<1>1. PICK l \in Levels : n <= l /\ Expression(e, s, l) BY DEF Standing
<1>2. IsText(s) /\ Begins(First(s).t, l) BY <1>1 DEF Expression
<1>3. i \in Position /\ j \in Position /\ Peek(ts, i) = First(s).t BY <1>2, SpansFirst
<1>4. ReadsAt(ts, i, j, e, l) BY <1>1, <1>3 DEF Expression
<1> QED BY <1>1, <1>2, <1>3, <1>4

LEMMA StandingReads ==
  ASSUME IsParser, NEW e, NEW s, NEW n \in Nat, Standing(e, s, n),
         NEW ts \in Texts, NEW i, NEW j, Spans(ts, i, s, j)
  PROVE  /\ n \in 1..8 /\ Stops(Peek(ts, j), n) => ParseLevel(ts, i, n) = Parsed(e, j)
         /\ Ends(Peek(ts, j)) => ParseLevel(ts, i, 1) = Parsed(e, j)
         /\ n = 9 => ParseArguments(ts, ParseAtom(ts, i)) = ParseArguments(ts, Parsed(e, j))
         /\ n = 10 => ParseAtom(ts, i) = Parsed(e, j)
         /\ i \in Position /\ j \in Position
<1>1. PICK l \in Levels : /\ n <= l /\ Begins(Peek(ts, i), l) /\ ReadsAt(ts, i, j, e, l)
                          /\ i \in Position /\ j \in Position
  BY StandingAt
<1>2. n \in 1..8 /\ Stops(Peek(ts, j), n) => ParseLevel(ts, i, n) = Parsed(e, j) BY <1>1, Reading
<1>3. Ends(Peek(ts, j)) => ParseLevel(ts, i, 1) = Parsed(e, j) BY <1>1, ReadingAny
<1>4. n = 10 => ParseAtom(ts, i) = Parsed(e, j) BY <1>1 DEF Levels, ReadsAt
<1>5. n = 9 => ParseArguments(ts, ParseAtom(ts, i)) = ParseArguments(ts, Parsed(e, j))
  <2>1. n = 9 => l \in {9, 10} BY <1>1 DEF Levels
  <2> QED BY <2>1, <1>1 DEF ReadsAt
<1> QED BY <1>1, <1>2, <1>3, <1>4, <1>5

LEMMA StandingLeft ==
  ASSUME IsParser, NEW n \in 2..7, NEW e, NEW s,
         Standing(e, s, n + 1) \/ (Standing(e, s, n) /\ n \notin {4, 5}),
         NEW ts \in Texts, NEW i, NEW j, Spans(ts, i, s, j), Stops(Peek(ts, j), n + 1)
  PROVE  ParseLevel(ts, i, n) = ParseRest(ts, Parsed(e, j), n)
<1>1. CASE Standing(e, s, n + 1)
  <2>1. PICK l \in Levels : /\ n + 1 <= l /\ Begins(Peek(ts, i), l) /\ ReadsAt(ts, i, j, e, l)
                            /\ i \in Position /\ j \in Position
    BY <1>1, StandingAt
  <2>2. n < l BY <2>1 DEF Levels
  <2> QED BY <2>1, <2>2, ReadingLeft
<1>2. CASE Standing(e, s, n) /\ n \notin {4, 5}
  <2>1. PICK l \in Levels : /\ n <= l /\ Begins(Peek(ts, i), l) /\ ReadsAt(ts, i, j, e, l)
                            /\ i \in Position /\ j \in Position
    BY <1>2, StandingAt
  <2>2. n < l \/ n = l BY <2>1 DEF Levels
  <2> QED BY <1>2, <2>1, <2>2, ReadingLeft
<1> QED BY <1>1, <1>2

(* What is in parentheses may stand anywhere.                              *)
LEMMA Parenthesising ==
  ASSUME IsParser, NEW e, NEW s, Standing(e, s, 0)
  PROVE  Expression(e, Parenthesised(s), 10)
<1> DEFINE p == Tok("(")
<1> DEFINE q == Tok(")")
<1>0. p \in Token /\ p.t = "(" /\ q \in Token /\ q.t = ")" BY TokensAreTokens DEF Terminals
<1>1. /\ IsText(s)
      /\ First(s).t \in AtomStart \union {"not", "-", "let", "if", "match"}
  BY StandingText
<1> DEFINE text == Join(Join(One(p), s), One(q))
<1>2. Parenthesised(s) = text BY DEF Parenthesised, Join, One
<1> HIDE DEF p, q
<1>3. IsText(One(p)) /\ IsText(One(q)) /\ First(One(p)) = p BY <1>0, OneToken
<1>4. IsText(Join(One(p), s)) /\ First(Join(One(p), s)) = p BY <1>1, <1>3, TwoTexts
<1>5. IsText(text) /\ First(text) = p BY <1>3, <1>4, TwoTexts
<1>6. Begins(First(text).t, 10) BY <1>0, <1>5 DEF Begins, AtomStart
<1>7. ASSUME NEW ts \in Texts, NEW i \in Position, NEW j \in Position, Spans(ts, i, text, j)
      PROVE  ReadsAt(ts, i, j, e, 10)
  <2>1. PICK k \in Position : Spans(ts, i, Join(One(p), s), k) /\ Peek(ts, k) = ")" /\ j = k + 1
    BY <1>0, <1>4, <1>7, SpansBefore
  <2>2. /\ Peek(ts, i) = "(" /\ ts[i] = p /\ i \in 1..Len(ts)
        /\ i + 1 \in Position /\ Spans(ts, i + 1, s, k)
    BY <1>0, <1>1, <2>1, SpansAfter
  <2>3. /\ i + 1 \in 1..Len(ts) /\ ts[i + 1] = First(s) /\ Peek(ts, i + 1) = First(s).t
    BY <1>1, <2>2, SpansFirst
  <2>4. Peek(ts, i + 1) # "-"
    <3>1. Len(ts) \in Nat BY TextsAreTokens
    <3>2. i \in 1..(Len(ts) - 1) BY <2>2, <2>3, <3>1
    <3>3. ts[i].t = "(" BY <1>0, <2>2
    <3>4. ts[i + 1].t # "-" BY <3>2, <3>3 DEF Texts, Printable
    <3> QED BY <2>3, <3>4
  <2>5. Peek(ts, i + 1) \notin Sections BY <1>1, <2>3, <2>4 DEF AtomStart, Sections
  <2>6. Ends(")") BY DEF Ends, Stops, OpsOf, AtomStart, Comparisons
  <2>7. ParseLevel(ts, i + 1, 1) = Parsed(e, k) BY <2>1, <2>2, <2>6, StandingReads
  <2>8. ParseParen(ts, i + 1) = Parsed(e, j) BY <2>1, <2>5, <2>7, ParenReads
  <2>9. ParseAtom(ts, i) = Parsed(e, j) BY <2>2, <2>8, AtomReads
  <2> QED BY <2>9 DEF ReadsAt
<1> HIDE DEF text
<1> QED BY <1>2, <1>5, <1>6, <1>7 DEF Expression

LEMMA AtStands ==
  ASSUME IsParser, NEW w, LevelOf(w.e) \in Levels, Expression(w.e, w.text, LevelOf(w.e)),
         NEW n \in 0..10
  PROVE  Standing(w.e, At(w, n), n)
<1>1. Standing(w.e, w.text, 0)
  <2>1. 0 <= LevelOf(w.e) BY DEF Levels
  <2> QED BY <2>1 DEF Standing
<1>2. CASE LevelOf(w.e) < n
  <2>1. Expression(w.e, Parenthesised(w.text), 10) BY <1>1, Parenthesising
  <2>2. n <= 10 /\ 10 \in Levels BY DEF Levels
  <2> QED BY <1>2, <2>1, <2>2 DEF Standing, At
<1>3. CASE ~(LevelOf(w.e) < n)
  <2>1. n <= LevelOf(w.e) BY <1>3 DEF Levels
  <2> QED BY <1>3, <2>1 DEF Standing, At
<1> QED BY <1>2, <1>3

-----------------------------------------------------------------------------
(* One kind of expression after the other: where its parts are read as     *)
(* they were written, it is.                                               *)

LEMMA TokenStands ==
  ASSUME IsParser, NEW e, NEW a \in Token, a.t \in AtomStart,
         \A ts \in Texts, i \in Position :
           Peek(ts, i) = a.t /\ ts[i] = a => ParseAtom(ts, i) = Parsed(e, i + 1)
  PROVE  Expression(e, One(a), 10)
<1>1. IsText(One(a)) /\ First(One(a)) = a BY OneToken
<1>2. Begins(a.t, 10) BY DEF Begins
<1>3. ASSUME NEW ts \in Texts, NEW i \in Position, NEW j \in Position, Spans(ts, i, One(a), j)
      PROVE  ReadsAt(ts, i, j, e, 10)
  <2>1. j = i + 1 /\ ts[i] = a /\ Peek(ts, i) = a.t BY <1>3, SpansOne
  <2>2. ParseAtom(ts, i) = Parsed(e, j) BY <2>1
  <2> QED BY <2>2 DEF ReadsAt
<1> QED BY <1>1, <1>2, <1>3 DEF Expression

LEMMA LiteralsStand ==
  ASSUME IsParser
  PROVE  /\ \A v \in Nat : Expression(Node("int", v, NoName, <<>>), <<Num(v)>>, 10)
         /\ Expression(Node("bool", 1, NoName, <<>>), <<Tok("true")>>, 10)
         /\ Expression(Node("bool", 0, NoName, <<>>), <<Tok("false")>>, 10)
         /\ Expression(Node("none", 0, NoName, <<>>), <<Tok("None")>>, 10)
         /\ \A x \in STRING : Expression(Node("ident", 0, x, <<>>), <<Id(x)>>, 10)
<1>1. ASSUME NEW v \in Nat PROVE Expression(Node("int", v, NoName, <<>>), <<Num(v)>>, 10)
  <2>1. Num(v) \in Token /\ Num(v).t = "num" /\ Num(v).v = v BY TokensAreTokens
  <2>2. Num(v).t \in AtomStart BY <2>1 DEF AtomStart
  <2>3. ASSUME NEW ts \in Texts, NEW i \in Position, Peek(ts, i) = "num", ts[i] = Num(v)
        PROVE  ParseAtom(ts, i) = Parsed(Node("int", v, NoName, <<>>), i + 1)
    <3>1. ts[i].v = v BY <2>1, <2>3
    <3> QED BY <2>3, <3>1, AtomReads
  <2>4. Expression(Node("int", v, NoName, <<>>), One(Num(v)), 10) BY <2>1, <2>2, <2>3, TokenStands
  <2> QED BY <2>4 DEF One
<1>2. ASSUME NEW x \in STRING PROVE Expression(Node("ident", 0, x, <<>>), <<Id(x)>>, 10)
  <2>1. Id(x) \in Token /\ Id(x).t = "id" /\ Id(x).x = x BY TokensAreTokens
  <2>2. Id(x).t \in AtomStart BY <2>1 DEF AtomStart
  <2>3. ASSUME NEW ts \in Texts, NEW i \in Position, Peek(ts, i) = "id", ts[i] = Id(x)
        PROVE  ParseAtom(ts, i) = Parsed(Node("ident", 0, x, <<>>), i + 1)
    <3>1. ts[i].x = x BY <2>1, <2>3
    <3> QED BY <2>3, <3>1, AtomReads DEF Ident
  <2>4. Expression(Node("ident", 0, x, <<>>), One(Id(x)), 10) BY <2>1, <2>2, <2>3, TokenStands
  <2> QED BY <2>4 DEF One
<1>3. ASSUME NEW t \in {"true", "false", "None"}
      PROVE  Tok(t) \in Token /\ Tok(t).t = t /\ t \in AtomStart
  BY TokensAreTokens DEF AtomStart, Terminals
<1>4. Expression(Node("bool", 1, NoName, <<>>), One(Tok("true")), 10) BY <1>3, AtomReads, TokenStands
<1>5. Expression(Node("bool", 0, NoName, <<>>), One(Tok("false")), 10) BY <1>3, AtomReads, TokenStands
<1>6. Expression(Node("none", 0, NoName, <<>>), One(Tok("None")), 10) BY <1>3, AtomReads, TokenStands
<1> QED BY <1>1, <1>2, <1>4, <1>5, <1>6 DEF One

LEMMA PrefixStands ==
  ASSUME IsParser, NEW op \in {"not", "-"}, NEW e, NEW s, Standing(e, s, 8)
  PROVE  Expression(Node(IF op = "-" THEN "neg" ELSE "not", 0, NoName, <<e>>), Join(One(Tok(op)), s), 8)
<1> DEFINE p == Tok(op)
<1>0. p \in Token /\ p.t = op BY TokensAreTokens DEF Terminals, BinOps
<1> HIDE DEF p
<1>1. IsText(s) BY StandingText
<1>2. IsText(One(p)) /\ First(One(p)) = p BY <1>0, OneToken
<1>3. IsText(Join(One(p), s)) /\ First(Join(One(p), s)) = p BY <1>1, <1>2, TwoTexts
<1>4. Begins(p.t, 8) BY <1>0 DEF Begins
<1>5. ASSUME NEW ts \in Texts, NEW i \in Position, NEW j \in Position,
             Spans(ts, i, Join(One(p), s), j), Peek(ts, j) \notin AtomStart
      PROVE  ParseUnary(ts, i) = Parsed(Node(IF op = "-" THEN "neg" ELSE "not", 0, NoName, <<e>>), j)
  <2>1. Peek(ts, i) = op /\ i + 1 \in Position /\ Spans(ts, i + 1, s, j) BY <1>0, <1>1, <1>5, SpansAfter
  <2>2. Stops(Peek(ts, j), 8) BY <1>5 DEF Stops
  <2>3. ParseLevel(ts, i + 1, 8) = Parsed(e, j) BY <2>1, <2>2, StandingReads
  <2>4. ParseUnary(ts, i + 1) = Parsed(e, j) BY <2>1, <2>3, LevelOfUnary
  <2> QED BY <2>1, <2>4, UnaryTakes
<1>6. ASSUME NEW ts \in Texts, NEW i \in Position, NEW j \in Position, Spans(ts, i, Join(One(p), s), j)
      PROVE  ReadsAt(ts, i, j, Node(IF op = "-" THEN "neg" ELSE "not", 0, NoName, <<e>>), 8)
  BY <1>5, <1>6 DEF ReadsAt
<1> QED BY <1>3, <1>4, <1>6 DEF Expression, p

LEMMA SomeStands ==
  ASSUME IsParser, NEW e, NEW s, Standing(e, s, 10)
  PROVE  Expression(Node("some", 0, NoName, <<e>>), Join(One(Tok("Some")), s), 10)
<1> DEFINE p == Tok("Some")
<1>0. p \in Token /\ p.t = "Some" BY TokensAreTokens DEF Terminals
<1> HIDE DEF p
<1>1. IsText(s) BY StandingText
<1>2. IsText(One(p)) /\ First(One(p)) = p BY <1>0, OneToken
<1>3. IsText(Join(One(p), s)) /\ First(Join(One(p), s)) = p BY <1>1, <1>2, TwoTexts
<1>4. Begins(p.t, 10) BY <1>0 DEF Begins, AtomStart
<1>5. ASSUME NEW ts \in Texts, NEW i \in Position, NEW j \in Position, Spans(ts, i, Join(One(p), s), j)
      PROVE  ReadsAt(ts, i, j, Node("some", 0, NoName, <<e>>), 10)
  <2>1. Peek(ts, i) = "Some" /\ i + 1 \in Position /\ Spans(ts, i + 1, s, j) BY <1>0, <1>1, <1>5, SpansAfter
  <2>2. ParseAtom(ts, i + 1) = Parsed(e, j) BY <2>1, StandingReads
  <2>3. ParseSome(ts, i + 1) = Parsed(Node("some", 0, NoName, <<e>>), j) BY <2>2, SomeReads
  <2>4. ParseAtom(ts, i) = Parsed(Node("some", 0, NoName, <<e>>), j) BY <2>1, <2>3, AtomReads
  <2> QED BY <2>4 DEF ReadsAt
<1> QED BY <1>3, <1>4, <1>5 DEF Expression, p

LEMMA ApplyStands ==
  ASSUME IsParser, NEW f, NEW s, Standing(f, s, 9), NEW a, NEW r, Standing(a, r, 10)
  PROVE  Expression(Apply(f, a), Join(s, r), 9)
<1>1. IsText(s) /\ First(s).t \in AtomStart /\ IsText(r) /\ First(r).t \in AtomStart BY StandingText
<1>2. IsText(Join(s, r)) /\ First(Join(s, r)) = First(s) BY <1>1, TwoTexts
<1>3. Begins(First(s).t, 9) BY <1>1 DEF Begins
<1>4. ASSUME NEW ts \in Texts, NEW i \in Position, NEW j \in Position, Spans(ts, i, Join(s, r), j)
      PROVE  ReadsAt(ts, i, j, Apply(f, a), 9)
  <2>1. PICK k \in Position : Spans(ts, i, s, k) /\ Spans(ts, k, r, j) BY <1>1, <1>4, SpansJoin
  <2>2. ParseArguments(ts, ParseAtom(ts, i)) = ParseArguments(ts, Parsed(f, k)) BY <2>1, StandingReads
  <2>3. Peek(ts, k) \in AtomStart BY <1>1, <2>1, SpansFirst
  <2>4. ParseAtom(ts, k) = Parsed(a, j) BY <2>1, StandingReads
  <2>5. ParseArguments(ts, Parsed(f, k)) = ParseArguments(ts, Parsed(Apply(f, a), j))
    BY <2>3, <2>4, ArgumentsTake
  <2> QED BY <2>2, <2>5 DEF ReadsAt
<1> QED BY <1>2, <1>3, <1>4 DEF Expression

LEMMA OperatorTokens ==
  ASSUME NEW n \in 2..7, NEW op \in OpsOf[n]
  PROVE  /\ Tok(op) \in Token /\ Tok(op).t = op /\ op # "|>"
         /\ Stops(op, n + 1) /\ (n = 4 => Stops(op, 5)) /\ (n = 5 => Stops(op, 6))
         /\ op \in BinOps /\ (op \in Comparisons <=> n = 4) /\ (op = "++" <=> n = 5)
<1>1. /\ OpsOf[1] = {"|>"} /\ OpsOf[2] = {"or"} /\ OpsOf[3] = {"and"} /\ OpsOf[4] = {"==", "<", "<="}
      /\ OpsOf[5] = {"++"} /\ OpsOf[6] = {"+", "-"} /\ OpsOf[7] = {"*", "/", "%"}
  BY DEF OpsOf, Comparisons
<1>2. n \in {2, 3, 4, 5, 6, 7} OBVIOUS
<1>3. op \in BinOps /\ op \in Terminals /\ op # "|>" /\ (op \in Comparisons <=> n = 4) /\ (op = "++" <=> n = 5)
  <2>1. n \in {2, 3} => op \in {"or", "and"} BY <1>1
  <2>2. n = 4 => op \in Comparisons BY <1>1 DEF Comparisons
  <2>3. n = 5 => op = "++" BY <1>1
  <2>4. n \in {6, 7} => op \in {"+", "-", "*", "/", "%"} BY <1>1
  <2>5. {"or", "and", "++", "+", "-", "*", "/", "%"} \union Comparisons = BinOps BY DEF BinOps
  <2>6. op \in BinOps BY <1>2, <2>1, <2>2, <2>3, <2>4, <2>5
  <2>7. op \in Terminals BY <2>6 DEF Terminals
  <2>8. op # "|>" BY <2>6 DEF BinOps, Comparisons
  <2>9. n # 4 => op \notin Comparisons BY <1>2, <2>1, <2>3, <2>4 DEF Comparisons
  <2>10. n = 4 => op # "++" BY <2>2 DEF Comparisons
  <2>11. n # 5 => op # "++" BY <1>2, <2>1, <2>4, <2>10
  <2> QED BY <2>2, <2>3, <2>6, <2>7, <2>8, <2>9, <2>11
<1>4. op \notin AtomStart BY <1>1, <1>2 DEF AtomStart
<1>5. ASSUME NEW k \in (n + 1)..7 PROVE op \notin OpsOf[k]
  <2>1. CASE n = 2
    <3>1. op = "or" /\ k \in {3, 4, 5, 6, 7} BY <1>1, <2>1
    <3> QED BY <1>1, <3>1
  <2>2. CASE n = 3
    <3>1. op = "and" /\ k \in {4, 5, 6, 7} BY <1>1, <2>2
    <3> QED BY <1>1, <3>1
  <2>3. CASE n = 4
    <3>1. op \in {"==", "<", "<="} /\ k \in {5, 6, 7} BY <1>1, <2>3
    <3> QED BY <1>1, <3>1
  <2>4. CASE n = 5
    <3>1. op = "++" /\ k \in {6, 7} BY <1>1, <2>4
    <3> QED BY <1>1, <3>1
  <2>5. CASE n = 6
    <3>1. op \in {"+", "-"} /\ k = 7 BY <1>1, <2>5
    <3> QED BY <1>1, <3>1
  <2>6. CASE n = 7
    <3> QED BY <2>6
  <2> QED BY <1>2, <2>1, <2>2, <2>3, <2>4, <2>5, <2>6
<1>6. Stops(op, n + 1) BY <1>4, <1>5 DEF Stops
<1>7. Tok(op) \in Token /\ Tok(op).t = op BY <1>3, TokensAreTokens
<1> QED BY <1>3, <1>6, <1>7

(* An operator of level n: its left operand takes the operators of level n *)
(* that come before it, except where the level does not chain or chains to *)
(* the right.                                                              *)
LEMMA InfixStands ==
  ASSUME IsParser, NEW n \in 2..7, NEW op \in OpsOf[n],
         NEW a, NEW s, Standing(a, s, IF n \in {4, 5} THEN n + 1 ELSE n),
         NEW b, NEW r, Standing(b, r, IF n = 5 THEN n ELSE n + 1)
  PROVE  Expression(Node(op, 0, NoName, <<a, b>>), Join(Join(s, One(Tok(op))), r), n)
<1> DEFINE p == Tok(op)
<1> DEFINE e == Node(op, 0, NoName, <<a, b>>)
<1> DEFINE text == Join(Join(s, One(p)), r)
<1>0. p \in Token /\ p.t = op /\ op # "|>" /\ Stops(op, n + 1) BY OperatorTokens
<1> HIDE DEF p, e
<1>1. /\ IsText(s) /\ First(s).t \in AtomStart \union {"not", "-"} /\ IsText(r)
  <2>1. (IF n \in {4, 5} THEN n + 1 ELSE n) \in Nat /\ (IF n \in {4, 5} THEN n + 1 ELSE n) >= 1
        /\ (IF n = 5 THEN n ELSE n + 1) \in Nat
    OBVIOUS
  <2> QED BY <2>1, StandingText
<1>2. IsText(One(p)) BY <1>0, OneToken
<1>3. IsText(Join(s, One(p))) /\ First(Join(s, One(p))) = First(s) BY <1>1, <1>2, TwoTexts
<1>4. IsText(text) /\ First(text) = First(s) BY <1>1, <1>3, TwoTexts
<1>5. Begins(First(s).t, n) BY <1>1 DEF Begins
<1>6. ASSUME NEW ts \in Texts, NEW i \in Position, NEW j \in Position, Spans(ts, i, text, j),
             Stops(Peek(ts, j), IF n = 5 THEN n ELSE n + 1)
      PROVE  ParseLevel(ts, i, n) = IF n \in {4, 5} THEN Parsed(e, j) ELSE ParseRest(ts, Parsed(e, j), n)
  <2>1. PICK k \in Position : /\ Spans(ts, i, s, k) /\ Peek(ts, k) = op
                             /\ k + 1 \in Position /\ Spans(ts, k + 1, r, j)
    BY <1>0, <1>1, <1>6, SpansBetween
  <2>2. ParseLevel(ts, i, n) = ParseRest(ts, Parsed(a, k), n)
    <3>1. CASE n \in {4, 5}
      <4>1. Standing(a, s, n + 1) BY <3>1
      <4> QED BY <1>0, <2>1, <4>1, StandingLeft
    <3>2. CASE n \notin {4, 5}
      <4>1. Standing(a, s, n) BY <3>2
      <4> QED BY <1>0, <2>1, <3>2, <4>1, StandingLeft
    <3> QED BY <3>1, <3>2
  <2> DEFINE m == IF n = 5 THEN n ELSE n + 1
  <2>3. m \in 1..8 /\ m \in Nat OBVIOUS
  <2>4. Standing(b, r, m) /\ Stops(Peek(ts, j), m) BY <1>6
  <2> HIDE DEF m
  <2>5. ParseLevel(ts, k + 1, m) = Parsed(b, j) BY <2>1, <2>3, <2>4, StandingReads
  <2>6. ParseLevel(ts, k + 1, IF n = 5 THEN n ELSE n + 1) = Parsed(b, j) BY <2>5 DEF m
  <2>7. n \in 1..7 OBVIOUS
  <2>8. ParseRest(ts, Parsed(a, k), n) =
          IF n \in {4, 5} THEN Parsed(e, j) ELSE ParseRest(ts, Parsed(e, j), n)
    BY <1>0, <2>1, <2>6, <2>7, RestTakes DEF e
  <2> QED BY <2>2, <2>8
<1>7. ASSUME NEW ts \in Texts, NEW i \in Position, NEW j \in Position, Spans(ts, i, text, j)
      PROVE  ReadsAt(ts, i, j, e, n)
  <2>1. n \in {4, 5} /\ Stops(Peek(ts, j), 5) => ParseLevel(ts, i, n) = Parsed(e, j)
    <3> HAVE n \in {4, 5} /\ Stops(Peek(ts, j), 5)
    <3>1. (IF n = 5 THEN n ELSE n + 1) = 5 OBVIOUS
    <3>2. Stops(Peek(ts, j), IF n = 5 THEN n ELSE n + 1) BY <3>1
    <3> HIDE DEF text
    <3> QED BY <1>6, <1>7, <3>2
  <2>2. n \in {2, 3, 6, 7} /\ Stops(Peek(ts, j), n + 1) => ParseLevel(ts, i, n) = ParseRest(ts, Parsed(e, j), n)
    <3> HAVE n \in {2, 3, 6, 7} /\ Stops(Peek(ts, j), n + 1)
    <3>1. Stops(Peek(ts, j), IF n = 5 THEN n ELSE n + 1) /\ n \notin {4, 5} OBVIOUS
    <3> HIDE DEF text
    <3> QED BY <1>6, <1>7, <3>1
  <2> QED BY <2>1, <2>2 DEF ReadsAt
<1> HIDE DEF text
<1>8. Expression(e, text, n) BY <1>4, <1>5, <1>7 DEF Expression
<1> QED BY <1>8 DEF e, text, p

(* An operator and its right operand in parentheses.                       *)
LEMMA TwoTokens ==
  ASSUME NEW a \in Token, NEW b \in Token
  PROVE  <<a, b>> = Join(One(a), One(b))
<1> DEFINE s == One(a)
<1> DEFINE r == One(b)
<1>1. /\ s \in Seq(Token) /\ Len(s) = 1 /\ s[1] = a
      /\ r \in Seq(Token) /\ Len(r) = 1 /\ r[1] = b
  BY DEF One
<1>2. <<a, b>> \in Seq(Token) /\ Len(<<a, b>>) = 2 /\ <<a, b>>[1] = a /\ <<a, b>>[2] = b OBVIOUS
<1> DEFINE t == <<a, b>>
<1>3. t \in Seq(Token) /\ Len(t) = 2 /\ t[1] = a /\ t[2] = b BY <1>2
<1> HIDE DEF s, r, t
<1>4. s \o r \in Seq(Token) /\ Len(s \o r) = 2 /\ (s \o r)[1] = a /\ (s \o r)[2] = b
  BY <1>1, ConcatProperties
<1>5. \A i \in 1..2 : t[i] = (s \o r)[i] BY <1>3, <1>4
<1>6. t = s \o r BY <1>3, <1>4, <1>5, SeqEqual
<1> QED BY <1>6 DEF t, s, r, Join

LEMMA SectionStands ==
  ASSUME IsParser, NEW op \in Sections, NEW b, NEW r, Standing(b, r, 1)
  PROVE  Expression(Lambda("__x", Node(op, 0, NoName, <<Ident("__x"), b>>)),
                    <<Tok("("), Tok(op)>> \o r \o <<Tok(")")>>, 10)
<1> DEFINE p == Tok("(")
<1> DEFINE o == Tok(op)
<1> DEFINE q == Tok(")")
<1> DEFINE e == Lambda("__x", Node(op, 0, NoName, <<Ident("__x"), b>>))
<1> DEFINE text == Join(Join(Join(One(p), One(o)), r), One(q))
<1>0. p \in Token /\ p.t = "(" /\ q \in Token /\ q.t = ")" /\ o \in Token /\ o.t = op
  BY TokensAreTokens DEF Terminals, Sections, BinOps, Comparisons
<1>2. <<p, o>> \o r \o <<q>> = text
  <2> HIDE DEF p, o
  <2>1. <<p, o>> = Join(One(p), One(o)) BY <1>0, TwoTokens
  <2> QED BY <2>1 DEF Join, One
<1> HIDE DEF p, q, o, e
<1>1. IsText(r) BY StandingText
<1>3. IsText(One(p)) /\ IsText(One(q)) /\ IsText(One(o)) /\ First(One(p)) = p BY <1>0, OneToken
<1>4. IsText(Join(One(p), One(o))) /\ First(Join(One(p), One(o))) = p BY <1>3, TwoTexts
<1>5. IsText(Join(Join(One(p), One(o)), r)) /\ First(Join(Join(One(p), One(o)), r)) = p BY <1>1, <1>4, TwoTexts
<1>6. IsText(text) /\ First(text) = p BY <1>3, <1>5, TwoTexts
<1>7. Begins(p.t, 10) BY <1>0 DEF Begins, AtomStart
<1>8. ASSUME NEW ts \in Texts, NEW i \in Position, NEW j \in Position, Spans(ts, i, text, j)
      PROVE  ReadsAt(ts, i, j, e, 10)
  <2>1. PICK k \in Position : Spans(ts, i, Join(Join(One(p), One(o)), r), k) /\ Peek(ts, k) = ")" /\ j = k + 1
    BY <1>0, <1>5, <1>8, SpansBefore
  <2>2. PICK m \in Position : Spans(ts, i, Join(One(p), One(o)), m) /\ Spans(ts, m, r, k)
    BY <1>1, <1>4, <2>1, SpansJoin
  <2>3. Peek(ts, i) = "(" /\ i + 1 \in Position /\ Spans(ts, i + 1, One(o), m) BY <1>0, <1>3, <2>2, SpansAfter
  <2>4. Peek(ts, i + 1) = op /\ m = (i + 1) + 1 BY <1>0, <2>3, SpansOne
  <2>5. Ends(")") BY DEF Ends, Stops, OpsOf, AtomStart, Comparisons
  <2>6. ParseLevel(ts, (i + 1) + 1, 1) = Parsed(b, k) BY <2>1, <2>2, <2>4, <2>5, StandingReads
  <2>7. ParseParen(ts, i + 1) = Parsed(e, j) BY <2>1, <2>4, <2>6, SectionReads DEF e
  <2>8. ParseAtom(ts, i) = Parsed(e, j) BY <2>3, <2>7, AtomReads
  <2> QED BY <2>8 DEF ReadsAt
<1> HIDE DEF text
<1>9. Expression(e, text, 10) BY <1>6, <1>7, <1>8 DEF Expression
<1> QED BY <1>2, <1>9 DEF e, p, o, q

LEMMA ThreeTokens ==
  ASSUME NEW a \in Token, NEW b \in Token, NEW c \in Token
  PROVE  <<a, b, c>> = Join(One(a), Join(One(b), One(c)))
<1> DEFINE s == One(a)
<1> DEFINE r == Join(One(b), One(c))
<1> DEFINE t == <<a, b, c>>
<1>1. s \in Seq(Token) /\ Len(s) = 1 /\ s[1] = a BY DEF One
<1>2. r = <<b, c>> BY TwoTokens
<1>3. r \in Seq(Token) /\ Len(r) = 2 /\ r[1] = b /\ r[2] = c
  <2> HIDE DEF r
  <2> QED BY <1>2
<1>4. t \in Seq(Token) /\ Len(t) = 3 /\ t[1] = a /\ t[2] = b /\ t[3] = c OBVIOUS
<1> HIDE DEF s, r, t
<1>5. s \o r \in Seq(Token) /\ Len(s \o r) = 3
  <2>1. s \o r \in Seq(Token) BY <1>1, <1>3, ConcatProperties
  <2>2. Len(s \o r) = Len(s) + Len(r) BY <1>1, <1>3, ConcatProperties
  <2> QED BY <1>1, <1>3, <2>1, <2>2
<1>8. (s \o r)[1] = a
  <2>1. 1 \in 1..Len(s) BY <1>1
  <2>2. \A i \in 1..Len(s) : (s \o r)[i] = s[i] BY <1>1, <1>3, JoinedTokens
  <2> QED BY <1>1, <2>1, <2>2
<1>9. (s \o r)[2] = b
  <2>1. 1 \in 1..Len(r) BY <1>3
  <2>2. \A i \in 1..Len(r) : (s \o r)[Len(s) + i] = r[i] BY <1>1, <1>3, JoinedTokens
  <2>3. (s \o r)[Len(s) + 1] = b BY <1>3, <2>1, <2>2
  <2>4. Len(s) + 1 = 2 BY <1>1
  <2> QED BY <2>3, <2>4
<1>10. (s \o r)[3] = c
  <2>1. 2 \in 1..Len(r) BY <1>3
  <2>2. \A i \in 1..Len(r) : (s \o r)[Len(s) + i] = r[i] BY <1>1, <1>3, JoinedTokens
  <2>3. (s \o r)[Len(s) + 2] = c BY <1>3, <2>1, <2>2
  <2>4. Len(s) + 2 = 3 BY <1>1
  <2> QED BY <2>3, <2>4
<1>6. ASSUME NEW i \in 1..3 PROVE t[i] = (s \o r)[i]
  <2>1. i = 1 \/ i = 2 \/ i = 3 OBVIOUS
  <2> QED BY <2>1, <1>4, <1>8, <1>9, <1>10
<1>7. t = s \o r BY <1>4, <1>5, <1>6, SeqEqual
<1> QED BY <1>7 DEF t, s, r, Join

(* Three tokens, then a text.                                              *)
LEMMA AfterThree ==
  ASSUME NEW a \in Token, NEW b \in Token, NEW c \in Token, NEW s, IsText(s)
  PROVE  /\ IsText(<<a, b, c>> \o s) /\ First(<<a, b, c>> \o s) = a
         /\ \A ts \in Texts : \A i, j : Spans(ts, i, <<a, b, c>> \o s, j) =>
              /\ i \in Position /\ i + 1 \in Position /\ i + 3 \in Position
              /\ Peek(ts, i) = a.t /\ Peek(ts, i + 1) = b.t /\ ts[i + 1] = b
              /\ Peek(ts, i + 2) = c.t /\ Spans(ts, i + 3, s, j)
<1> DEFINE u == Join(One(b), One(c))
<1> DEFINE text == Join(Join(One(a), u), s)
<1>1. <<a, b, c>> \o s = text BY ThreeTokens DEF Join
<1>2. /\ IsText(One(a)) /\ IsText(One(b)) /\ IsText(One(c)) /\ First(One(a)) = a
  BY OneToken
<1>3. IsText(u) BY <1>2, TwoTexts
<1>4. IsText(Join(One(a), u)) /\ First(Join(One(a), u)) = a
  <2> HIDE DEF u
  <2> QED BY <1>2, <1>3, TwoTexts
<1>5. IsText(text) /\ First(text) = a
  <2> HIDE DEF u
  <2> QED BY <1>4, TwoTexts
<1>6. ASSUME NEW ts \in Texts, NEW i, NEW j, Spans(ts, i, text, j)
      PROVE  /\ i \in Position /\ i + 1 \in Position /\ i + 3 \in Position
             /\ Peek(ts, i) = a.t /\ Peek(ts, i + 1) = b.t /\ ts[i + 1] = b
             /\ Peek(ts, i + 2) = c.t /\ Spans(ts, i + 3, s, j)
  <2>1. PICK k \in Position : Spans(ts, i, Join(One(a), u), k) /\ Spans(ts, k, s, j)
    <3> HIDE DEF u
    <3> QED BY <1>4, <1>6, SpansJoin
  <2>2. /\ i \in Position /\ Peek(ts, i) = a.t /\ i + 1 \in Position /\ Spans(ts, i + 1, u, k)
    <3> HIDE DEF u
    <3> QED BY <1>3, <2>1, SpansAfter
  <2>3. /\ Peek(ts, i + 1) = b.t /\ ts[i + 1] = b /\ (i + 1) + 1 \in Position
        /\ Spans(ts, (i + 1) + 1, One(c), k)
    BY <1>2, <2>2, SpansAfter
  <2>4. Peek(ts, (i + 1) + 1) = c.t /\ k = ((i + 1) + 1) + 1 BY <2>3, SpansOne
  <2>5. (i + 1) + 1 = i + 2 /\ ((i + 1) + 1) + 1 = i + 3 BY <2>2 DEF Position
  <2> HIDE DEF u
  <2> QED BY <2>1, <2>2, <2>3, <2>4, <2>5
<1> HIDE DEF text
<1> QED BY <1>1, <1>5, <1>6

LEMMA LambdaStands ==
  ASSUME IsParser, NEW x \in STRING, NEW e, NEW s, Standing(e, s, 0)
  PROVE  Expression(Node("lambda", 0, x, <<e>>), <<Tok("lambda"), Id(x), Tok("->")>> \o s, 0)
<1> DEFINE a == Tok("lambda")
<1> DEFINE b == Id(x)
<1> DEFINE c == Tok("->")
<1> DEFINE text == <<a, b, c>> \o s
<1> DEFINE f == Node("lambda", 0, x, <<e>>)
<1>0. /\ a \in Token /\ a.t = "lambda" /\ c \in Token /\ c.t = "->"
      /\ b \in Token /\ b.t = "id" /\ b.x = x
  BY TokensAreTokens DEF Terminals
<1> HIDE DEF a, b, c, f
<1>1. IsText(s) BY StandingText
<1>2. IsText(text) /\ First(text) = a BY <1>0, <1>1, AfterThree
<1>3. Begins(a.t, 0) BY <1>0 DEF Begins
<1>4. ASSUME NEW ts \in Texts, NEW i \in Position, NEW j \in Position, Spans(ts, i, text, j),
             Ends(Peek(ts, j))
      PROVE  ParseAtom(ts, i) = Parsed(f, j)
  <2>1. /\ i + 1 \in Position /\ Peek(ts, i) = "lambda" /\ Peek(ts, i + 1) = "id" /\ ts[i + 1] = b
        /\ Peek(ts, i + 2) = "->" /\ Spans(ts, i + 3, s, j)
    BY <1>0, <1>1, <1>4, AfterThree
  <2>2. (i + 1) + 1 = i + 2 /\ (i + 1) + 2 = i + 3 BY DEF Position
  <2>3. ParseLevel(ts, i + 3, 1) = Parsed(e, j) BY <1>4, <2>1, StandingReads
  <2>4. ParseLambda(ts, i + 1) = Parsed(Lambda(ts[i + 1].x, e), j) BY <2>1, <2>2, <2>3, LambdaReads
  <2>5. Lambda(ts[i + 1].x, e) = f BY <1>0, <2>1 DEF Lambda, f
  <2> QED BY <2>1, <2>4, <2>5, AtomReads
<1>5. ASSUME NEW ts \in Texts, NEW i \in Position, NEW j \in Position, Spans(ts, i, text, j)
      PROVE  ReadsAt(ts, i, j, f, 0)
  <2> HIDE DEF text
  <2> QED BY <1>4, <1>5 DEF ReadsAt
<1> HIDE DEF text
<1>6. Expression(f, text, 0) BY <1>2, <1>3, <1>5 DEF Expression
<1> QED BY <1>6 DEF f, text, a, b, c

LEMMA LetStands ==
  ASSUME IsParser, NEW x \in STRING, NEW d, NEW s, Standing(d, s, 1), NEW e, NEW r, Standing(e, r, 0)
  PROVE  Expression(Node("let", 0, x, <<d, e>>),
                    <<Tok("let"), Id(x), Tok("=")>> \o s \o <<Tok("in")>> \o r, 0)
<1> DEFINE a == Tok("let")
<1> DEFINE b == Id(x)
<1> DEFINE c == Tok("=")
<1> DEFINE q == Tok("in")
<1> DEFINE u == <<a, b, c>> \o s
<1> DEFINE text == Join(Join(u, One(q)), r)
<1> DEFINE f == Node("let", 0, x, <<d, e>>)
<1>0. /\ a \in Token /\ a.t = "let" /\ c \in Token /\ c.t = "=" /\ q \in Token /\ q.t = "in"
      /\ b \in Token /\ b.t = "id" /\ b.x = x
  BY TokensAreTokens DEF Terminals
<1> HIDE DEF a, b, c, q, f
<1>1. IsText(s) /\ IsText(r) BY StandingText
<1>2. IsText(u) /\ First(u) = a BY <1>0, <1>1, AfterThree
<1>3. IsText(One(q)) BY <1>0, OneToken
<1> HIDE DEF u
<1>4. IsText(Join(u, One(q))) /\ First(Join(u, One(q))) = a BY <1>2, <1>3, TwoTexts
<1>5. IsText(text) /\ First(text) = a BY <1>1, <1>4, TwoTexts
<1>6. Begins(a.t, 0) BY <1>0 DEF Begins
<1>7. ASSUME NEW ts \in Texts, NEW i \in Position, NEW j \in Position, Spans(ts, i, text, j),
             Ends(Peek(ts, j))
      PROVE  ParseAtom(ts, i) = Parsed(f, j)
  <2>1. PICK k \in Position : /\ Spans(ts, i, u, k) /\ Peek(ts, k) = "in"
                             /\ k + 1 \in Position /\ Spans(ts, k + 1, r, j)
    BY <1>0, <1>1, <1>2, <1>7, SpansBetween
  <2>2. /\ i + 1 \in Position /\ Peek(ts, i) = "let" /\ Peek(ts, i + 1) = "id" /\ ts[i + 1] = b
        /\ Peek(ts, i + 2) = "=" /\ Spans(ts, i + 3, s, k)
    BY <1>0, <1>1, <2>1, AfterThree DEF u
  <2>3. (i + 1) + 1 = i + 2 /\ (i + 1) + 2 = i + 3 BY DEF Position
  <2>4. Ends("in") BY DEF Ends, Stops, OpsOf, AtomStart, Comparisons
  <2>5. ParseLevel(ts, i + 3, 1) = Parsed(d, k) BY <2>1, <2>2, <2>4, StandingReads
  <2>6. ParseLevel(ts, k + 1, 1) = Parsed(e, j) BY <1>7, <2>1, StandingReads
  <2>7. ParseLet(ts, i + 1) = Parsed(Node("let", 0, ts[i + 1].x, <<d, e>>), j)
    BY <2>1, <2>2, <2>3, <2>5, <2>6, LetReads
  <2>8. Node("let", 0, ts[i + 1].x, <<d, e>>) = f BY <1>0, <2>2 DEF f
  <2> QED BY <2>2, <2>7, <2>8, AtomReads
<1>8. ASSUME NEW ts \in Texts, NEW i \in Position, NEW j \in Position, Spans(ts, i, text, j)
      PROVE  ReadsAt(ts, i, j, f, 0)
  <2> HIDE DEF text
  <2> QED BY <1>7, <1>8 DEF ReadsAt
<1> HIDE DEF text
<1>9. Expression(f, text, 0) BY <1>5, <1>6, <1>8 DEF Expression
<1> QED BY <1>9 DEF f, text, u, a, b, c, q, Join, One

LEMMA IfStands ==
  ASSUME IsParser, NEW c, NEW s, Standing(c, s, 0), NEW d, NEW r, Standing(d, r, 0),
         NEW e, NEW t, Standing(e, t, 0)
  PROVE  Expression(Node("if", 0, NoName, <<c, d, e>>),
                    <<Tok("if")>> \o s \o <<Tok("then")>> \o r \o <<Tok("else")>> \o t, 0)
<1> DEFINE p == Tok("if")
<1> DEFINE q == Tok("then")
<1> DEFINE o == Tok("else")
<1> DEFINE u == Join(One(p), s)
<1> DEFINE v == Join(Join(u, One(q)), r)
<1> DEFINE text == Join(Join(v, One(o)), t)
<1> DEFINE f == Node("if", 0, NoName, <<c, d, e>>)
<1>0. /\ p \in Token /\ p.t = "if" /\ q \in Token /\ q.t = "then" /\ o \in Token /\ o.t = "else"
  BY TokensAreTokens DEF Terminals
<1> HIDE DEF p, q, o, f
<1>1. IsText(s) /\ IsText(r) /\ IsText(t) BY StandingText
<1>2. IsText(One(p)) /\ First(One(p)) = p /\ IsText(One(q)) /\ IsText(One(o)) BY <1>0, OneToken
<1>3. IsText(u) /\ First(u) = p BY <1>1, <1>2, TwoTexts
<1> HIDE DEF u
<1>4. IsText(Join(u, One(q))) /\ First(Join(u, One(q))) = p BY <1>2, <1>3, TwoTexts
<1>5. IsText(v) /\ First(v) = p BY <1>1, <1>4, TwoTexts
<1> HIDE DEF v
<1>6. IsText(Join(v, One(o))) /\ First(Join(v, One(o))) = p BY <1>2, <1>5, TwoTexts
<1>7. IsText(text) /\ First(text) = p BY <1>1, <1>6, TwoTexts
<1>8. Begins(p.t, 0) BY <1>0 DEF Begins
<1>9. ASSUME NEW ts \in Texts, NEW i \in Position, NEW j \in Position, Spans(ts, i, text, j),
             Ends(Peek(ts, j))
      PROVE  ParseAtom(ts, i) = Parsed(f, j)
  <2>1. PICK k \in Position : /\ Spans(ts, i, v, k) /\ Peek(ts, k) = "else"
                             /\ k + 1 \in Position /\ Spans(ts, k + 1, t, j)
    BY <1>0, <1>1, <1>5, <1>9, SpansBetween
  <2>2. PICK m \in Position : /\ Spans(ts, i, u, m) /\ Peek(ts, m) = "then"
                             /\ m + 1 \in Position /\ Spans(ts, m + 1, r, k)
    BY <1>0, <1>1, <1>3, <2>1, SpansBetween DEF v
  <2>3. Peek(ts, i) = "if" /\ i + 1 \in Position /\ Spans(ts, i + 1, s, m)
    BY <1>0, <1>1, <2>2, SpansAfter DEF u
  <2>4. Ends("then") /\ Ends("else") BY DEF Ends, Stops, OpsOf, AtomStart, Comparisons
  <2>5. ParseLevel(ts, i + 1, 1) = Parsed(c, m) BY <2>2, <2>3, <2>4, StandingReads
  <2>6. ParseLevel(ts, m + 1, 1) = Parsed(d, k) BY <2>1, <2>2, <2>4, StandingReads
  <2>7. ParseLevel(ts, k + 1, 1) = Parsed(e, j) BY <1>9, <2>1, StandingReads
  <2>8. ParseIf(ts, i + 1) = Parsed(f, j) BY <2>1, <2>2, <2>3, <2>5, <2>6, <2>7, IfReads DEF f
  <2> QED BY <2>3, <2>8, AtomReads
<1>10. ASSUME NEW ts \in Texts, NEW i \in Position, NEW j \in Position, Spans(ts, i, text, j)
       PROVE  ReadsAt(ts, i, j, f, 0)
  <2> HIDE DEF text
  <2> QED BY <1>9, <1>10 DEF ReadsAt
<1> HIDE DEF text
<1>11. Expression(f, text, 0) BY <1>7, <1>8, <1>10 DEF Expression
<1> QED BY <1>11 DEF f, text, v, u, p, q, o, Join, One

-----------------------------------------------------------------------------
(* Matches *)

(* The sequence that FlattenSeq defines by recursion exists.               *)
LEMMA FlattenDefined ==
  ASSUME NEW seqs, Len(seqs) \in Nat \ {0}
  PROVE  \E f : /\ f[1] = seqs[1]
                /\ \A i \in 2..Len(seqs) : f[i] = f[i - 1] \o seqs[i]
                /\ FlattenSeq(seqs) = f[Len(seqs)]
<1> DEFINE Q(k, u) == u = [i \in 1..k |-> IF i = 1 THEN seqs[i] ELSE u[i - 1] \o seqs[i]]
<1> DEFINE S == {k \in Nat : \E u : Q(k, u)}
<1>1. 0 \in S
  <2>1. Q(0, [i \in 1..0 |-> seqs[i]]) OBVIOUS
  <2>2. QED BY <2>1
<1>2. ASSUME NEW k \in Nat, k \in S
      PROVE  k + 1 \in S
  <2>1. PICK f : Q(k, f) BY <1>2
  <2> DEFINE g == [i \in 1..(k + 1) |->
                     IF i = k + 1 THEN IF i = 1 THEN seqs[i] ELSE f[k] \o seqs[i] ELSE f[i]]
  <2>2. ASSUME NEW i \in 1..(k + 1)
        PROVE  g[i] = IF i = 1 THEN seqs[i] ELSE g[i - 1] \o seqs[i]
    <3>1. CASE i = k + 1 /\ i # 1
      <4>1. i - 1 = k /\ i - 1 \in 1..(k + 1) /\ i - 1 # k + 1 BY <3>1
      <4>2. g[i - 1] = f[k] BY <4>1
      <4>3. g[i] = f[k] \o seqs[i] BY <3>1
      <4> HIDE DEF g
      <4>4. QED BY <3>1, <4>2, <4>3
    <3>2. CASE i = k + 1 /\ i = 1
      BY <3>2
    <3>3. CASE i \in 1..k
      <4>1. f[i] = IF i = 1 THEN seqs[i] ELSE f[i - 1] \o seqs[i] BY <2>1, <3>3
      <4>2. g[i] = f[i] /\ (i # 1 => g[i - 1] = f[i - 1]) BY <3>3
      <4> HIDE DEF g
      <4>3. QED BY <4>1, <4>2
    <3>4. QED BY <3>1, <3>2, <3>3
  <2>3. Q(k + 1, g)
    <3> HIDE DEF g
    <3>1. g = [i \in 1..(k + 1) |-> g[i]] BY DEF g
    <3>2. QED BY <3>1, <2>2
  <2>4. \E u : Q(k + 1, u) BY <2>3
  <2> HIDE DEF Q
  <2>5. QED BY <2>4
<1> HIDE DEF S
<1>3. Len(seqs) \in S BY <1>1, <1>2, Induction
<1>4. \E u : Q(Len(seqs), u) BY <1>3 DEF S
<1> DEFINE h == CHOOSE u : Q(Len(seqs), u)
<1>5. Q(Len(seqs), h) BY <1>4
<1>6. FlattenSeq(seqs) = h[Len(seqs)] BY DEF FlattenSeq
<1> HIDE DEF h
<1>7. h[1] = seqs[1] BY <1>5
<1>8. ASSUME NEW i \in 2..Len(seqs) PROVE h[i] = h[i - 1] \o seqs[i]
  <2>1. i \in 1..Len(seqs) /\ i # 1 OBVIOUS
  <2> QED BY <1>5, <2>1
<1>9. QED BY <1>6, <1>7, <1>8

LEMMA PatternReads ==
  ASSUME NEW k \in Patterns, NEW v \in NumbersOf(k), NEW x \in NamesIn(k), NEW es
  PROVE  LET p == PatternText(Node(k, v, x, es))
         IN /\ IsText(p)
            /\ \A ts \in Texts : \A i, j : Spans(ts, i, p, j) =>
                 ParsePattern(ts, i) = Parsed(Node(k, v, x, <<>>), j)
<1> DEFINE p == PatternText(Node(k, v, x, es))
<1> SUFFICES /\ IsText(p)
             /\ \A ts \in Texts : \A i, j : Spans(ts, i, p, j) =>
                  ParsePattern(ts, i) = Parsed(Node(k, v, x, <<>>), j)
  OBVIOUS
<1> DEFINE n == Node(k, v, x, es)
<1>0. n.k = k /\ n.v = v /\ n.x = x BY DEF Node
<1>1. k \in {"_", "intpat", "boolpat", "nonepat", "somepat", "varpat"} BY DEF Patterns
<1>2. ASSUME NEW t \in {"_", "true", "false", "None", "Some"} PROVE Tok(t) \in Token /\ Tok(t).t = t
  BY TokensAreTokens DEF Terminals
<1> HIDE DEF n
<1>3. CASE k = "_"
  <2> DEFINE q == Tok("_")
  <2>0. q \in Token /\ q.t = "_" BY <1>2
  <2>1. p = One(q) BY <1>0, <1>3 DEF PatternText, One, n
  <2>2. v = 0 /\ x = NoName BY <1>3 DEF NumbersOf, NamesIn
  <2> HIDE DEF q
  <2>3. IsText(p) BY <2>0, <2>1, OneToken
  <2>4. ASSUME NEW ts \in Texts, NEW i, NEW j, Spans(ts, i, p, j)
        PROVE  ParsePattern(ts, i) = Parsed(Node(k, v, x, <<>>), j)
    <3>1. q \in Token BY <2>0
    <3>2. j = i + 1 /\ Peek(ts, i) = q.t BY <2>1, <2>4, <3>1, SpansOne
    <3>3. Peek(ts, i) = "_" BY <2>0, <3>2, Zenon
    <3> QED BY <1>3, <2>2, <3>2, <3>3 DEF ParsePattern
  <2> QED BY <2>3, <2>4
<1>4. CASE k = "intpat"
  <2>1. p = One(Num(v)) BY <1>0, <1>4 DEF PatternText, One, n
  <2>2. v \in Nat /\ x = NoName BY <1>4 DEF NumbersOf, NamesIn
  <2>3. Num(v) \in Token /\ Num(v).t = "num" /\ Num(v).v = v BY <2>2, TokensAreTokens
  <2>4. IsText(p) BY <2>1, <2>3, OneToken
  <2>5. ASSUME NEW ts \in Texts, NEW i, NEW j, Spans(ts, i, p, j)
        PROVE  ParsePattern(ts, i) = Parsed(Node(k, v, x, <<>>), j)
    <3>1. j = i + 1 /\ Peek(ts, i) = "num" /\ ts[i].v = v BY <2>1, <2>3, <2>5, SpansOne
    <3> QED BY <1>4, <2>2, <3>1 DEF ParsePattern
  <2> QED BY <2>4, <2>5
<1>5. CASE k = "boolpat"
  <2>1. p = One(Tok(IF v = 1 THEN "true" ELSE "false")) BY <1>0, <1>5 DEF PatternText, One, n
  <2>2. v \in {0, 1} /\ x = NoName BY <1>5 DEF NumbersOf, NamesIn
  <2> DEFINE t == IF v = 1 THEN "true" ELSE "false"
  <2>3. Tok(t) \in Token /\ Tok(t).t = t /\ t \in {"true", "false"} BY <1>2
  <2>4. IsText(p) BY <2>1, <2>3, OneToken
  <2>5. ASSUME NEW ts \in Texts, NEW i, NEW j, Spans(ts, i, p, j)
        PROVE  ParsePattern(ts, i) = Parsed(Node(k, v, x, <<>>), j)
    <3>1. j = i + 1 /\ Peek(ts, i) = t BY <2>1, <2>3, <2>5, SpansOne
    <3>2. CASE v = 1
      <4>1. Peek(ts, i) = "true" BY <3>1, <3>2
      <4> QED BY <1>5, <2>2, <3>1, <3>2, <4>1 DEF ParsePattern
    <3>3. CASE v = 0
      <4>1. Peek(ts, i) = "false" BY <3>1, <3>3
      <4> QED BY <1>5, <2>2, <3>1, <3>3, <4>1 DEF ParsePattern
    <3> QED BY <2>2, <3>2, <3>3
  <2> QED BY <2>4, <2>5
<1>6. CASE k = "nonepat"
  <2>1. p = One(Tok("None")) BY <1>0, <1>6 DEF PatternText, One, n
  <2>2. v = 0 /\ x = NoName BY <1>6 DEF NumbersOf, NamesIn
  <2>3. IsText(p) BY <1>2, <2>1, OneToken
  <2>4. ASSUME NEW ts \in Texts, NEW i, NEW j, Spans(ts, i, p, j)
        PROVE  ParsePattern(ts, i) = Parsed(Node(k, v, x, <<>>), j)
    <3>0. Tok("None") \in Token /\ Tok("None").t = "None" BY <1>2
    <3>1. j = i + 1 /\ Peek(ts, i) = "None" BY <2>1, <2>4, <3>0, SpansOne
    <3> QED BY <1>6, <2>2, <3>1 DEF ParsePattern
  <2> QED BY <2>3, <2>4
<1>7. CASE k = "somepat"
  <2>0. x \in STRING /\ v = 0 BY <1>7 DEF NumbersOf, NamesIn
  <2>1. Tok("Some") \in Token /\ Tok("Some").t = "Some" /\ Id(x) \in Token /\ Id(x).t = "id" /\ Id(x).x = x
    BY <1>2, <2>0, TokensAreTokens
  <2>2. p = Join(One(Tok("Some")), One(Id(x)))
    <3>1. p = <<Tok("Some"), Id(x)>> BY <1>0, <1>7 DEF PatternText, n
    <3> QED BY <2>1, <3>1, TwoTokens
  <2>3. IsText(One(Tok("Some"))) /\ IsText(One(Id(x))) BY <2>1, OneToken
  <2>4. IsText(p) BY <2>2, <2>3, TwoTexts
  <2>5. ASSUME NEW ts \in Texts, NEW i, NEW j, Spans(ts, i, p, j)
        PROVE  ParsePattern(ts, i) = Parsed(Node(k, v, x, <<>>), j)
    <3>1. i \in Position /\ Peek(ts, i) = "Some" /\ Spans(ts, i + 1, One(Id(x)), j)
      BY <2>1, <2>2, <2>3, <2>5, SpansAfter
    <3>2. Peek(ts, i + 1) = "id" /\ ts[i + 1] = Id(x) /\ j = (i + 1) + 1 BY <2>1, <3>1, SpansOne
    <3>3. j = i + 2 /\ ts[i + 1].x = x BY <2>1, <3>1, <3>2 DEF Position
    <3> QED BY <1>7, <2>0, <3>1, <3>2, <3>3 DEF ParsePattern
  <2> QED BY <2>4, <2>5
<1>8. CASE k = "varpat"
  <2>0. x \in STRING /\ v = 0 BY <1>8 DEF NumbersOf, NamesIn
  <2>1. Id(x) \in Token /\ Id(x).t = "id" /\ Id(x).x = x BY <2>0, TokensAreTokens
  <2>2. p = One(Id(x)) BY <1>0, <1>8 DEF PatternText, One, n
  <2>3. IsText(p) BY <2>1, <2>2, OneToken
  <2>4. ASSUME NEW ts \in Texts, NEW i, NEW j, Spans(ts, i, p, j)
        PROVE  ParsePattern(ts, i) = Parsed(Node(k, v, x, <<>>), j)
    <3>1. j = i + 1 /\ Peek(ts, i) = "id" /\ ts[i].x = x BY <2>1, <2>2, <2>4, SpansOne
    <3> QED BY <1>8, <2>0, <3>1 DEF ParsePattern
  <2> QED BY <2>3, <2>4
<1> HIDE DEF p
<1> QED BY <1>1, <1>3, <1>4, <1>5, <1>6, <1>7, <1>8

(* An arm adds itself to the parts of the match.                           *)
Arm(a, s) ==
  /\ IsText(s) /\ First(s).t = "|"
  /\ \A ts \in Texts, i \in Position, j \in Position : Spans(ts, i, s, j) /\ Stops(Peek(ts, j), 1) =>
       \A es : ParseArms(ts, Parsed(Node("match", 0, NoName, es), i))
                 = ParseArms(ts, Parsed(Node("match", 0, NoName, Append(es, a)), j))

LEMMA ArmStands ==
  ASSUME IsParser, NEW k \in Patterns, NEW v \in NumbersOf(k), NEW x \in NamesIn(k),
         NEW e, NEW s, Standing(e, s, 1)
  PROVE  Arm(Node(k, v, x, <<e>>),
             <<Tok("|")>> \o PatternText(Node(k, v, x, <<e>>)) \o <<Tok("->")>> \o s)
<1> DEFINE a == Node(k, v, x, <<e>>)
<1> DEFINE p == Tok("|")
<1> DEFINE q == Tok("->")
<1> DEFINE r == PatternText(a)
<1> DEFINE u == Join(One(p), r)
<1> DEFINE text == Join(Join(u, One(q)), s)
<1>0. p \in Token /\ p.t = "|" /\ q \in Token /\ q.t = "->" BY TokensAreTokens DEF Terminals
<1>1. IsText(r) /\ \A ts \in Texts : \A i, j : Spans(ts, i, r, j) =>
                     ParsePattern(ts, i) = Parsed(Node(k, v, x, <<>>), j)
  BY PatternReads
<1> HIDE DEF p, q, a, r
<1>2. IsText(s) /\ IsText(One(p)) /\ First(One(p)) = p /\ IsText(One(q)) BY <1>0, OneToken, StandingText
<1>3. IsText(u) /\ First(u) = p BY <1>1, <1>2, TwoTexts
<1> HIDE DEF u
<1>4. IsText(Join(u, One(q))) /\ First(Join(u, One(q))) = p BY <1>2, <1>3, TwoTexts
<1>5. IsText(text) /\ First(text) = p BY <1>2, <1>4, TwoTexts
<1>6. ASSUME NEW ts \in Texts, NEW i \in Position, NEW j \in Position, Spans(ts, i, text, j),
             Stops(Peek(ts, j), 1), NEW es
      PROVE  ParseArms(ts, Parsed(Node("match", 0, NoName, es), i))
               = ParseArms(ts, Parsed(Node("match", 0, NoName, Append(es, a)), j))
  <2>1. PICK m \in Position : /\ Spans(ts, i, u, m) /\ Peek(ts, m) = "->"
                             /\ m + 1 \in Position /\ Spans(ts, m + 1, s, j)
    BY <1>0, <1>2, <1>3, <1>6, SpansBetween
  <2>2. Peek(ts, i) = "|" /\ i + 1 \in Position /\ Spans(ts, i + 1, r, m)
    BY <1>0, <1>1, <2>1, SpansAfter DEF u
  <2>3. ParsePattern(ts, i + 1) = Parsed(Node(k, v, x, <<>>), m) BY <1>1, <2>2
  <2>4. ParseLevel(ts, m + 1, 1) = Parsed(e, j) BY <1>6, <2>1, StandingReads
  <2> QED BY <2>1, <2>2, <2>3, <2>4, ArmsTake DEF a
<1> HIDE DEF text
<1>7. Arm(a, text) BY <1>0, <1>5, <1>6 DEF Arm
<1> QED BY <1>7 DEF a, text, u, p, q, r, Join, One

(* Arms, one after the other.                                              *)
LEMMA ArmsStand ==
  ASSUME IsParser, NEW n \in Nat \ {0}, NEW S, NEW es \in Seq(S), Len(es) = n + 1,
         NEW seqs, Len(seqs) = n, \A i \in 1..n : Arm(es[i + 1], seqs[i])
  PROVE  LET t == FlattenSeq(seqs)
         IN /\ IsText(t) /\ First(t).t = "|"
            /\ \A ts \in Texts, i \in Position, j \in Position : Spans(ts, i, t, j) /\ Stops(Peek(ts, j), 1) =>
                 ParseArms(ts, Parsed(Node("match", 0, NoName, <<es[1]>>), i))
                   = ParseArms(ts, Parsed(Node("match", 0, NoName, es), j))
<1> DEFINE Reads(t, m) ==
      /\ IsText(t) /\ First(t).t = "|"
      /\ \A ts \in Texts, i \in Position, j \in Position : Spans(ts, i, t, j) /\ Stops(Peek(ts, j), 1) =>
           ParseArms(ts, Parsed(Node("match", 0, NoName, <<es[1]>>), i))
             = ParseArms(ts, Parsed(Node("match", 0, NoName, SubSeq(es, 1, m + 1)), j))
<1>1. PICK f : /\ f[1] = seqs[1]
               /\ \A i \in 2..n : f[i] = f[i - 1] \o seqs[i]
               /\ FlattenSeq(seqs) = f[n]
  BY FlattenDefined
<1>2. ASSUME NEW m \in 1..n
      PROVE  Append(SubSeq(es, 1, m), es[m + 1]) = SubSeq(es, 1, m + 1)
  <2> DEFINE s == SubSeq(es, 1, m)
  <2> DEFINE r == SubSeq(es, 1, m + 1)
  <2>1. /\ s \in Seq(S) /\ Len(s) = m /\ \A i \in 1..m : s[i] = es[i]
        /\ r \in Seq(S) /\ Len(r) = m + 1 /\ \A i \in 1..(m + 1) : r[i] = es[i]
    BY SubSeqProperties
  <2>2. es[m + 1] \in S BY ElementOfSeq
  <2> HIDE DEF s, r
  <2>3. /\ Append(s, es[m + 1]) \in Seq(S) /\ Len(Append(s, es[m + 1])) = m + 1
        /\ \A i \in 1..m : Append(s, es[m + 1])[i] = s[i]
        /\ Append(s, es[m + 1])[m + 1] = es[m + 1]
    BY <2>1, <2>2, AppendProperties
  <2>4. \A i \in 1..(m + 1) : Append(s, es[m + 1])[i] = r[i] BY <2>1, <2>3
  <2> QED BY <2>1, <2>3, <2>4, SeqEqual DEF s, r
<1>3. SubSeq(es, 1, 1) = <<es[1]>>
  <2> DEFINE s == SubSeq(es, 1, 1)
  <2> DEFINE r == <<es[1]>>
  <2>1. es[1] \in S BY ElementOfSeq
  <2>2. s \in Seq(S) /\ Len(s) = 1 /\ s[1] = es[1] BY SubSeqProperties
  <2>3. r \in Seq(S) /\ Len(r) = 1 /\ r[1] = es[1] BY <2>1
  <2> HIDE DEF s, r
  <2>4. s = r BY <2>2, <2>3, SeqEqual
  <2> QED BY <2>4 DEF s, r
<1>4. SubSeq(es, 1, n + 1) = es
  <2> DEFINE r == SubSeq(es, 1, n + 1)
  <2>1. r \in Seq(S) /\ Len(r) = n + 1 /\ \A i \in 1..(n + 1) : r[i] = es[i] BY SubSeqProperties
  <2> QED BY <2>1, SeqEqual
<1> DEFINE N == {m \in Nat : m < n => Reads(f[m + 1], m + 1)}
<1>5. 0 \in N
  <2>1. Arm(es[1 + 1], seqs[1]) OBVIOUS
  <2>2. IsText(f[1]) /\ First(f[1]).t = "|" BY <1>1, <2>1 DEF Arm
  <2>3. ASSUME NEW ts \in Texts, NEW i \in Position, NEW j \in Position,
               Spans(ts, i, f[1], j), Stops(Peek(ts, j), 1)
        PROVE  ParseArms(ts, Parsed(Node("match", 0, NoName, <<es[1]>>), i))
                 = ParseArms(ts, Parsed(Node("match", 0, NoName, SubSeq(es, 1, 1 + 1)), j))
    <3>1. ParseArms(ts, Parsed(Node("match", 0, NoName, SubSeq(es, 1, 1)), i))
            = ParseArms(ts, Parsed(Node("match", 0, NoName, Append(SubSeq(es, 1, 1), es[1 + 1])), j))
      BY <1>1, <2>1, <2>3 DEF Arm
    <3>2. Append(SubSeq(es, 1, 1), es[1 + 1]) = SubSeq(es, 1, 1 + 1) BY <1>2
    <3> QED BY <1>3, <3>1, <3>2
  <2>4. Reads(f[1], 1) BY <2>2, <2>3
  <2> QED BY <2>4
<1>6. ASSUME NEW m \in Nat, m \in N PROVE m + 1 \in N
  <2> SUFFICES ASSUME m + 1 < n PROVE Reads(f[(m + 1) + 1], (m + 1) + 1) OBVIOUS
  <2> DEFINE k == m + 1
  <2>1. k \in 1..n /\ k + 1 \in 2..n /\ k + 1 \in 1..n /\ (k + 1) - 1 = k /\ Reads(f[k], k) BY <1>6
  <2> DEFINE a == seqs[k + 1]
  <2>2. f[k + 1] = Join(f[k], a) BY <1>1, <2>1 DEF Join
  <2>3. Arm(es[(k + 1) + 1], a) BY <2>1
  <2> HIDE DEF k, a
  <2>4. IsText(f[k]) /\ First(f[k]).t = "|" /\ IsText(a) /\ First(a).t = "|" BY <2>1, <2>3 DEF Arm
  <2>5. IsText(f[k + 1]) /\ First(f[k + 1]).t = "|" BY <2>2, <2>4, TwoTexts
  <2>6. ASSUME NEW ts \in Texts, NEW i \in Position, NEW j \in Position,
               Spans(ts, i, f[k + 1], j), Stops(Peek(ts, j), 1)
        PROVE  ParseArms(ts, Parsed(Node("match", 0, NoName, <<es[1]>>), i))
                 = ParseArms(ts, Parsed(Node("match", 0, NoName, SubSeq(es, 1, (k + 1) + 1)), j))
    <3>1. PICK p \in Position : Spans(ts, i, f[k], p) /\ Spans(ts, p, a, j)
      BY <2>2, <2>4, <2>6, SpansJoin
    <3>2. Peek(ts, p) = "|" BY <2>4, <3>1, SpansFirst
    <3>3. Stops("|", 1) BY DEF Stops, OpsOf, AtomStart, Comparisons
    <3>4. ParseArms(ts, Parsed(Node("match", 0, NoName, <<es[1]>>), i))
            = ParseArms(ts, Parsed(Node("match", 0, NoName, SubSeq(es, 1, k + 1)), p))
      BY <2>1, <3>1, <3>2, <3>3
    <3>5. ParseArms(ts, Parsed(Node("match", 0, NoName, SubSeq(es, 1, k + 1)), p))
            = ParseArms(ts, Parsed(Node("match", 0, NoName, Append(SubSeq(es, 1, k + 1), es[(k + 1) + 1])), j))
      BY <2>3, <2>6, <3>1 DEF Arm
    <3>6. Append(SubSeq(es, 1, k + 1), es[(k + 1) + 1]) = SubSeq(es, 1, (k + 1) + 1) BY <1>2, <2>1
    <3> QED BY <3>4, <3>5, <3>6
  <2>7. Reads(f[k + 1], k + 1) BY <2>5, <2>6
  <2> QED BY <2>7 DEF k
<1>7. n - 1 \in N
  <2> HIDE DEF N
  <2>1. n - 1 \in Nat OBVIOUS
  <2> QED BY <1>5, <1>6, <2>1, Induction
<1>8. Reads(f[n], n)
  <2>1. n - 1 \in Nat /\ n - 1 < n /\ (n - 1) + 1 = n OBVIOUS
  <2> HIDE DEF Reads
  <2> QED BY <1>7, <2>1
<1> DEFINE t == FlattenSeq(seqs)
<1>9. t = f[n] BY <1>1
<1> HIDE DEF t
<1>10. IsText(t) /\ First(t).t = "|" BY <1>8, <1>9
<1>11. ASSUME NEW ts \in Texts, NEW i \in Position, NEW j \in Position, Spans(ts, i, t, j),
              Stops(Peek(ts, j), 1)
       PROVE  ParseArms(ts, Parsed(Node("match", 0, NoName, <<es[1]>>), i))
                = ParseArms(ts, Parsed(Node("match", 0, NoName, es), j))
  <2> DEFINE g == f[n]
  <2>1. Spans(ts, i, g, j) BY <1>9, <1>11
  <2>2. \A us \in Texts, a \in Position, b \in Position : Spans(us, a, g, b) /\ Stops(Peek(us, b), 1) =>
          ParseArms(us, Parsed(Node("match", 0, NoName, <<es[1]>>), a))
            = ParseArms(us, Parsed(Node("match", 0, NoName, SubSeq(es, 1, n + 1)), b))
    BY <1>8
  <2> HIDE DEF g, Reads
  <2>3. ParseArms(ts, Parsed(Node("match", 0, NoName, <<es[1]>>), i))
          = ParseArms(ts, Parsed(Node("match", 0, NoName, SubSeq(es, 1, n + 1)), j))
    BY <1>11, <2>1, <2>2
  <2> QED BY <1>4, <2>3
<1> QED BY <1>10, <1>11 DEF t

LEMMA MatchStands ==
  ASSUME IsParser, NEW n \in Nat \ {0}, NEW S, NEW es \in Seq(S), Len(es) = n + 1,
         NEW seqs, Len(seqs) = n, \A i \in 1..n : Arm(es[i + 1], seqs[i]),
         NEW s, Standing(es[1], s, 1)
  PROVE  Expression(Node("match", 0, NoName, es),
                    <<Tok("match")>> \o s \o <<Tok("with")>> \o FlattenSeq(seqs), 0)
<1> DEFINE p == Tok("match")
<1> DEFINE q == Tok("with")
<1> DEFINE r == FlattenSeq(seqs)
<1> DEFINE u == Join(One(p), s)
<1> DEFINE text == Join(Join(u, One(q)), r)
<1> DEFINE f == Node("match", 0, NoName, es)
<1>0. p \in Token /\ p.t = "match" /\ q \in Token /\ q.t = "with" BY TokensAreTokens DEF Terminals
<1>1. /\ IsText(r) /\ First(r).t = "|"
      /\ \A ts \in Texts, i \in Position, j \in Position : Spans(ts, i, r, j) /\ Stops(Peek(ts, j), 1) =>
           ParseArms(ts, Parsed(Node("match", 0, NoName, <<es[1]>>), i)) = ParseArms(ts, Parsed(f, j))
  BY ArmsStand
<1> HIDE DEF p, q, r, f
<1>2. IsText(s) /\ IsText(One(p)) /\ First(One(p)) = p /\ IsText(One(q)) BY <1>0, OneToken, StandingText
<1>3. IsText(u) /\ First(u) = p BY <1>2, TwoTexts
<1> HIDE DEF u
<1>4. IsText(Join(u, One(q))) /\ First(Join(u, One(q))) = p BY <1>2, <1>3, TwoTexts
<1>5. IsText(text) /\ First(text) = p BY <1>1, <1>4, TwoTexts
<1>6. Begins(p.t, 0) BY <1>0 DEF Begins
<1>7. ASSUME NEW ts \in Texts, NEW i \in Position, NEW j \in Position, Spans(ts, i, text, j),
             Ends(Peek(ts, j))
      PROVE  ParseAtom(ts, i) = Parsed(f, j)
  <2>1. PICK k \in Position : /\ Spans(ts, i, u, k) /\ Peek(ts, k) = "with"
                             /\ k + 1 \in Position /\ Spans(ts, k + 1, r, j)
    BY <1>0, <1>1, <1>3, <1>7, SpansBetween
  <2>2. Peek(ts, i) = "match" /\ i + 1 \in Position /\ Spans(ts, i + 1, s, k)
    BY <1>0, <1>2, <2>1, SpansAfter DEF u
  <2>3. Stops("with", 1) BY DEF Stops, OpsOf, AtomStart, Comparisons
  <2>4. 1 \in 1..8 OBVIOUS
  <2>5. ParseLevel(ts, i + 1, 1) = Parsed(es[1], k) BY <2>1, <2>2, <2>3, <2>4, StandingReads
  <2>6. Stops(Peek(ts, j), 1) /\ Peek(ts, j) # "|" BY <1>7 DEF Ends
  <2>7. ParseArms(ts, Parsed(f, j)) = Parsed(f, j) BY <2>6, ArmsStop
  <2>8. ParseArms(ts, Parsed(Node("match", 0, NoName, <<es[1]>>), k + 1)) = Parsed(f, j)
    BY <1>1, <2>1, <2>6, <2>7
  <2>9. Len(es) # 1 OBVIOUS
  <2>10. ParseMatch(ts, i + 1) = Parsed(f, j) BY <2>1, <2>2, <2>5, <2>8, <2>9, MatchReads DEF f
  <2> QED BY <2>2, <2>10, AtomReads
<1>8. ASSUME NEW ts \in Texts, NEW i \in Position, NEW j \in Position, Spans(ts, i, text, j)
      PROVE  ReadsAt(ts, i, j, f, 0)
  <2> HIDE DEF text
  <2> QED BY <1>7, <1>8 DEF ReadsAt
<1> HIDE DEF text
<1>9. Expression(f, text, 0) BY <1>5, <1>6, <1>8 DEF Expression
<1> QED BY <1>9 DEF f, text, u, p, q, r, Join, One

-----------------------------------------------------------------------------
(* What is written *)

LEMMA KindText ==
  ASSUME NEW e, NEW parts
  PROVE  /\ e.k = "neg" => Text(e, parts) = <<Tok("-")>> \o At(parts[1], 8) /\ LevelOf(e) = 8
         /\ e.k = "not" => Text(e, parts) = <<Tok("not")>> \o At(parts[1], 8) /\ LevelOf(e) = 8
         /\ e.k = "apply" => Text(e, parts) = At(parts[1], 9) \o At(parts[2], 10) /\ LevelOf(e) = 9
         /\ e.k = "some" => Text(e, parts) = <<Tok("Some")>> \o At(parts[1], 10) /\ LevelOf(e) = 10
         /\ e.k = "int" => Text(e, parts) = <<Num(e.v)>> /\ LevelOf(e) = 10
         /\ e.k = "bool" => Text(e, parts) = <<Tok(IF e.v = 1 THEN "true" ELSE "false")>> /\ LevelOf(e) = 10
         /\ e.k = "none" => Text(e, parts) = <<Tok("None")>> /\ LevelOf(e) = 10
         /\ e.k = "ident" => Text(e, parts) = <<Id(e.x)>> /\ LevelOf(e) = 10
<1>1. e.k \in {"neg", "not", "apply", "some", "int", "bool", "none", "ident"} =>
        ~IsSection(e) /\ e.k \notin BinOps /\ e.k \notin Comparisons /\ e.k # "++"
  BY DEF IsSection, BinOps, Comparisons
<1>2. e.k = "neg" => Text(e, parts) = <<Tok("-")>> \o At(parts[1], 8) /\ LevelOf(e) = 8
  BY <1>1 DEF Text, LevelOf, Unary
<1>3. e.k = "not" => Text(e, parts) = <<Tok("not")>> \o At(parts[1], 8) /\ LevelOf(e) = 8
  BY <1>1 DEF Text, LevelOf, Unary
<1>4. e.k = "apply" => Text(e, parts) = At(parts[1], 9) \o At(parts[2], 10) /\ LevelOf(e) = 9
  BY <1>1 DEF Text, LevelOf
<1>5. e.k = "some" => Text(e, parts) = <<Tok("Some")>> \o At(parts[1], 10) /\ LevelOf(e) = 10
  BY <1>1 DEF Text, LevelOf
<1>6. e.k = "int" => Text(e, parts) = <<Num(e.v)>> /\ LevelOf(e) = 10
  BY <1>1 DEF Text, LevelOf
<1>7. e.k = "bool" => Text(e, parts) = <<Tok(IF e.v = 1 THEN "true" ELSE "false")>> /\ LevelOf(e) = 10
  BY <1>1 DEF Text, LevelOf
<1>8. e.k = "none" => Text(e, parts) = <<Tok("None")>> /\ LevelOf(e) = 10
  BY <1>1 DEF Text, LevelOf
<1>9. e.k = "ident" => Text(e, parts) = <<Id(e.x)>> /\ LevelOf(e) = 10
  BY <1>1 DEF Text, LevelOf
<1> QED BY <1>2, <1>3, <1>4, <1>5, <1>6, <1>7, <1>8, <1>9

LEMMA FormText ==
  ASSUME NEW e, NEW parts
  PROVE  /\ e.k = "lambda" /\ IsSection(e) =>
              Text(e, parts) = <<Tok("("), Tok(e.es[1].k)>> \o parts[1].right \o <<Tok(")")>> /\ LevelOf(e) = 10
         /\ e.k = "lambda" /\ ~IsSection(e) =>
              Text(e, parts) = <<Tok("lambda"), Id(e.x), Tok("->")>> \o At(parts[1], 0) /\ LevelOf(e) = 0
         /\ e.k = "let" =>
              /\ Text(e, parts) = <<Tok("let"), Id(e.x), Tok("=")>> \o At(parts[1], 1)
                                     \o <<Tok("in")>> \o At(parts[2], 0)
              /\ LevelOf(e) = 0
         /\ e.k = "if" =>
              /\ Text(e, parts) = <<Tok("if")>> \o At(parts[1], 0) \o <<Tok("then")>> \o At(parts[2], 0)
                                     \o <<Tok("else")>> \o At(parts[3], 0)
              /\ LevelOf(e) = 0
         /\ e.k = "match" =>
              /\ Text(e, parts) = <<Tok("match")>> \o At(parts[1], 1) \o <<Tok("with")>> \o ArmsText(Tail(parts))
              /\ LevelOf(e) = 0
         /\ e.k \in Patterns =>
              Text(e, parts) = <<Tok("|")>> \o PatternText(e) \o <<Tok("->")>> \o At(parts[1], 1)
<1>1. e.k \in {"lambda", "let", "if", "match"} \union Patterns =>
        e.k \notin BinOps /\ e.k \notin Comparisons /\ e.k # "++" /\ e.k \notin {"neg", "not", "apply"}
  BY DEF Patterns, BinOps, Comparisons
<1>2. e.k # "lambda" => ~IsSection(e) BY DEF IsSection
<1>3. e.k = "lambda" /\ IsSection(e) =>
        Text(e, parts) = <<Tok("("), Tok(e.es[1].k)>> \o parts[1].right \o <<Tok(")")>> /\ LevelOf(e) = 10
  BY <1>1 DEF Text, LevelOf
<1>4. e.k = "lambda" /\ ~IsSection(e) =>
        Text(e, parts) = <<Tok("lambda"), Id(e.x), Tok("->")>> \o At(parts[1], 0) /\ LevelOf(e) = 0
  BY <1>1 DEF Text, LevelOf
<1>5. e.k = "let" =>
        /\ Text(e, parts) = <<Tok("let"), Id(e.x), Tok("=")>> \o At(parts[1], 1)
                               \o <<Tok("in")>> \o At(parts[2], 0)
        /\ LevelOf(e) = 0
  BY <1>1, <1>2 DEF Text, LevelOf
<1>6. e.k = "if" =>
        /\ Text(e, parts) = <<Tok("if")>> \o At(parts[1], 0) \o <<Tok("then")>> \o At(parts[2], 0)
                               \o <<Tok("else")>> \o At(parts[3], 0)
        /\ LevelOf(e) = 0
  BY <1>1, <1>2 DEF Text, LevelOf
<1>7. e.k = "match" =>
        /\ Text(e, parts) = <<Tok("match")>> \o At(parts[1], 1) \o <<Tok("with")>> \o ArmsText(Tail(parts))
        /\ LevelOf(e) = 0
  BY <1>1, <1>2 DEF Text, LevelOf
<1>8. e.k \in Patterns =>
        Text(e, parts) = <<Tok("|")>> \o PatternText(e) \o <<Tok("->")>> \o At(parts[1], 1)
  BY <1>1, <1>2 DEF Text, Patterns
<1> QED BY <1>3, <1>4, <1>5, <1>6, <1>7, <1>8

LEMMA OperatorText ==
  ASSUME NEW e, NEW parts, e.k \in BinOps
  PROVE  \E n \in 2..7 :
           /\ e.k \in OpsOf[n] /\ LevelOf(e) = n
           /\ Text(e, parts) = At(parts[1], IF n \in {4, 5} THEN n + 1 ELSE n) \o <<Tok(e.k)>>
                                 \o At(parts[2], IF n = 5 THEN n ELSE n + 1)
<1>1. /\ OpsOf[1] = {"|>"} /\ OpsOf[2] = {"or"} /\ OpsOf[3] = {"and"} /\ OpsOf[4] = {"==", "<", "<="}
      /\ OpsOf[5] = {"++"} /\ OpsOf[6] = {"+", "-"} /\ OpsOf[7] = {"*", "/", "%"}
      /\ DOMAIN OpsOf = 1..7
  BY DEF OpsOf, Comparisons
<1>2. PICK n \in 2..7 : e.k \in OpsOf[n]
  <2>1. e.k \in {"or", "and", "++", "+", "-", "*", "/", "%", "==", "<", "<="} BY DEF BinOps, Comparisons
  <2> QED BY <1>1, <2>1
<1>3. ASSUME NEW m \in DOMAIN OpsOf, e.k \in OpsOf[m] PROVE m = n
  <2>1. m \in {1, 2, 3, 4, 5, 6, 7} /\ n \in {2, 3, 4, 5, 6, 7} BY <1>1
  <2> QED BY <1>1, <1>2, <1>3, <2>1
<1>4. n \in DOMAIN OpsOf BY <1>1
<1>5. (CHOOSE m \in DOMAIN OpsOf : e.k \in OpsOf[m]) = n BY <1>2, <1>3, <1>4
<1>6. ~IsSection(e) BY DEF IsSection, BinOps, Comparisons
<1>0. e.k \notin {"neg", "not", "apply", "some", "int", "bool", "none", "ident", "lambda", "let", "if", "match"}
  BY DEF BinOps, Comparisons
<1> DEFINE c == CHOOSE m \in DOMAIN OpsOf : e.k \in OpsOf[m]
<1>7. LevelOf(e) = n
  <2>1. LevelOf(e) = c BY <1>0, <1>6, Zenon DEF LevelOf
  <2> QED BY <1>5, <2>1
<1>8. e.k \in BinOps /\ (e.k \in Comparisons <=> n = 4) /\ (e.k = "++" <=> n = 5) BY <1>2, OperatorTokens
<1>9. CASE n = 4
  <2>1. e.k \in Comparisons BY <1>8, <1>9
  <2>2. Text(e, parts) = At(parts[1], 5) \o <<Tok(e.k)>> \o At(parts[2], 5) BY <1>0, <1>6, <1>8, <2>1 DEF Text
  <2> QED BY <1>2, <1>7, <1>9, <2>2
<1>10. CASE n = 5
  <2>1. e.k = "++" /\ e.k \notin Comparisons BY <1>8, <1>10
  <2>2. Text(e, parts) = At(parts[1], 6) \o <<Tok(e.k)>> \o At(parts[2], 5) BY <1>0, <1>6, <1>8, <2>1 DEF Text
  <2> QED BY <1>2, <1>7, <1>10, <2>2
<1>11. CASE n \notin {4, 5}
  <2>1. e.k # "++" /\ e.k \notin Comparisons BY <1>8, <1>11
  <2>2. Text(e, parts) = At(parts[1], LevelOf(e)) \o <<Tok(e.k)>> \o At(parts[2], LevelOf(e) + 1)
    BY <1>0, <1>6, <1>8, <2>1 DEF Text
  <2> QED BY <1>2, <1>7, <1>11, <2>2
<1> QED BY <1>9, <1>10, <1>11

(* What follows the name in a where clause, and what follows the equals    *)
(* sign of a function.                                                     *)
Binding(e, s) ==
  /\ IsText(s)
  /\ \A ts \in Texts, i \in Position, j \in Position : Spans(ts, i, s, j) /\ Ends(Peek(ts, j)) =>
       ParseWhere(ts, i) = Parsed(e, j)

Body(e, s) ==
  /\ IsText(s)
  /\ \A ts \in Texts, i \in Position, j \in Position : Spans(ts, i, s, j) /\ Peek(ts, j) \in {"fn", "end"} =>
       ParseBody(ts, i) = Parsed(e, j)

(* The texts of an expression are read as the expression.                  *)
IsWritten(w) ==
  /\ IsArm(w.e) => Arm(w.e, w.text)
  /\ ~IsArm(w.e) =>
       /\ LevelOf(w.e) \in Levels /\ Expression(w.e, w.text, LevelOf(w.e))
       /\ w.e.k \in BinOps => \E a, b : w.e = Node(w.e.k, 0, NoName, <<a, b>>) /\ Standing(b, w.right, 1)
       /\ Binding(w.e, w.clause) /\ Body(w.e, w.text) /\ Body(w.e, w.where)

Trees(parts) == [i \in DOMAIN parts |-> parts[i].e]

LEMMA TreesOfParts ==
  ASSUME NEW S, NEW parts \in Seq(S)
  PROVE  /\ Trees(parts) \in Seq({x.e : x \in S}) /\ Len(Trees(parts)) = Len(parts)
         /\ \A i \in 1..Len(parts) : Trees(parts)[i] = parts[i].e
         /\ Len(parts) = 0 => Trees(parts) = <<>>
         /\ Len(parts) = 1 => Trees(parts) = <<parts[1].e>>
         /\ Len(parts) = 2 => Trees(parts) = <<parts[1].e, parts[2].e>>
         /\ Len(parts) = 3 => Trees(parts) = <<parts[1].e, parts[2].e, parts[3].e>>
<1> DEFINE T == {x.e : x \in S}
<1> DEFINE t == Trees(parts)
<1>0. Len(parts) \in Nat /\ DOMAIN parts = 1..Len(parts) BY LenProperties
<1>1. \A i \in 1..Len(parts) : parts[i].e \in T BY <1>0, ElementOfSeq
<1>2. t \in Seq(T) /\ Len(t) = Len(parts) /\ \A i \in 1..Len(parts) : t[i] = parts[i].e
  <2>1. t = [i \in 1..Len(parts) |-> parts[i].e] BY <1>0 DEF Trees
  <2>2. t \in [1..Len(parts) -> T] BY <1>1, <2>1
  <2>3. t \in Seq(T) BY <1>0, <2>2, SeqDef
  <2>4. Len(t) = Len(parts) BY <1>0, <2>1, <2>3, LenProperties
  <2> QED BY <2>1, <2>3, <2>4
<1> HIDE DEF T, t
<1>3. ASSUME Len(parts) = 0 PROVE t = <<>> BY <1>2, <1>3, EmptySeq
<1>4. ASSUME Len(parts) = 1 PROVE t = <<parts[1].e>>
  <2> DEFINE r == <<parts[1].e>>
  <2>1. r \in Seq(T) /\ Len(r) = 1 /\ r[1] = parts[1].e BY <1>1, <1>4
  <2> HIDE DEF r
  <2>2. \A i \in 1..1 : t[i] = r[i] BY <1>2, <1>4, <2>1
  <2>3. t = r BY <1>2, <1>4, <2>1, <2>2, SeqEqual
  <2> QED BY <2>3 DEF r
<1>5. ASSUME Len(parts) = 2 PROVE t = <<parts[1].e, parts[2].e>>
  <2> DEFINE r == <<parts[1].e, parts[2].e>>
  <2>1. r \in Seq(T) /\ Len(r) = 2 /\ r[1] = parts[1].e /\ r[2] = parts[2].e BY <1>1, <1>5
  <2> HIDE DEF r
  <2>2. ASSUME NEW i \in 1..2 PROVE t[i] = r[i]
    <3>1. i = 1 \/ i = 2 OBVIOUS
    <3> QED BY <1>2, <1>5, <2>1, <3>1
  <2>3. t = r BY <1>2, <1>5, <2>1, <2>2, SeqEqual
  <2> QED BY <2>3 DEF r
<1>6. ASSUME Len(parts) = 3 PROVE t = <<parts[1].e, parts[2].e, parts[3].e>>
  <2> DEFINE r == <<parts[1].e, parts[2].e, parts[3].e>>
  <2>1. r \in Seq(T) /\ Len(r) = 3 /\ r[1] = parts[1].e /\ r[2] = parts[2].e /\ r[3] = parts[3].e BY <1>1, <1>6
  <2> HIDE DEF r
  <2>2. ASSUME NEW i \in 1..3 PROVE t[i] = r[i]
    <3>1. i = 1 \/ i = 2 \/ i = 3 OBVIOUS
    <3> QED BY <1>2, <1>6, <2>1, <3>1
  <2>3. t = r BY <1>2, <1>6, <2>1, <2>2, SeqEqual
  <2> QED BY <2>3 DEF r
<1> QED BY <1>2, <1>3, <1>4, <1>5, <1>6 DEF t, T

(* The parts of a node of kind k have been written.                        *)
PartsWritten(k, v, x, parts) ==
  /\ v \in NumbersOf(k) /\ x \in NamesIn(k) /\ Len(parts) \in ArityOf(k)
  /\ \A i \in 1..Len(parts) : IsWritten(parts[i])
  /\ IF k = "match" THEN ~IsArm(parts[1].e) /\ \A i \in 2..Len(parts) : IsArm(parts[i].e)
     ELSE \A i \in 1..Len(parts) : ~IsArm(parts[i].e)

LEMMA PartStands ==
  ASSUME IsParser, NEW w, IsWritten(w), ~IsArm(w.e)
  PROVE  \A n \in 0..10 : Standing(w.e, At(w, n), n)
BY AtStands DEF IsWritten

LEMMA Arities ==
  /\ \A k \in {"int", "bool", "none", "ident"} : ArityOf(k) = {0}
  /\ \A k \in {"neg", "not", "some", "lambda"} \union Patterns : ArityOf(k) = {1}
  /\ \A k \in BinOps \union {"apply", "let"} : ArityOf(k) = {2}
  /\ ArityOf("if") = {3} /\ ArityOf("match") = Nat \ {0, 1}
BY DEF ArityOf, Patterns, BinOps, Comparisons

LEMMA LeafText ==
  ASSUME IsParser, NEW k \in {"int", "bool", "none", "ident"}, NEW v, NEW x, NEW S, NEW parts \in Seq(S),
         PartsWritten(k, v, x, parts)
  PROVE  LET e == Node(k, v, x, Trees(parts))
         IN LevelOf(e) \in Levels /\ Expression(e, Text(e, parts), LevelOf(e))
<1> DEFINE e == Node(k, v, x, Trees(parts))
<1> SUFFICES LevelOf(e) \in Levels /\ Expression(e, Text(e, parts), LevelOf(e)) OBVIOUS
<1>1. e.k = k /\ e.v = v /\ e.x = x BY DEF Node
<1>2. Len(parts) = 0 BY Arities DEF PartsWritten
<1>3. e = Node(k, v, x, <<>>) BY <1>2, TreesOfParts
<1>4. v \in NumbersOf(k) /\ x \in NamesIn(k) BY DEF PartsWritten
<1>5. 10 \in Levels BY DEF Levels
<1> HIDE DEF e
<1>6. CASE k = "int"
  <2>1. v \in Nat /\ x = NoName BY <1>4, <1>6 DEF NumbersOf, NamesIn
  <2>2. Text(e, parts) = <<Num(v)>> /\ LevelOf(e) = 10 BY <1>1, <1>6, KindText
  <2> QED BY <1>3, <1>5, <1>6, <2>1, <2>2, LiteralsStand
<1>7. CASE k = "bool"
  <2>1. v \in {0, 1} /\ x = NoName BY <1>4, <1>7 DEF NumbersOf, NamesIn
  <2>2. Text(e, parts) = <<Tok(IF v = 1 THEN "true" ELSE "false")>> /\ LevelOf(e) = 10 BY <1>1, <1>7, KindText
  <2>3. CASE v = 1
    BY <1>3, <1>5, <1>7, <2>1, <2>2, <2>3, LiteralsStand
  <2>4. CASE v = 0
    BY <1>3, <1>5, <1>7, <2>1, <2>2, <2>4, LiteralsStand
  <2> QED BY <2>1, <2>3, <2>4
<1>8. CASE k = "none"
  <2>1. v = 0 /\ x = NoName BY <1>4, <1>8 DEF NumbersOf, NamesIn
  <2>2. Text(e, parts) = <<Tok("None")>> /\ LevelOf(e) = 10 BY <1>1, <1>8, KindText
  <2> QED BY <1>3, <1>5, <1>8, <2>1, <2>2, LiteralsStand
<1>9. CASE k = "ident"
  <2>1. v = 0 /\ x \in STRING BY <1>4, <1>9 DEF NumbersOf, NamesIn
  <2>2. Text(e, parts) = <<Id(x)>> /\ LevelOf(e) = 10 BY <1>1, <1>9, KindText
  <2> QED BY <1>3, <1>5, <1>9, <2>1, <2>2, LiteralsStand
<1> QED BY <1>6, <1>7, <1>8, <1>9

LEMMA PrefixText ==
  ASSUME IsParser, NEW k \in {"neg", "not", "some", "apply"}, NEW v, NEW x, NEW S, NEW parts \in Seq(S),
         PartsWritten(k, v, x, parts)
  PROVE  LET e == Node(k, v, x, Trees(parts))
         IN LevelOf(e) \in Levels /\ Expression(e, Text(e, parts), LevelOf(e))
<1> DEFINE e == Node(k, v, x, Trees(parts))
<1> SUFFICES LevelOf(e) \in Levels /\ Expression(e, Text(e, parts), LevelOf(e)) OBVIOUS
<1>1. e.k = k /\ e.v = v /\ e.x = x BY DEF Node
<1>2. v = 0 /\ x = NoName BY DEF PartsWritten, NumbersOf, NamesIn
<1>3. 8 \in Levels /\ 9 \in Levels /\ 10 \in Levels BY DEF Levels
<1>4. \A i \in 1..Len(parts) : \A n \in 0..10 : Standing(parts[i].e, At(parts[i], n), n)
  BY PartStands DEF PartsWritten
<1>5. Len(parts) \in ArityOf(k) BY DEF PartsWritten
<1> HIDE DEF e
<1>6. CASE k = "neg"
  <2>1. Len(parts) = 1 BY <1>5, <1>6, Arities
  <2>2. e = Node("neg", 0, NoName, <<parts[1].e>>) BY <1>2, <1>6, <2>1, TreesOfParts DEF e
  <2>3. Text(e, parts) = Join(One(Tok("-")), At(parts[1], 8)) /\ LevelOf(e) = 8 BY <1>1, <1>6, KindText DEF Join, One
  <2>4. Standing(parts[1].e, At(parts[1], 8), 8) BY <1>4, <2>1
  <2>5. Expression(Node("neg", 0, NoName, <<parts[1].e>>), Join(One(Tok("-")), At(parts[1], 8)), 8)
    BY <2>4, PrefixStands
  <2> QED BY <1>3, <2>2, <2>3, <2>5
<1>7. CASE k = "not"
  <2>1. Len(parts) = 1 BY <1>5, <1>7, Arities
  <2>2. e = Node("not", 0, NoName, <<parts[1].e>>) BY <1>2, <1>7, <2>1, TreesOfParts DEF e
  <2>3. Text(e, parts) = Join(One(Tok("not")), At(parts[1], 8)) /\ LevelOf(e) = 8 BY <1>1, <1>7, KindText DEF Join, One
  <2>4. Standing(parts[1].e, At(parts[1], 8), 8) BY <1>4, <2>1
  <2>5. Expression(Node("not", 0, NoName, <<parts[1].e>>), Join(One(Tok("not")), At(parts[1], 8)), 8)
    BY <2>4, PrefixStands
  <2> QED BY <1>3, <2>2, <2>3, <2>5
<1>8. CASE k = "some"
  <2>1. Len(parts) = 1 BY <1>5, <1>8, Arities
  <2>2. e = Node("some", 0, NoName, <<parts[1].e>>) BY <1>2, <1>8, <2>1, TreesOfParts DEF e
  <2>3. Text(e, parts) = Join(One(Tok("Some")), At(parts[1], 10)) /\ LevelOf(e) = 10 BY <1>1, <1>8, KindText DEF Join, One
  <2>4. Standing(parts[1].e, At(parts[1], 10), 10) BY <1>4, <2>1
  <2> QED BY <1>3, <2>2, <2>3, <2>4, SomeStands
<1>9. CASE k = "apply"
  <2>1. Len(parts) = 2 BY <1>5, <1>9, Arities
  <2>2. e = Apply(parts[1].e, parts[2].e) BY <1>2, <1>9, <2>1, TreesOfParts DEF e, Apply
  <2>3. Text(e, parts) = Join(At(parts[1], 9), At(parts[2], 10)) /\ LevelOf(e) = 9 BY <1>1, <1>9, KindText DEF Join
  <2>4. Standing(parts[1].e, At(parts[1], 9), 9) /\ Standing(parts[2].e, At(parts[2], 10), 10) BY <1>4, <2>1
  <2> QED BY <1>3, <2>2, <2>3, <2>4, ApplyStands
<1> QED BY <1>6, <1>7, <1>8, <1>9

LEMMA InfixText ==
  ASSUME IsParser, NEW k \in BinOps, NEW v, NEW x, NEW S, NEW parts \in Seq(S),
         PartsWritten(k, v, x, parts)
  PROVE  LET e == Node(k, v, x, Trees(parts))
         IN /\ LevelOf(e) \in Levels /\ Expression(e, Text(e, parts), LevelOf(e))
            /\ e = Node(k, 0, NoName, <<parts[1].e, parts[2].e>>)
            /\ Standing(parts[2].e, At(parts[2], 1), 1)
<1> DEFINE e == Node(k, v, x, Trees(parts))
<1>1. e.k = k BY DEF Node
<1>2. v = 0 /\ x = NoName BY DEF PartsWritten, NumbersOf, NamesIn, BinOps, Comparisons
<1>3. Len(parts) = 2 BY Arities DEF PartsWritten
<1>4. k # "match" BY DEF BinOps, Comparisons
<1>5. ASSUME NEW i \in {1, 2}, NEW n \in 0..10 PROVE Standing(parts[i].e, At(parts[i], n), n)
  BY <1>3, <1>4, PartStands DEF PartsWritten
<1>6. e = Node(k, 0, NoName, <<parts[1].e, parts[2].e>>) BY <1>2, <1>3, TreesOfParts
<1> HIDE DEF e
<1>7. PICK n \in 2..7 :
        /\ k \in OpsOf[n] /\ LevelOf(e) = n
        /\ Text(e, parts) = At(parts[1], IF n \in {4, 5} THEN n + 1 ELSE n) \o <<Tok(k)>>
                              \o At(parts[2], IF n = 5 THEN n ELSE n + 1)
  BY <1>1, OperatorText
<1> DEFINE l == IF n \in {4, 5} THEN n + 1 ELSE n
<1> DEFINE r == IF n = 5 THEN n ELSE n + 1
<1>8. l \in 0..10 /\ r \in 0..10 /\ n \in Levels /\ 1 \in 0..10 BY DEF Levels
<1>9. Text(e, parts) = Join(Join(At(parts[1], l), One(Tok(k))), At(parts[2], r))
  BY <1>7 DEF Join, One
<1>10. Standing(parts[1].e, At(parts[1], l), l) /\ Standing(parts[2].e, At(parts[2], r), r)
  <2> HIDE DEF l, r
  <2> QED BY <1>5, <1>8
<1>11. Expression(Node(k, 0, NoName, <<parts[1].e, parts[2].e>>),
                  Join(Join(At(parts[1], l), One(Tok(k))), At(parts[2], r)), n)
  <2>1. Standing(parts[1].e, At(parts[1], l), IF n \in {4, 5} THEN n + 1 ELSE n)
        /\ Standing(parts[2].e, At(parts[2], r), IF n = 5 THEN n ELSE n + 1)
    BY <1>10
  <2> HIDE DEF l, r
  <2> QED BY <1>7, <2>1, InfixStands
<1>12. Standing(parts[2].e, At(parts[2], 1), 1) BY <1>5, <1>8
<1> HIDE DEF l, r
<1> QED BY <1>6, <1>7, <1>8, <1>9, <1>11, <1>12 DEF e

LEMMA LambdaText ==
  ASSUME IsParser, NEW v, NEW x, NEW S, NEW parts \in Seq(S), PartsWritten("lambda", v, x, parts)
  PROVE  LET e == Node("lambda", v, x, Trees(parts))
         IN LevelOf(e) \in Levels /\ Expression(e, Text(e, parts), LevelOf(e))
<1> DEFINE e == Node("lambda", v, x, Trees(parts))
<1> SUFFICES LevelOf(e) \in Levels /\ Expression(e, Text(e, parts), LevelOf(e)) OBVIOUS
<1> DEFINE w == parts[1]
<1>1. v = 0 /\ x \in STRING BY DEF PartsWritten, NumbersOf, NamesIn
<1>2. Len(parts) = 1 BY Arities DEF PartsWritten
<1>3. IsWritten(w) /\ ~IsArm(w.e) BY <1>2 DEF PartsWritten
<1>4. e = Node("lambda", 0, x, <<w.e>>) BY <1>1, <1>2, TreesOfParts
<1> HIDE DEF e
<1>5. e.k = "lambda" /\ e.x = x /\ e.es = <<w.e>> /\ e.es[1] = w.e BY <1>4 DEF Node
<1>6. 0 \in Levels /\ 10 \in Levels BY DEF Levels
<1>7. CASE IsSection(e)
  <2>1. x = "__x" /\ w.e.k \in Sections /\ w.e.es[1] = Ident("__x") BY <1>5, <1>7 DEF IsSection
  <2>2. w.e.k \in BinOps BY <2>1 DEF Sections, BinOps, Comparisons
  <2>3. PICK a, b : w.e = Node(w.e.k, 0, NoName, <<a, b>>) /\ Standing(b, w.right, 1)
    BY <1>3, <2>2 DEF IsWritten
  <2>4. a = Ident("__x") BY <2>1, <2>3 DEF Node
  <2> DEFINE op == w.e.k
  <2>5. e = Lambda("__x", Node(op, 0, NoName, <<Ident("__x"), b>>))
    BY <1>4, <2>1, <2>3, <2>4 DEF Lambda
  <2>6. /\ Text(e, parts) = <<Tok("("), Tok(op)>> \o w.right \o <<Tok(")")>>
        /\ LevelOf(e) = 10
    <3>1. /\ Text(e, parts) = <<Tok("("), Tok(e.es[1].k)>> \o parts[1].right \o <<Tok(")")>>
          /\ LevelOf(e) = 10
      BY <1>5, <1>7, FormText
    <3> QED BY <1>5, <3>1
  <2>7. op \in Sections BY <2>1
  <2> HIDE DEF op
  <2>8. Expression(Lambda("__x", Node(op, 0, NoName, <<Ident("__x"), b>>)),
                   <<Tok("("), Tok(op)>> \o w.right \o <<Tok(")")>>, 10)
    BY <2>3, <2>7, SectionStands
  <2> QED BY <1>6, <2>5, <2>6, <2>8
<1>8. CASE ~IsSection(e)
  <2>1. /\ Text(e, parts) = <<Tok("lambda"), Id(x), Tok("->")>> \o At(w, 0)
        /\ LevelOf(e) = 0
    BY <1>5, <1>8, FormText
  <2>2. 0 \in 0..10 OBVIOUS
  <2>3. Standing(w.e, At(w, 0), 0) BY <1>3, <2>2, PartStands
  <2> HIDE DEF w
  <2>4. Expression(Node("lambda", 0, x, <<w.e>>), <<Tok("lambda"), Id(x), Tok("->")>> \o At(w, 0), 0)
    BY <1>1, <2>3, LambdaStands
  <2> QED BY <1>4, <1>6, <2>1, <2>4
<1> QED BY <1>7, <1>8

LEMMA LetText ==
  ASSUME IsParser, NEW v, NEW x, NEW S, NEW parts \in Seq(S), PartsWritten("let", v, x, parts)
  PROVE  LET e == Node("let", v, x, Trees(parts))
         IN LevelOf(e) \in Levels /\ Expression(e, Text(e, parts), LevelOf(e))
<1> DEFINE e == Node("let", v, x, Trees(parts))
<1> SUFFICES LevelOf(e) \in Levels /\ Expression(e, Text(e, parts), LevelOf(e)) OBVIOUS
<1> DEFINE a == parts[1]
<1> DEFINE b == parts[2]
<1>1. v = 0 /\ x \in STRING BY DEF PartsWritten, NumbersOf, NamesIn
<1>2. Len(parts) = 2 BY Arities DEF PartsWritten
<1>3. IsWritten(a) /\ ~IsArm(a.e) /\ IsWritten(b) /\ ~IsArm(b.e) BY <1>2 DEF PartsWritten
<1>4. e = Node("let", 0, x, <<a.e, b.e>>) BY <1>1, <1>2, TreesOfParts
<1> HIDE DEF e
<1>5. e.k = "let" /\ e.x = x BY <1>4 DEF Node
<1>6. 0 \in Levels /\ 0 \in 0..10 /\ 1 \in 0..10 BY DEF Levels
<1>7. /\ Text(e, parts) = <<Tok("let"), Id(x), Tok("=")>> \o At(a, 1) \o <<Tok("in")>> \o At(b, 0)
      /\ LevelOf(e) = 0
  BY <1>5, FormText
<1> HIDE DEF a, b
<1>8. Standing(a.e, At(a, 1), 1) BY <1>3, <1>6, PartStands
<1>9. Standing(b.e, At(b, 0), 0) BY <1>3, <1>6, PartStands
<1>10. Expression(Node("let", 0, x, <<a.e, b.e>>),
                  <<Tok("let"), Id(x), Tok("=")>> \o At(a, 1) \o <<Tok("in")>> \o At(b, 0), 0)
  BY <1>1, <1>8, <1>9, LetStands
<1> QED BY <1>4, <1>6, <1>7, <1>10

LEMMA IfText ==
  ASSUME IsParser, NEW v, NEW x, NEW S, NEW parts \in Seq(S), PartsWritten("if", v, x, parts)
  PROVE  LET e == Node("if", v, x, Trees(parts))
         IN LevelOf(e) \in Levels /\ Expression(e, Text(e, parts), LevelOf(e))
<1> DEFINE e == Node("if", v, x, Trees(parts))
<1> SUFFICES LevelOf(e) \in Levels /\ Expression(e, Text(e, parts), LevelOf(e)) OBVIOUS
<1> DEFINE a == parts[1]
<1> DEFINE b == parts[2]
<1> DEFINE c == parts[3]
<1>1. v = 0 /\ x = NoName BY DEF PartsWritten, NumbersOf, NamesIn
<1>2. Len(parts) = 3 BY Arities DEF PartsWritten
<1>3. IsWritten(a) /\ ~IsArm(a.e) /\ IsWritten(b) /\ ~IsArm(b.e) /\ IsWritten(c) /\ ~IsArm(c.e)
  BY <1>2 DEF PartsWritten
<1>4. e = Node("if", 0, NoName, <<a.e, b.e, c.e>>) BY <1>1, <1>2, TreesOfParts
<1> HIDE DEF e
<1>5. e.k = "if" BY <1>4 DEF Node
<1>6. 0 \in Levels /\ 0 \in 0..10 BY DEF Levels
<1>7. /\ Text(e, parts) = <<Tok("if")>> \o At(a, 0) \o <<Tok("then")>> \o At(b, 0)
                             \o <<Tok("else")>> \o At(c, 0)
      /\ LevelOf(e) = 0
  BY <1>5, FormText
<1> HIDE DEF a, b, c
<1>8. Standing(a.e, At(a, 0), 0) /\ Standing(b.e, At(b, 0), 0) /\ Standing(c.e, At(c, 0), 0)
  BY <1>3, <1>6, PartStands
<1>9. Expression(Node("if", 0, NoName, <<a.e, b.e, c.e>>),
                 <<Tok("if")>> \o At(a, 0) \o <<Tok("then")>> \o At(b, 0) \o <<Tok("else")>> \o At(c, 0), 0)
  BY <1>8, IfStands
<1> QED BY <1>4, <1>6, <1>7, <1>9

LEMMA MatchText ==
  ASSUME IsParser, NEW v, NEW x, NEW S, NEW parts \in Seq(S), PartsWritten("match", v, x, parts)
  PROVE  LET e == Node("match", v, x, Trees(parts))
         IN LevelOf(e) \in Levels /\ Expression(e, Text(e, parts), LevelOf(e))
<1> DEFINE es == Trees(parts)
<1> DEFINE e == Node("match", v, x, es)
<1> SUFFICES LevelOf(e) \in Levels /\ Expression(e, Text(e, parts), LevelOf(e)) OBVIOUS
<1> DEFINE n == Len(parts) - 1
<1> DEFINE arms == Tail(parts)
<1> DEFINE seqs == [i \in DOMAIN arms |-> arms[i].text]
<1>1. v = 0 /\ x = NoName BY DEF PartsWritten, NumbersOf, NamesIn
<1>2. Len(parts) \in Nat \ {0, 1} BY Arities DEF PartsWritten
<1>3. n \in Nat \ {0} /\ Len(parts) = n + 1 /\ 1 \in 1..Len(parts) BY <1>2
<1>4. e = Node("match", 0, NoName, es) BY <1>1
<1>5. es \in Seq({y.e : y \in S}) /\ Len(es) = n + 1 /\ \A i \in 1..(n + 1) : es[i] = parts[i].e
  <2> HIDE DEF es
  <2> QED BY <1>3, TreesOfParts DEF es
<1>6. arms \in Seq(S) /\ Len(arms) = n /\ \A i \in 1..n : arms[i] = parts[i + 1]
  BY <1>3, HeadTailProperties
<1> HIDE DEF arms, n
<1>7. DOMAIN arms = 1..n BY <1>3, <1>6, LenProperties
<1>8. Len(seqs) = n /\ \A i \in 1..n : seqs[i] = arms[i].text
  <2>1. seqs = [i \in 1..n |-> arms[i].text] BY <1>7
  <2>2. seqs \in [1..n -> {arms[i].text : i \in 1..n}] BY <2>1
  <2>4. n \in Nat BY <1>3
  <2> DEFINE T == {arms[i].text : i \in 1..n}
  <2> HIDE DEF seqs, T
  <2>3. seqs \in Seq(T)
    <3>1. seqs \in [1..n -> T] BY <2>2 DEF T
    <3> QED BY <2>4, <3>1, SeqDef
  <2>5. Len(seqs) = n BY <2>1, <2>3, <2>4, LenProperties
  <2>6. \A i \in 1..n : seqs[i] = arms[i].text BY <2>1
  <2> QED BY <2>5, <2>6
<1>9. ArmsText(arms) = FlattenSeq(seqs) BY DEF ArmsText
<1> HIDE DEF e, es, seqs
<1>10. \A i \in 1..n : Arm(es[i + 1], seqs[i])
  <2> TAKE i \in 1..n
  <2>1. i + 1 \in 2..Len(parts) /\ i + 1 \in 1..(n + 1) /\ i + 1 \in 1..Len(parts) BY <1>3
  <2>2. IsWritten(parts[i + 1]) /\ IsArm(parts[i + 1].e) BY <2>1 DEF PartsWritten
  <2>3. Arm(parts[i + 1].e, parts[i + 1].text) BY <2>2 DEF IsWritten
  <2> QED BY <1>5, <1>6, <1>8, <2>1, <2>3
<1> DEFINE s == parts[1]
<1>11. IsWritten(s) /\ ~IsArm(s.e) /\ es[1] = s.e BY <1>3, <1>5 DEF PartsWritten
<1>12. 0 \in Levels /\ 1 \in 0..10 BY DEF Levels
<1>13. Standing(es[1], At(s, 1), 1)
  <2> HIDE DEF s
  <2> QED BY <1>11, <1>12, PartStands
<1>14. e.k = "match" BY <1>4 DEF Node
<1>15. /\ Text(e, parts) = <<Tok("match")>> \o At(s, 1) \o <<Tok("with")>> \o ArmsText(Tail(parts))
       /\ LevelOf(e) = 0
  BY <1>14, FormText
<1> HIDE DEF s
<1>16. Expression(Node("match", 0, NoName, es),
                  <<Tok("match")>> \o At(s, 1) \o <<Tok("with")>> \o FlattenSeq(seqs), 0)
  BY <1>3, <1>5, <1>8, <1>10, <1>13, MatchStands
<1> QED BY <1>4, <1>9, <1>12, <1>15, <1>16 DEF arms

LEMMA ArmText ==
  ASSUME IsParser, NEW k \in Patterns, NEW v, NEW x, NEW S, NEW parts \in Seq(S),
         PartsWritten(k, v, x, parts)
  PROVE  LET e == Node(k, v, x, Trees(parts))
         IN Arm(e, Text(e, parts))
<1> DEFINE e == Node(k, v, x, Trees(parts))
<1> SUFFICES Arm(e, Text(e, parts)) OBVIOUS
<1> DEFINE w == parts[1]
<1>1. v \in NumbersOf(k) /\ x \in NamesIn(k) BY DEF PartsWritten
<1>2. Len(parts) = 1 BY Arities DEF PartsWritten
<1>3. k # "match" BY DEF Patterns
<1>4. IsWritten(w) /\ ~IsArm(w.e) BY <1>2, <1>3 DEF PartsWritten
<1>5. e = Node(k, v, x, <<w.e>>) BY <1>2, TreesOfParts
<1> HIDE DEF e
<1>6. e.k \in Patterns BY <1>5 DEF Node
<1>7. Text(e, parts) = <<Tok("|")>> \o PatternText(e) \o <<Tok("->")>> \o At(w, 1) BY <1>6, FormText
<1> HIDE DEF w
<1>8. Standing(w.e, At(w, 1), 1)
  <2>1. 1 \in 0..10 OBVIOUS
  <2> QED BY <1>4, <2>1, PartStands
<1>9. Arm(Node(k, v, x, <<w.e>>),
          <<Tok("|")>> \o PatternText(Node(k, v, x, <<w.e>>)) \o <<Tok("->")>> \o At(w, 1))
  BY <1>1, <1>8, ArmStands
<1> QED BY <1>5, <1>7, <1>9

(* An expression is read where its text stands, whatever its kind.         *)
LEMMA NodeText ==
  ASSUME IsParser, NEW k, NEW v, NEW x, NEW S, NEW parts \in Seq(S),
         PartsWritten(k, v, x, parts), k \notin Patterns
  PROVE  LET e == Node(k, v, x, Trees(parts))
         IN LevelOf(e) \in Levels /\ Expression(e, Text(e, parts), LevelOf(e))
<1>1. ArityOf(k) # {} BY DEF PartsWritten
<1>2. k \in {"int", "bool", "none", "ident"} \union {"neg", "not", "some", "apply"} \union BinOps
              \union {"lambda", "let", "if", "match"}
  BY <1>1 DEF ArityOf
<1>3. CASE k \in {"int", "bool", "none", "ident"} BY <1>3, LeafText
<1>4. CASE k \in {"neg", "not", "some", "apply"} BY <1>4, PrefixText
<1>5. CASE k \in BinOps BY <1>5, InfixText
<1>6. CASE k = "lambda"
  <2>1. PartsWritten("lambda", v, x, parts) BY <1>6
  <2> QED BY <1>6, <2>1, LambdaText
<1>7. CASE k = "let"
  <2>1. PartsWritten("let", v, x, parts) BY <1>7
  <2> QED BY <1>7, <2>1, LetText
<1>8. CASE k = "if"
  <2>1. PartsWritten("if", v, x, parts) BY <1>8
  <2> QED BY <1>8, <2>1, IfText
<1>9. CASE k = "match"
  <2>1. PartsWritten("match", v, x, parts) BY <1>9
  <2> QED BY <1>9, <2>1, MatchText
<1> QED BY <1>2, <1>3, <1>4, <1>5, <1>6, <1>7, <1>8, <1>9

-----------------------------------------------------------------------------
(* Where clauses and the bodies of functions *)

LEMMA BindingOfExpression ==
  ASSUME IsParser, NEW e, NEW s, Standing(e, s, 0)
  PROVE  Binding(e, Join(One(Tok("=")), s))
<1> DEFINE p == Tok("=")
<1>0. p \in Token /\ p.t = "=" BY TokensAreTokens DEF Terminals
<1> HIDE DEF p
<1>1. IsText(s) /\ IsText(One(p)) BY <1>0, OneToken, StandingText
<1>2. IsText(Join(One(p), s)) BY <1>1, TwoTexts
<1>3. ASSUME NEW ts \in Texts, NEW i \in Position, NEW j \in Position,
             Spans(ts, i, Join(One(p), s), j), Ends(Peek(ts, j))
      PROVE  ParseWhere(ts, i) = Parsed(e, j)
  <2>1. Peek(ts, i) = "=" /\ i + 1 \in Position /\ Spans(ts, i + 1, s, j) BY <1>0, <1>1, <1>3, SpansAfter
  <2>2. ParseLevel(ts, i + 1, 1) = Parsed(e, j) BY <1>3, <2>1, StandingReads
  <2> QED BY <2>1, <2>2, WhereReads
<1>4. Binding(e, Join(One(p), s)) BY <1>2, <1>3 DEF Binding
<1> QED BY <1>4 DEF p

LEMMA BindingOfLambda ==
  ASSUME IsParser, NEW x \in STRING, NEW e, NEW s, Binding(e, s)
  PROVE  Binding(Lambda(x, e), Join(One(Id(x)), s))
<1> DEFINE p == Id(x)
<1>0. p \in Token /\ p.t = "id" /\ p.x = x BY TokensAreTokens
<1> HIDE DEF p
<1>1. IsText(s) /\ IsText(One(p)) BY <1>0, OneToken DEF Binding
<1>2. IsText(Join(One(p), s)) BY <1>1, TwoTexts
<1>3. ASSUME NEW ts \in Texts, NEW i \in Position, NEW j \in Position,
             Spans(ts, i, Join(One(p), s), j), Ends(Peek(ts, j))
      PROVE  ParseWhere(ts, i) = Parsed(Lambda(x, e), j)
  <2>1. Peek(ts, i) = "id" /\ ts[i] = p /\ i + 1 \in Position /\ Spans(ts, i + 1, s, j)
    BY <1>0, <1>1, <1>3, SpansAfter
  <2>2. ParseWhere(ts, i + 1) = Parsed(e, j) BY <1>3, <2>1 DEF Binding
  <2>3. ts[i].x = x BY <1>0, <2>1
  <2> QED BY <2>1, <2>2, <2>3, WhereReads
<1>4. Binding(Lambda(x, e), Join(One(p), s)) BY <1>2, <1>3 DEF Binding
<1> QED BY <1>4 DEF p

LEMMA BodyOfExpression ==
  ASSUME IsParser, NEW e, NEW s, Standing(e, s, 0)
  PROVE  Body(e, s)
<1>1. IsText(s) BY StandingText
<1>2. Ends("fn") /\ Ends("end") BY DEF Ends, Stops, OpsOf, AtomStart, Comparisons
<1>3. ASSUME NEW ts \in Texts, NEW i \in Position, NEW j \in Position,
             Spans(ts, i, s, j), Peek(ts, j) \in {"fn", "end"}
      PROVE  ParseBody(ts, i) = Parsed(e, j)
  <2>1. Ends(Peek(ts, j)) /\ Peek(ts, j) # "where" BY <1>2, <1>3
  <2>2. ParseLevel(ts, i, 1) = Parsed(e, j) BY <1>3, <2>1, StandingReads
  <2> QED BY <2>1, <2>2, BodyReads
<1> QED BY <1>1, <1>3 DEF Body

LEMMA BodyOfWhere ==
  ASSUME IsParser, NEW x \in STRING, NEW d, NEW c, Binding(d, c), NEW e, NEW s, Standing(e, s, 0)
  PROVE  Body(Node("let", 0, x, <<d, e>>), s \o <<Tok("where"), Id(x)>> \o c)
<1> DEFINE p == Tok("where")
<1> DEFINE q == Id(x)
<1> DEFINE r == Join(One(p), One(q))
<1> DEFINE u == Join(s, r)
<1> DEFINE text == Join(u, c)
<1> DEFINE f == Node("let", 0, x, <<d, e>>)
<1>0. p \in Token /\ p.t = "where" /\ q \in Token /\ q.t = "id" /\ q.x = x
  BY TokensAreTokens DEF Terminals
<1>1. s \o <<p, q>> \o c = text
  <2> HIDE DEF p, q
  <2>1. <<p, q>> = Join(One(p), One(q)) BY <1>0, TwoTokens
  <2> QED BY <2>1 DEF Join
<1> HIDE DEF p, q, f
<1>2. IsText(s) /\ IsText(c) BY StandingText DEF Binding
<1>3. IsText(One(p)) /\ First(One(p)) = p /\ IsText(One(q)) BY <1>0, OneToken
<1>4. IsText(r) /\ First(r) = p BY <1>3, TwoTexts
<1>5. IsText(u)
  <2> HIDE DEF r
  <2> QED BY <1>2, <1>4, TwoTexts
<1>6. IsText(text)
  <2> HIDE DEF u
  <2> QED BY <1>2, <1>5, TwoTexts
<1>7. Ends("where") BY DEF Ends, Stops, OpsOf, AtomStart, Comparisons
<1>8. ASSUME NEW ts \in Texts, NEW i \in Position, NEW j \in Position,
             Spans(ts, i, text, j), Peek(ts, j) \in {"fn", "end"}
      PROVE  ParseBody(ts, i) = Parsed(f, j)
  <2>1. PICK m \in Position : Spans(ts, i, u, m) /\ Spans(ts, m, c, j)
    <3> HIDE DEF u
    <3> QED BY <1>2, <1>5, <1>8, SpansJoin
  <2>2. PICK k \in Position : Spans(ts, i, s, k) /\ Spans(ts, k, r, m)
    <3> HIDE DEF r
    <3> QED BY <1>2, <1>4, <2>1, SpansJoin
  <2>3. Peek(ts, k) = "where" /\ k + 1 \in Position /\ Spans(ts, k + 1, One(q), m)
    BY <1>0, <1>3, <2>2, SpansAfter
  <2>4. Peek(ts, k + 1) = "id" /\ ts[k + 1] = q /\ m = (k + 1) + 1 BY <1>0, <2>3, SpansOne
  <2>5. ts[k + 1].x = x /\ m = k + 2 BY <1>0, <2>4 DEF Position
  <2>6. ParseLevel(ts, i, 1) = Parsed(e, k) BY <1>7, <2>2, <2>3, StandingReads
  <2>7. Ends("fn") /\ Ends("end") BY DEF Ends, Stops, OpsOf, AtomStart, Comparisons
  <2>8. Ends(Peek(ts, j)) BY <1>8, <2>7
  <2>9. ParseWhere(ts, k + 2) = Parsed(d, j) BY <2>1, <2>5, <2>8 DEF Binding
  <2> QED BY <2>3, <2>4, <2>5, <2>6, <2>9, BodyReads DEF f
<1> HIDE DEF text
<1>9. Body(f, text) BY <1>6, <1>8 DEF Body
<1> QED BY <1>1, <1>9 DEF f, p, q

(* Every node that is written is read as it was written.                   *)
LEMMA WrittenIsWritten ==
  ASSUME IsParser, NEW k, NEW v, NEW x, NEW S, NEW parts \in Seq(S), PartsWritten(k, v, x, parts)
  PROVE  IsWritten(Written(Node(k, v, x, Trees(parts)), parts))
<1> DEFINE e == Node(k, v, x, Trees(parts))
<1> DEFINE w == Written(e, parts)
<1> DEFINE text == Text(e, parts)
<1> SUFFICES IsWritten(w) OBVIOUS
<1>1. e.k = k /\ e.x = x BY DEF Node
<1>2. w.e = e /\ w.text = text BY DEF Written
<1>3. ASSUME k \in Patterns PROVE Arm(w.e, w.text)
  <2>1. Arm(e, text) BY <1>3, ArmText
  <2> HIDE DEF e, w, text
  <2> QED BY <1>2, <2>1
<1>4. ASSUME k \notin Patterns
      PROVE  /\ LevelOf(w.e) \in Levels /\ Expression(w.e, w.text, LevelOf(w.e))
             /\ w.e.k \in BinOps => \E a, b : w.e = Node(w.e.k, 0, NoName, <<a, b>>) /\ Standing(b, w.right, 1)
             /\ Binding(w.e, w.clause) /\ Body(w.e, w.text) /\ Body(w.e, w.where)
  <2>1. LevelOf(e) \in Levels /\ Expression(e, text, LevelOf(e)) BY <1>4, NodeText
  <2>2. Standing(e, text, 0)
    <3> HIDE DEF e, text
    <3>1. 0 <= LevelOf(e) BY <2>1 DEF Levels
    <3> QED BY <2>1, <3>1 DEF Standing
  <2>3. k \in BinOps => \E a, b : e = Node(k, 0, NoName, <<a, b>>) /\ Standing(b, w.right, 1)
    <3> HAVE k \in BinOps
    <3>1. e = Node(k, 0, NoName, <<parts[1].e, parts[2].e>>) /\ Standing(parts[2].e, At(parts[2], 1), 1)
      BY InfixText
    <3>2. w.right = At(parts[2], 1)
      <4> HIDE DEF e
      <4> QED BY <1>1 DEF Written
    <3> HIDE DEF e, w
    <3> QED BY <3>1, <3>2
  <2>4. Body(e, text)
    <3> HIDE DEF e, text
    <3> QED BY <2>2, BodyOfExpression
  <2>5. Binding(e, w.clause)
    <3>1. CASE k = "lambda" /\ ~IsSection(e)
      <4>1. v = 0 /\ x \in STRING BY <3>1 DEF PartsWritten, NumbersOf, NamesIn
      <4>2. Len(parts) = 1 BY <3>1, Arities DEF PartsWritten
      <4>3. IsWritten(parts[1]) /\ ~IsArm(parts[1].e) BY <3>1, <4>2 DEF PartsWritten
      <4>4. e = Lambda(x, parts[1].e) BY <3>1, <4>1, <4>2, TreesOfParts DEF Lambda
      <4> HIDE DEF e
      <4>5. w.clause = Join(One(Id(x)), parts[1].clause) BY <1>1, <3>1 DEF Written, Join, One
      <4>6. Binding(parts[1].e, parts[1].clause) BY <4>3 DEF IsWritten
      <4> HIDE DEF w
      <4> QED BY <4>1, <4>4, <4>5, <4>6, BindingOfLambda
    <3>2. CASE ~(k = "lambda" /\ ~IsSection(e))
      <4> HIDE DEF e
      <4>1. w.clause = Join(One(Tok("=")), text) BY <1>1, <3>2 DEF Written, Join, One
      <4> HIDE DEF w, text
      <4> QED BY <2>2, <4>1, BindingOfExpression
    <3> QED BY <3>1, <3>2
  <2>6. Body(e, w.where)
    <3>1. CASE k = "let"
      <4>1. v = 0 /\ x \in STRING BY <3>1 DEF PartsWritten, NumbersOf, NamesIn
      <4>2. Len(parts) = 2 BY <3>1, Arities DEF PartsWritten
      <4> DEFINE a == parts[1]
      <4> DEFINE b == parts[2]
      <4>3. IsWritten(a) /\ ~IsArm(a.e) /\ IsWritten(b) /\ ~IsArm(b.e) BY <3>1, <4>2 DEF PartsWritten
      <4>4. e = Node("let", 0, x, <<a.e, b.e>>) BY <3>1, <4>1, <4>2, TreesOfParts
      <4> HIDE DEF e
      <4>5. w.where = At(b, 0) \o <<Tok("where"), Id(x)>> \o a.clause BY <1>1, <3>1 DEF Written
      <4> HIDE DEF w, a, b
      <4>6. Binding(a.e, a.clause) BY <4>3 DEF IsWritten
      <4>7. Standing(b.e, At(b, 0), 0)
        <5>1. 0 \in 0..10 OBVIOUS
        <5> QED BY <4>3, <5>1, PartStands
      <4>8. Body(Node("let", 0, x, <<a.e, b.e>>), At(b, 0) \o <<Tok("where"), Id(x)>> \o a.clause)
        BY <4>1, <4>6, <4>7, BodyOfWhere
      <4> QED BY <4>4, <4>5, <4>8
    <3>2. CASE k # "let"
      <4> HIDE DEF e
      <4>1. w.where = text BY <1>1, <3>2 DEF Written
      <4> HIDE DEF w, text
      <4> QED BY <2>4, <4>1
    <3> QED BY <3>1, <3>2
  <2> HIDE DEF e, w, text
  <2> QED BY <1>1, <1>2, <2>1, <2>3, <2>4, <2>5, <2>6
<1>5. IsArm(w.e) <=> k \in Patterns BY <1>1, <1>2 DEF IsArm
<1> HIDE DEF e, w, text
<1> QED BY <1>3, <1>4, <1>5 DEF IsWritten

-----------------------------------------------------------------------------
(* Programs *)

Bodies(p) == [i \in DOMAIN p |-> p[i].body]

(* What has been written of a program is read up to its end, whatever      *)
(* function follows.                                                       *)
SourceRead(s, bs) ==
  /\ s \in Seq(Token)
  /\ \A ts \in Texts, j \in Position : Spans(ts, 1, s, j) /\ Peek(ts, j) \in {"fn", "end"} =>
       ParseProgram(ts, 1, <<>>) = ParseProgram(ts, j, bs)

SourceInv ==
  /\ vocabulary \in Vocabularies
  /\ \E S : program \in Seq(S)
  /\ \E S : work \in Seq(S) /\ \A w \in S : IsWritten(w)
  /\ SourceRead(source, Bodies(program))
  /\ verdict # "none" => Len(program) = Len(vocabulary.functions) /\ bodies = Bodies(program)

LEMMA AppendBodies ==
  ASSUME NEW S, NEW p \in Seq(S), NEW f
  PROVE  Bodies(Append(p, f)) = Append(Bodies(p), f.body)
<1> DEFINE T == S \union {f}
<1> DEFINE B == {y.body : y \in T}
<1> DEFINE n == Len(p)
<1> DEFINE q == Append(p, f)
<1> DEFINE b == Bodies(p)
<1> DEFINE c == Bodies(q)
<1>1. p \in Seq(T) /\ f \in T /\ n \in Nat
  <2>1. S \subseteq T OBVIOUS
  <2> QED BY <2>1, SeqMonotonic, LenProperties
<1> HIDE DEF T
<1>2. q \in Seq(T) /\ Len(q) = n + 1 /\ (\A i \in 1..n : q[i] = p[i]) /\ q[n + 1] = f
  BY <1>1, AppendProperties
<1>3. DOMAIN p = 1..n /\ DOMAIN q = 1..(n + 1) BY <1>1, <1>2, LenProperties
<1> HIDE DEF n, q
<1>4. ASSUME NEW r, NEW m \in Nat, r \in Seq(T), DOMAIN r = 1..m
      PROVE  Bodies(r) \in Seq(B) /\ Len(Bodies(r)) = m /\ \A i \in 1..m : Bodies(r)[i] = r[i].body
  <2> DEFINE d == Bodies(r)
  <2>1. d = [i \in 1..m |-> r[i].body] BY <1>4 DEF Bodies
  <2>2. \A i \in 1..m : r[i] \in T
    <3>1. Len(r) = m BY <1>4, LenProperties
    <3> QED BY <1>4, <3>1, ElementOfSeq
  <2>3. d \in [1..m -> B] BY <2>1, <2>2
  <2> HIDE DEF d, B
  <2>4. d \in Seq(B) BY <2>3, SeqDef
  <2>5. Len(d) = m BY <2>1, <2>4, LenProperties
  <2> QED BY <2>1, <2>4, <2>5 DEF d
<1>5. b \in Seq(B) /\ Len(b) = n /\ \A i \in 1..n : b[i] = p[i].body BY <1>1, <1>3, <1>4
<1>6. c \in Seq(B) /\ Len(c) = n + 1 /\ \A i \in 1..(n + 1) : c[i] = q[i].body
  <2>1. n + 1 \in Nat BY <1>1
  <2> QED BY <1>2, <1>3, <1>4, <2>1
<1>7. f.body \in B BY <1>1
<1> HIDE DEF b, c, B
<1>8. /\ Append(b, f.body) \in Seq(B) /\ Len(Append(b, f.body)) = n + 1
      /\ (\A i \in 1..n : Append(b, f.body)[i] = b[i]) /\ Append(b, f.body)[n + 1] = f.body
  BY <1>5, <1>7, AppendProperties
<1>9. ASSUME NEW i \in 1..(n + 1) PROVE c[i] = Append(b, f.body)[i]
  <2>1. CASE i \in 1..n BY <1>2, <1>5, <1>6, <1>8, <2>1
  <2>2. CASE i = n + 1 BY <1>2, <1>6, <1>8, <2>2
  <2>3. i \in 1..n \/ i = n + 1 BY <1>1
  <2> QED BY <2>1, <2>2, <2>3
<1>10. c = Append(b, f.body) BY <1>6, <1>8, <1>9, SeqEqual
<1> QED BY <1>10 DEF b, c, q

LEMMA FunctionRead ==
  ASSUME IsParser, NEW s, NEW bs, SourceRead(s, bs), NEW x \in STRING, NEW e, NEW r, Body(e, r)
  PROVE  SourceRead(s \o (<<Tok("fn"), Id(x), Tok("=")>> \o r), Append(bs, e))
<1> DEFINE a == Tok("fn")
<1> DEFINE b == Id(x)
<1> DEFINE c == Tok("=")
<1> DEFINE u == <<a, b, c>> \o r
<1>0. /\ a \in Token /\ a.t = "fn" /\ c \in Token /\ c.t = "=" /\ b \in Token /\ b.t = "id"
  BY TokensAreTokens DEF Terminals
<1> HIDE DEF a, b, c
<1>1. IsText(r) /\ s \in Seq(Token) BY DEF Body, SourceRead
<1>2. IsText(u) BY <1>0, <1>1, AfterThree
<1>3. u \in Seq(Token) BY <1>2 DEF IsText
<1>4. s \o u \in Seq(Token)
  <2> HIDE DEF u
  <2> QED BY <1>1, <1>3, ConcatProperties
<1>5. ASSUME NEW ts \in Texts, NEW j \in Position, Spans(ts, 1, Join(s, u), j), Peek(ts, j) \in {"fn", "end"}
      PROVE  ParseProgram(ts, 1, <<>>) = ParseProgram(ts, j, Append(bs, e))
  <2>1. PICK k \in Position : Spans(ts, 1, s, k) /\ Spans(ts, k, u, j)
    <3> HIDE DEF u
    <3> QED BY <1>1, <1>3, <1>5, SpansTwo
  <2>2. /\ Peek(ts, k) = "fn" /\ Peek(ts, k + 1) = "id" /\ Peek(ts, k + 2) = "="
        /\ k + 3 \in Position /\ Spans(ts, k + 3, r, j)
    BY <1>0, <1>1, <2>1, AfterThree
  <2>3. ParseProgram(ts, 1, <<>>) = ParseProgram(ts, k, bs) BY <2>1, <2>2 DEF SourceRead
  <2>4. ParseBody(ts, k + 3) = Parsed(e, j) BY <1>5, <2>2 DEF Body
  <2>5. k # Len(ts) + 1
    <3>1. k \in DOMAIN ts BY <2>2 DEF Peek
    <3> QED BY <3>1, TextsAreTokens
  <2>6. ParseProgram(ts, k, bs) = ParseProgram(ts, j, Append(bs, e)) BY <2>2, <2>4, <2>5, ProgramReads
  <2> QED BY <2>3, <2>6
<1> HIDE DEF u
<1>6. SourceRead(s \o u, Append(bs, e)) BY <1>4, <1>5 DEF SourceRead, Join
<1> QED BY <1>6 DEF u, a, b, c

(* A whole text is read to its end.                                        *)
LEMMA WholeRead ==
  ASSUME IsParser, NEW ts \in Texts, NEW bs, SourceRead(ts, bs)
  PROVE  ParseProgram(ts, 1, <<>>) = bs
<1> DEFINE j == Len(ts) + 1
<1>1. Len(ts) \in Nat /\ DOMAIN ts = 1..Len(ts) BY TextsAreTokens
<1>2. j \in Position /\ 1 \in Position BY <1>1 DEF Position
<1>3. Peek(ts, j) = "end" BY <1>1 DEF Peek
<1>4. Spans(ts, 1, ts, j)
  <2>1. j = 1 + Len(ts) /\ j <= Len(ts) + 1 BY <1>1
  <2>2. \A k \in 1..Len(ts) : 1 + k - 1 = k BY <1>1
  <2>3. \A k \in 1..Len(ts) : ts[1 + k - 1] = ts[k] BY <2>2
  <2> QED BY <1>2, <2>1, <2>3 DEF Spans
<1>5. ParseProgram(ts, j, bs) = bs BY <1>2, ProgramReads
<1> HIDE DEF j
<1>6. ParseProgram(ts, 1, <<>>) = ParseProgram(ts, j, bs) BY <1>2, <1>3, <1>4 DEF SourceRead
<1> QED BY <1>5, <1>6

-----------------------------------------------------------------------------
(* The steps *)

LEMMA InitReads ==
  ASSUME Init
  PROVE  SourceInv
<1>1. source = <<>> /\ program = <<>> /\ work = <<>> /\ vocabulary \in Vocabularies /\ verdict = "none"
  BY DEF Init
<1>2. <<>> \in Seq({}) OBVIOUS
<1>3. Bodies(program) = <<>>
  <2>1. DOMAIN program = {} BY <1>1
  <2> QED BY <2>1 DEF Bodies
<1>4. source \in Seq(Token) /\ Len(source) = 0 BY <1>1
<1>5. ASSUME NEW ts \in Texts, NEW j \in Position, Spans(ts, 1, source, j)
      PROVE  j = 1
  BY <1>4, <1>5 DEF Spans
<1>6. SourceRead(source, <<>>) BY <1>4, <1>5 DEF SourceRead
<1>7. (\E S : program \in Seq(S)) /\ \E S : work \in Seq(S) /\ \A w \in S : IsWritten(w)
  <2>1. program \in Seq({}) /\ work \in Seq({}) BY <1>1, <1>2
  <2>2. \A w \in {} : IsWritten(w) OBVIOUS
  <2> QED BY <2>1, <2>2
<1> QED BY <1>1, <1>3, <1>6, <1>7 DEF SourceInv

(* The parts of the expression that Write adds are the last ones.          *)
LEMMA WriteTakes ==
  ASSUME vocabulary \in Vocabularies, Write, NEW S, work \in Seq(S)
  PROVE  \E w, parts, new :
           /\ IsWord(w) /\ parts \in Seq(S) /\ Len(parts) = w.arity /\ Fits(w, parts)
           /\ new = Written(Node(w.k, w.v, w.x, Trees(parts)), parts)
           /\ work' \in Seq(S \union {new})
           /\ UNCHANGED <<vocabulary, program, source, verdict, bodies>>
<1>1. PICK w \in vocabulary.words :
        LET n == Len(work) - w.arity
            parts == SubSeq(work, n + 1, Len(work))
            e == Node(w.k, w.v, w.x, [i \in DOMAIN parts |-> parts[i].e])
        IN /\ n \in 0..(Depth - 1) /\ Len(program) < Len(vocabulary.functions)
           /\ Fits(w, parts)
           /\ work' = Append(SubSeq(work, 1, n), Written(e, parts))
           /\ UNCHANGED <<vocabulary, program, source, verdict, bodies>>
  BY DEF Write
<1> DEFINE n == Len(work) - w.arity
<1> DEFINE parts == SubSeq(work, n + 1, Len(work))
<1> DEFINE new == Written(Node(w.k, w.v, w.x, Trees(parts)), parts)
<1>2. /\ n \in 0..(Depth - 1) /\ Fits(w, parts)
      /\ work' = Append(SubSeq(work, 1, n), new)
      /\ UNCHANGED <<vocabulary, program, source, verdict, bodies>>
  BY <1>1 DEF Trees
<1>4. IsWord(w) BY VocabulariesAssumption
<1>5. w.arity \in Nat
  <2>1. ArityOf(w.k) \subseteq Nat BY DEF ArityOf
  <2> QED BY <1>4, <2>1 DEF IsWord
<1>6. n \in Nat /\ Len(work) = n + w.arity /\ Len(work) \in Nat
  <2>1. Len(work) \in Nat BY LenProperties
  <2>2. n \in Int /\ n >= 0 BY <1>2, <1>5, <2>1
  <2> QED BY <1>5, <2>1, <2>2
<1> HIDE DEF n
<1>7. parts \in Seq(S) /\ Len(parts) = w.arity
  <2> DEFINE m == Len(work)
  <2>1. m \in Nat /\ n + 1 \in 1..(m + 1) /\ m = n + w.arity BY <1>5, <1>6
  <2> HIDE DEF m
  <2>2. SubSeq(work, n + 1, m) \in Seq(S) BY <2>1, SubSeqProperties DEF m
  <2>3. Len(SubSeq(work, n + 1, m)) = IF n + 1 <= m THEN m - (n + 1) + 1 ELSE 0
    BY <2>1, SubSeqProperties DEF m
  <2>4. Len(SubSeq(work, n + 1, m)) = w.arity BY <1>5, <1>6, <2>1, <2>3
  <2> QED BY <2>2, <2>4 DEF m
<1>8. work' \in Seq(S \union {new})
  <2> DEFINE r == SubSeq(work, 1, n)
  <2> DEFINE T == S \union {new}
  <2>1. r \in Seq(S) BY <1>5, <1>6, SubSeqProperties
  <2>2. S \subseteq T /\ new \in T OBVIOUS
  <2>3. work' = Append(r, new) BY <1>2
  <2> HIDE DEF r, T, new
  <2>4. r \in Seq(T) BY <2>1, <2>2, SeqMonotonic
  <2>5. work' \in Seq(T) BY <2>2, <2>3, <2>4, AppendProperties
  <2> QED BY <2>5 DEF T
<1>9. new = Written(Node(w.k, w.v, w.x, Trees(parts)), parts) OBVIOUS
<1> HIDE DEF new, parts
<1> QED BY <1>2, <1>4, <1>7, <1>8, <1>9

LEMMA WriteReads ==
  ASSUME IsParser, SourceInv, Write
  PROVE  SourceInv'
<1>1. PICK S : work \in Seq(S) /\ \A y \in S : IsWritten(y) BY DEF SourceInv
<1>2. vocabulary \in Vocabularies BY DEF SourceInv
<1>3. PICK w, parts, new :
        /\ IsWord(w) /\ parts \in Seq(S) /\ Len(parts) = w.arity /\ Fits(w, parts)
        /\ new = Written(Node(w.k, w.v, w.x, Trees(parts)), parts)
        /\ work' \in Seq(S \union {new})
        /\ UNCHANGED <<vocabulary, program, source, verdict, bodies>>
  BY <1>1, <1>2, WriteTakes
<1>4. \A i \in 1..Len(parts) : IsWritten(parts[i]) BY <1>1, <1>3, ElementOfSeq
<1>5. PartsWritten(w.k, w.v, w.x, parts)
  <2>1. w.v \in NumbersOf(w.k) /\ w.x \in NamesIn(w.k) /\ Len(parts) \in ArityOf(w.k)
    BY <1>3 DEF IsWord
  <2>2. IF w.k = "match" THEN ~IsArm(parts[1].e) /\ \A i \in 2..Len(parts) : IsArm(parts[i].e)
        ELSE \A i \in 1..Len(parts) : ~IsArm(parts[i].e)
    BY <1>3 DEF Fits
  <2> QED BY <1>4, <2>1, <2>2 DEF PartsWritten
<1>6. IsWritten(new) BY <1>3, <1>5, WrittenIsWritten
<1>7. \E U : work' \in Seq(U) /\ \A y \in U : IsWritten(y)
  <2>1. \A y \in S \union {new} : IsWritten(y) BY <1>1, <1>6
  <2> QED BY <1>3, <2>1
<1> QED BY <1>3, <1>7 DEF SourceInv

LEMMA FinishReads ==
  ASSUME IsParser, SourceInv, Finish
  PROVE  SourceInv'
<1> DEFINE f == vocabulary.functions[Len(program) + 1]
<1> DEFINE new == [name |-> f.name, params |-> f.params, ret |-> f.ret, body |-> work[1].e]
<1>1. PICK style \in {"let", "where"} :
        /\ Len(program) < Len(vocabulary.functions) /\ Len(work) = 1 /\ ~IsArm(work[1].e)
        /\ program' = Append(program, new)
        /\ source' = source \o FunctionText(f.name, work[1], style)
        /\ work' = <<>>
        /\ UNCHANGED <<vocabulary, verdict, bodies>>
  BY DEF Finish
<1>2. PICK S : work \in Seq(S) /\ \A y \in S : IsWritten(y) BY DEF SourceInv
<1>3. PICK P : program \in Seq(P) BY DEF SourceInv
<1>4. f.name \in STRING
  <2> DEFINE F == ToSet(vocabulary.functions)
  <2>1. vocabulary.functions \in Seq(F) /\ \A g \in F : g.name \in STRING
    BY VocabulariesAssumption DEF SourceInv
  <2> HIDE DEF F
  <2>2. Len(program) \in Nat /\ Len(vocabulary.functions) \in Nat BY <1>3, <2>1, LenProperties
  <2>3. Len(program) + 1 \in 1..Len(vocabulary.functions) BY <1>1, <2>2
  <2>4. f \in F BY <2>1, <2>3, ElementOfSeq
  <2> HIDE DEF f
  <2> QED BY <2>1, <2>4
<1> DEFINE w == work[1]
<1>5. IsWritten(w) /\ ~IsArm(w.e)
  <2>1. 1 \in 1..Len(work) BY <1>1
  <2>2. work[1] \in S BY <1>2, <2>1, ElementOfSeq
  <2> QED BY <1>1, <1>2, <2>2
<1> DEFINE text == IF style = "where" THEN w.where ELSE w.text
<1>6. Body(w.e, text) BY <1>5 DEF IsWritten
<1>7. source' = source \o (<<Tok("fn"), Id(f.name), Tok("=")>> \o text) BY <1>1 DEF FunctionText
<1>8. program' = Append(program, new) /\ new.body = w.e BY <1>1
<1> DEFINE x == f.name
<1> DEFINE y == w.e
<1> HIDE DEF text, x, y
<1>9. SourceRead(source \o (<<Tok("fn"), Id(x), Tok("=")>> \o text), Append(Bodies(program), y))
  <2>1. SourceRead(source, Bodies(program)) BY DEF SourceInv
  <2>2. Body(y, text) /\ x \in STRING BY <1>4, <1>6 DEF x, y
  <2> QED BY <2>1, <2>2, FunctionRead
<1> HIDE DEF w, new
<1>10. Bodies(program') = Append(Bodies(program), y) BY <1>3, <1>8, AppendBodies DEF y
<1>11. SourceRead(source', Bodies(program')) BY <1>7, <1>9, <1>10 DEF x
<1>12. \E U : program' \in Seq(U)
  <2>1. new \in P \union {new} /\ P \subseteq P \union {new} OBVIOUS
  <2> DEFINE U == P \union {new}
  <2> HIDE DEF U
  <2>2. program \in Seq(U) BY <1>3, <2>1, SeqMonotonic DEF U
  <2>3. program' \in Seq(U) BY <1>8, <2>1, <2>2, AppendProperties DEF U
  <2> QED BY <2>3
<1>13. \E U : work' \in Seq(U) /\ \A z \in U : IsWritten(z)
  <2>1. work' \in Seq({}) /\ \A z \in {} : IsWritten(z) BY <1>1
  <2> QED BY <2>1
<1>14. verdict = "none"
  <2>1. Len(program) \in Nat BY <1>3, LenProperties
  <2>2. Len(program) # Len(vocabulary.functions) BY <1>1, <2>1
  <2> QED BY <2>2 DEF SourceInv
<1>15. vocabulary' \in Vocabularies /\ verdict' = "none" BY <1>1, <1>14 DEF SourceInv
<1> QED BY <1>11, <1>12, <1>13, <1>15 DEF SourceInv

LEMMA CompileReads ==
  ASSUME IsParser, SourceInv, CompileFile
  PROVE  SourceInv'
<1>1. /\ Len(program) = Len(vocabulary.functions) /\ Printable(source)
      /\ bodies' = ParseProgram(source, 1, <<>>)
      /\ UNCHANGED <<vocabulary, program, source, work>>
  BY DEF CompileFile
<1>2. SourceRead(source, Bodies(program)) BY DEF SourceInv
<1>3. source \in Texts BY <1>1, <1>2 DEF Texts, SourceRead
<1>4. bodies' = Bodies(program) BY <1>1, <1>2, <1>3, WholeRead
<1> QED BY <1>1, <1>4 DEF SourceInv

LEMMA SourceInvNext ==
  ASSUME IsParser, SourceInv, [Next]_vars
  PROVE  SourceInv'
<1>1. CASE Write BY <1>1, WriteReads
<1>2. CASE Finish BY <1>2, FinishReads
<1>3. CASE CompileFile BY <1>3, CompileReads
<1>4. CASE CallFunction
  <2>1. UNCHANGED <<vocabulary, program, source, work, verdict, bodies>> BY <1>4 DEF CallFunction
  <2> QED BY <2>1 DEF SourceInv
<1>5. CASE UNCHANGED vars
  <2>1. UNCHANGED <<vocabulary, program, source, work, verdict, bodies>> BY <1>5 DEF vars
  <2> QED BY <2>1 DEF SourceInv
<1> QED BY <1>1, <1>2, <1>3, <1>4, <1>5 DEF Next

LEMMA SourceInvAlways ==
  ASSUME IsParser
  PROVE  Spec => []SourceInv
<1>1. Init => SourceInv BY InitReads
<1>2. SourceInv /\ [Next]_vars => SourceInv' BY SourceInvNext
<1> QED BY <1>1, <1>2, PTL DEF Spec

(* The source of a program is read as it was written, whatever the words   *)
(* of the program, its size and the depth of its expressions: the parser's *)
(* precedence and associativity are those of FELT.md:143, and every        *)
(* section, lambda, match and where clause ends where it should            *)
(* (parse_expr, parser.rs:294).                                            *)
THEOREM SourceParsed ==
  ASSUME IsParser
  PROVE  Spec => []ParsesAsWritten
<1>1. SourceInv => ParsesAsWritten BY DEF SourceInv, ParsesAsWritten, Bodies
<1> QED BY <1>1, SourceInvAlways, PTL

-----------------------------------------------------------------------------
(* The functions that a function calls *)

(* Calls is what its rule says of it.                                      *)
FindsCalls ==
  \A S : \A es \in Seq(S) : \A k, v, x, names :
    Calls(Node(k, v, x, es), names) = CallsRule(Node(k, v, x, es), names)

(* What an expression calls is among the names.                            *)
CallsNames(e) == \A names : Calls(e, names) \in Seq(names)

LEMMA FlattenNames ==
  ASSUME NEW N, NEW seqs, Len(seqs) \in Nat, Len(seqs) = 0 => seqs \in Seq(N),
         \A i \in 1..Len(seqs) : seqs[i] \in Seq(N)
  PROVE  FlattenSeq(seqs) \in Seq(N)
<1>1. CASE Len(seqs) = 0
  BY <1>1 DEF FlattenSeq
<1>2. CASE Len(seqs) # 0
  <2> DEFINE n == Len(seqs)
  <2>1. PICK f : /\ f[1] = seqs[1]
                 /\ \A i \in 2..n : f[i] = f[i - 1] \o seqs[i]
                 /\ FlattenSeq(seqs) = f[n]
    BY <1>2, FlattenDefined
  <2> DEFINE M == {m \in Nat : m < n => f[m + 1] \in Seq(N)}
  <2>2. n \in Nat \ {0} BY <1>2
  <2>3. \A i \in 1..n : seqs[i] \in Seq(N) OBVIOUS
  <2> HIDE DEF n
  <2>4. 0 \in M
    <3>1. 1 \in 1..n BY <2>2
    <3>2. f[1] \in Seq(N) BY <2>1, <2>3, <3>1
    <3> QED BY <3>2
  <2>5. ASSUME NEW m \in Nat, m \in M PROVE m + 1 \in M
    <3> SUFFICES ASSUME m + 1 < n PROVE f[(m + 1) + 1] \in Seq(N) OBVIOUS
    <3> DEFINE k == (m + 1) + 1
    <3>1. k \in 2..n /\ k \in 1..n /\ k - 1 = m + 1 /\ m < n BY <2>2
    <3>2. f[m + 1] \in Seq(N) BY <2>5, <3>1
    <3>3. f[k] = f[m + 1] \o seqs[k] BY <2>1, <3>1
    <3>4. seqs[k] \in Seq(N) BY <2>3, <3>1
    <3> HIDE DEF k
    <3>5. f[k] \in Seq(N) BY <3>2, <3>3, <3>4, ConcatProperties
    <3> QED BY <3>5 DEF k
  <2>6. n - 1 \in M
    <3> HIDE DEF M
    <3>1. n - 1 \in Nat BY <2>2
    <3> QED BY <2>4, <2>5, <3>1, Induction
  <2>7. f[n] \in Seq(N)
    <3>1. n - 1 \in Nat /\ n - 1 < n /\ (n - 1) + 1 = n BY <2>2
    <3> QED BY <2>6, <3>1
  <2> QED BY <2>1, <2>7
<1> QED BY <1>1, <1>2

LEMMA NodeCalls ==
  ASSUME FindsCalls, NEW S, NEW es \in Seq(S), NEW k, NEW v, NEW x,
         \A i \in 1..Len(es) : CallsNames(es[i])
  PROVE  CallsNames(Node(k, v, x, es))
<1> SUFFICES ASSUME NEW N PROVE Calls(Node(k, v, x, es), N) \in Seq(N) BY DEF CallsNames
<1> DEFINE e == Node(k, v, x, es)
<1>1. Calls(e, N) = CallsRule(e, N) BY DEF FindsCalls
<1>2. e.k = k /\ e.x = x /\ e.es = es BY DEF Node
<1> HIDE DEF e
<1>3. CASE k = "ident" /\ x \in N
  <2>1. <<x>> \in Seq(N) BY <1>3
  <2> QED BY <1>1, <1>2, <1>3, <2>1 DEF CallsRule, e
<1>4. CASE k = "ident" /\ x \notin N
  <2>1. <<>> \in Seq(N) OBVIOUS
  <2> QED BY <1>1, <1>2, <1>4, <2>1 DEF CallsRule, e
<1>5. CASE k # "ident"
  <2> DEFINE n == Len(es)
  <2> DEFINE seqs == [i \in DOMAIN es |-> Calls(es[i], N)]
  <2>1. n \in Nat /\ DOMAIN es = 1..n BY LenProperties
  <2>2. \A i \in 1..n : Calls(es[i], N) \in Seq(N) BY DEF CallsNames
  <2>3. seqs = [i \in 1..n |-> Calls(es[i], N)] BY <2>1
  <2>4. seqs \in [1..n -> Seq(N)] BY <2>2, <2>3
  <2>5. Calls(e, N) = FlattenSeq(seqs) BY <1>1, <1>2, <1>5 DEF CallsRule
  <2> HIDE DEF n, seqs
  <2>6. seqs \in Seq(Seq(N)) BY <2>1, <2>4, SeqDef
  <2>7. Len(seqs) = n BY <2>1, <2>4, <2>6, LenProperties
  <2>8. \A i \in 1..Len(seqs) : seqs[i] \in Seq(N) BY <2>4, <2>7
  <2>9. Len(seqs) = 0 => seqs \in Seq(N)
    <3> HAVE Len(seqs) = 0
    <3>1. seqs = <<>> BY <2>6, EmptySeq
    <3> QED BY <3>1
  <2>10. FlattenSeq(seqs) \in Seq(N) BY <2>1, <2>7, <2>8, <2>9, FlattenNames
  <2> QED BY <2>5, <2>10 DEF e
<1> QED BY <1>3, <1>4, <1>5

-----------------------------------------------------------------------------
(* Who reaches whom *)

LEMMA MentionsSet ==
  ASSUME NEW calls, NEW N, NEW x, calls[x] \in Seq(N)
  PROVE  \A y : Mentions(calls, x, y) <=> y \in ToSet(calls[x])
<1>1. DOMAIN calls[x] = 1..Len(calls[x]) BY LenProperties
<1> QED BY <1>1 DEF Mentions, ToSet

LEMMA ReachesBack ==
  ASSUME NEW calls, \A x \in DOMAIN calls : calls[x] \in Seq(DOMAIN calls)
  PROVE  (\E x \in DOMAIN calls : x \in Reaches(calls, x)) <=> \E c : IsCycle(calls, c)
<1> DEFINE N == DOMAIN calls
<1>1. \A x \in N : \A y : Mentions(calls, x, y) <=> y \in ToSet(calls[x]) BY MentionsSet
<1>2. \A x \in N : ToSet(calls[x]) \subseteq N
  <2> SUFFICES ASSUME NEW x \in N, NEW y \in ToSet(calls[x]) PROVE y \in N OBVIOUS
  <2>1. PICK i \in 1..Len(calls[x]) : calls[x][i] = y BY <1>1 DEF Mentions
  <2> QED BY <2>1, ElementOfSeq
<1>3. ASSUME NEW c, IsCycle(calls, c) PROVE \E x \in N : x \in Reaches(calls, x)
  <2> DEFINE x == c[1]
  <2>1. c \in Seq(N) /\ Len(c) \in Nat /\ Len(c) >= 2 /\ x = c[Len(c)] /\ IsWalk(calls, c)
    BY <1>3, LenProperties DEF IsCycle
  <2>2. 1 \in 1..Len(c) /\ 2 \in 1..Len(c) /\ Len(c) \in 2..Len(c) /\ 1 \in 1..(Len(c) - 1) BY <2>1
  <2>3. x \in N BY <2>1, <2>2, ElementOfSeq
  <2>4. Mentions(calls, x, c[2])
    <3>1. Mentions(calls, c[1], c[1 + 1]) BY <2>1, <2>2 DEF IsWalk
    <3> QED BY <3>1
  <2> HIDE DEF x
  <2>5. ASSUME NEW S \in SUBSET N, \A z \in S \union {x} : ToSet(calls[z]) \subseteq S
        PROVE  x \in S
    <3>1. c[2] \in S BY <1>1, <2>3, <2>4, <2>5
    <3>2. \A z \in S, y \in N : Mentions(calls, z, y) => y \in S BY <1>1, <2>5
    <3>3. \A j \in 2..Len(c) : c[j] \in S BY <2>1, <2>2, <3>1, <3>2, WalkStays
    <3> QED BY <2>1, <2>2, <3>3
  <2>6. x \in Reaches(calls, x) BY <2>3, <2>5 DEF Reaches
  <2> QED BY <2>3, <2>6
<1>4. ASSUME NEW x \in N, x \in Reaches(calls, x) PROVE \E c : IsCycle(calls, c)
  <2> DEFINE Walk(p, y) == p \in Seq(N) /\ Len(p) >= 2 /\ p[1] = x /\ p[Len(p)] = y /\ IsWalk(calls, p)
  <2> DEFINE S == {y \in N : \E p : Walk(p, y)}
  <2>1. ASSUME NEW z \in S, NEW y \in ToSet(calls[z]) PROVE y \in S
    <3>1. z \in N /\ y \in N BY <1>2, <2>1
    <3>2. PICK p : Walk(p, z) BY <2>1
    <3> DEFINE q == Append(p, y)
    <3> DEFINE n == Len(p)
    <3>3. n \in Nat /\ n >= 2 /\ p \in Seq(N) /\ p[1] = x /\ p[n] = z /\ IsWalk(calls, p) BY <3>2, LenProperties
    <3>4. q \in Seq(N) /\ Len(q) = n + 1 /\ (\A i \in 1..n : q[i] = p[i]) /\ q[n + 1] = y
      BY <3>1, <3>3, AppendProperties
    <3> HIDE DEF q
    <3>5. ASSUME NEW i \in 1..(Len(q) - 1) PROVE Mentions(calls, q[i], q[i + 1])
      <4>1. n = Len(p) OBVIOUS
      <4> HIDE DEF n
      <4>2. CASE i = n
        <5>1. n \in 1..n BY <3>3
        <5>2. Mentions(calls, z, y) BY <1>1, <3>1, <2>1
        <5> QED BY <3>3, <3>4, <4>2, <5>1, <5>2
      <4>3. CASE i \in 1..(n - 1)
        <5>1. i \in 1..n /\ i + 1 \in 1..n BY <3>3, <4>3
        <5>2. Mentions(calls, p[i], p[i + 1]) BY <3>3, <4>1, <4>3 DEF IsWalk
        <5> QED BY <3>4, <5>1, <5>2
      <4>4. i = n \/ i \in 1..(n - 1) BY <3>3, <3>4
      <4> QED BY <4>2, <4>3, <4>4
    <3>6. IsWalk(calls, q) BY <3>5 DEF IsWalk
    <3>7. Len(q) >= 2 /\ 1 \in 1..n BY <3>3, <3>4
    <3>8. q[1] = x /\ q[Len(q)] = y BY <3>3, <3>4, <3>7
    <3>9. Walk(q, y) BY <3>4, <3>6, <3>7, <3>8
    <3> QED BY <3>1, <3>9
  <2>2. ASSUME NEW y \in ToSet(calls[x]) PROVE y \in S
    <3>1. y \in N BY <1>2
    <3> DEFINE q == <<x, y>>
    <3>2. q \in Seq(N) /\ Len(q) = 2 /\ q[1] = x /\ q[2] = y BY <3>1
    <3> HIDE DEF q
    <3>3. Mentions(calls, x, y) BY <1>1
    <3>4. ASSUME NEW i \in 1..(Len(q) - 1) PROVE Mentions(calls, q[i], q[i + 1])
      <4>1. i = 1 BY <3>2
      <4> QED BY <3>2, <3>3, <4>1
    <3>5. Walk(q, y) BY <3>2, <3>4 DEF IsWalk
    <3> QED BY <3>1, <3>5
  <2>3. x \in S
    <3>1. S \in SUBSET N OBVIOUS
    <3> HIDE DEF S
    <3>2. \A z \in S \union {x} : ToSet(calls[z]) \subseteq S BY <2>1, <2>2
    <3> QED BY <1>4, <3>1, <3>2 DEF Reaches
  <2>4. PICK c : Walk(c, x) BY <2>3
  <2>5. IsCycle(calls, c) BY <2>4 DEF IsCycle
  <2> QED BY <2>5
<1> QED BY <1>3, <1>4

-----------------------------------------------------------------------------
(* Recursion is refused *)

IsFunction(f) ==
  f = [name |-> f.name, params |-> f.params, ret |-> f.ret, body |-> f.body] /\ CallsNames(f.body)

CallsInv ==
  /\ \E S : work \in Seq(S) /\ \A w \in S : CallsNames(w.e)
  /\ \E P : program \in Seq(P) /\ \A f \in P : IsFunction(f)
  /\ verdict \in {"recursion", "compiled"} => (verdict = "recursion" <=> Cycle(program) # <<>>)

LEMMA InitCalls ==
  ASSUME Init
  PROVE  CallsInv
<1>1. program = <<>> /\ work = <<>> /\ verdict = "none" BY DEF Init
<1>2. <<>> \in Seq({}) /\ (\A w \in {} : CallsNames(w.e)) /\ \A f \in {} : IsFunction(f) OBVIOUS
<1>3. \E S : work \in Seq(S) /\ \A w \in S : CallsNames(w.e) BY <1>1, <1>2
<1>4. \E P : program \in Seq(P) /\ \A f \in P : IsFunction(f) BY <1>1, <1>2
<1> QED BY <1>1, <1>3, <1>4 DEF CallsInv

LEMMA WriteCalls ==
  ASSUME FindsCalls, SourceInv, CallsInv, Write
  PROVE  CallsInv'
<1>1. PICK S : work \in Seq(S) /\ \A y \in S : CallsNames(y.e) BY DEF CallsInv
<1>2. vocabulary \in Vocabularies BY DEF SourceInv
<1>3. PICK w, parts, new :
        /\ parts \in Seq(S)
        /\ new = Written(Node(w.k, w.v, w.x, Trees(parts)), parts)
        /\ work' \in Seq(S \union {new})
        /\ UNCHANGED <<vocabulary, program, source, verdict, bodies>>
  BY <1>1, <1>2, WriteTakes
<1> DEFINE es == Trees(parts)
<1>4. /\ es \in Seq({y.e : y \in S}) /\ Len(es) = Len(parts)
      /\ \A i \in 1..Len(parts) : es[i] = parts[i].e
  BY <1>3, TreesOfParts
<1>5. \A i \in 1..Len(parts) : CallsNames(parts[i].e) BY <1>1, <1>3, ElementOfSeq
<1> HIDE DEF es
<1>6. CallsNames(Node(w.k, w.v, w.x, es)) BY <1>4, <1>5, NodeCalls
<1>7. new.e = Node(w.k, w.v, w.x, es) BY <1>3 DEF es, Written
<1>8. \E U : work' \in Seq(U) /\ \A y \in U : CallsNames(y.e)
  <2>1. \A y \in S \union {new} : CallsNames(y.e) BY <1>1, <1>6, <1>7
  <2> QED BY <1>3, <2>1
<1> QED BY <1>3, <1>8 DEF CallsInv

LEMMA FinishCalls ==
  ASSUME SourceInv, CallsInv, Finish
  PROVE  CallsInv'
<1> DEFINE f == vocabulary.functions[Len(program) + 1]
<1> DEFINE new == [name |-> f.name, params |-> f.params, ret |-> f.ret, body |-> work[1].e]
<1>1. /\ Len(program) < Len(vocabulary.functions) /\ Len(work) = 1
      /\ program' = Append(program, new) /\ work' = <<>> /\ verdict' = verdict
  BY DEF Finish
<1>2. PICK S : work \in Seq(S) /\ \A y \in S : CallsNames(y.e) BY DEF CallsInv
<1>3. PICK P : program \in Seq(P) /\ \A g \in P : IsFunction(g) BY DEF CallsInv
<1>4. CallsNames(work[1].e)
  <2>1. 1 \in 1..Len(work) BY <1>1
  <2> QED BY <1>2, <2>1, ElementOfSeq
<1>5. IsFunction(new) BY <1>4 DEF IsFunction
<1> HIDE DEF new
<1>6. \E U : program' \in Seq(U) /\ \A g \in U : IsFunction(g)
  <2> DEFINE U == P \union {new}
  <2>1. new \in U /\ P \subseteq U OBVIOUS
  <2>2. \A g \in U : IsFunction(g) BY <1>3, <1>5
  <2> HIDE DEF U
  <2>3. program \in Seq(U) BY <1>3, <2>1, SeqMonotonic
  <2>4. program' \in Seq(U) BY <1>1, <2>1, <2>3, AppendProperties
  <2> QED BY <2>2, <2>4
<1>7. \E U : work' \in Seq(U) /\ \A y \in U : CallsNames(y.e)
  <2>1. work' \in Seq({}) /\ \A y \in {} : CallsNames(y.e) BY <1>1
  <2> QED BY <2>1
<1>8. verdict' = "none"
  <2>1. Len(program) \in Nat BY <1>3, LenProperties
  <2>2. Len(program) # Len(vocabulary.functions) BY <1>1, <2>1
  <2> QED BY <1>1, <2>2 DEF SourceInv
<1> QED BY <1>6, <1>7, <1>8 DEF CallsInv

(* What is judged is what was written: the parser read it.                 *)
LEMMA CompileCalls ==
  ASSUME SourceInv', CallsInv, CompileFile
  PROVE  CallsInv'
<1> DEFINE p == [i \in DOMAIN program |-> [program[i] EXCEPT !.body = bodies'[i]]]
<1>1. /\ UNCHANGED <<vocabulary, program, source, work>>
      /\ IF bodies' = <<>> THEN verdict' = "syntax error" ELSE verdict' = Judge(p)
  BY DEF CompileFile
<1>2. verdict' # "none"
  BY <1>1 DEF Judge
<1>3. bodies' = Bodies(program) BY <1>1, <1>2 DEF SourceInv
<1>4. PICK P : program \in Seq(P) /\ \A g \in P : IsFunction(g) BY DEF CallsInv
<1>5. p = program
  <2>1. DOMAIN program = 1..Len(program) /\ program = [i \in DOMAIN program |-> program[i]]
    BY <1>4, LenProperties, SeqDef
  <2>2. ASSUME NEW i \in DOMAIN program PROVE [program[i] EXCEPT !.body = bodies'[i]] = program[i]
    <3>1. program[i] \in P BY <1>4, <2>1, <2>2, ElementOfSeq
    <3>2. IsFunction(program[i]) BY <1>4, <3>1
    <3>3. bodies'[i] = program[i].body BY <1>3, <2>2 DEF Bodies
    <3> DEFINE g == program[i]
    <3>4. g = [name |-> g.name, params |-> g.params, ret |-> g.ret, body |-> g.body] BY <3>2 DEF IsFunction
    <3> HIDE DEF g
    <3>5. [g EXCEPT !.body = g.body] = g BY <3>4
    <3> QED BY <3>3, <3>5 DEF g
  <2> QED BY <2>1, <2>2
<1> HIDE DEF p
<1>6. verdict' \in {"recursion", "compiled"} => (verdict' = "recursion" <=> Cycle(program) # <<>>)
  <2>1. Judge(program) \in {"recursion", "compiled"} =>
          (Judge(program) = "recursion" <=> Cycle(program) # <<>>)
    BY DEF Judge
  <2>2. CASE bodies' = <<>> BY <1>1, <2>2
  <2>3. CASE bodies' # <<>> BY <1>1, <1>5, <2>1, <2>3
  <2> QED BY <2>2, <2>3
<1> QED BY <1>1, <1>6 DEF CallsInv

LEMMA CallsInvNext ==
  ASSUME FindsCalls, SourceInv, SourceInv', CallsInv, [Next]_vars
  PROVE  CallsInv'
<1>1. CASE Write BY <1>1, WriteCalls
<1>2. CASE Finish BY <1>2, FinishCalls
<1>3. CASE CompileFile BY <1>3, CompileCalls
<1>4. CASE CallFunction
  <2>1. UNCHANGED <<program, work, verdict>> BY <1>4 DEF CallFunction
  <2> QED BY <2>1 DEF CallsInv
<1>5. CASE UNCHANGED vars
  <2>1. UNCHANGED <<program, work, verdict>> BY <1>5 DEF vars
  <2> QED BY <2>1 DEF CallsInv
<1> QED BY <1>1, <1>2, <1>3, <1>4, <1>5 DEF Next

LEMMA CalleesOfProgram ==
  ASSUME NEW P, NEW p \in Seq(P), \A f \in P : IsFunction(f)
  PROVE  LET calls == Callees(p)
         IN /\ DOMAIN calls = NamesOf(p) /\ IsFiniteSet(NamesOf(p))
            /\ \A x \in NamesOf(p) : calls[x] \in Seq(NamesOf(p))
            /\ NamesInOrder(p) \in Seq(NamesOf(p))
            /\ \A x \in NamesOf(p) : \E i \in 1..Len(NamesInOrder(p)) : NamesInOrder(p)[i] = x
<1> DEFINE N == NamesOf(p)
<1> DEFINE n == Len(p)
<1> DEFINE names == NamesInOrder(p)
<1>1. DOMAIN p = 1..n /\ n \in Nat BY LenProperties
<1> HIDE DEF n
<1>2. N = {p[i].name : i \in 1..n} BY <1>1 DEF NamesOf
<1>3. names = [i \in 1..n |-> p[i].name] BY <1>1 DEF NamesInOrder
<1>4. names \in Seq(N) /\ Len(names) = n
  <2>1. names \in [1..n -> N] BY <1>2, <1>3
  <2> HIDE DEF N, names
  <2>2. names \in Seq(N) BY <1>1, <2>1, SeqDef
  <2>3. Len(names) = n BY <1>1, <2>1, <2>2, LenProperties
  <2> QED BY <2>2, <2>3
<1>5. \A x \in N : \E i \in 1..n : names[i] = x BY <1>2, <1>3
<1>6. IsFiniteSet(N)
  <2>1. IsFiniteSet(1..n) BY <1>1, FS_Interval
  <2> DEFINE D == 1..n
  <2>2. IsFiniteSet(D) /\ N = {names[i] : i \in D} BY <1>2, <1>3, <2>1
  <2>3. names \in Surjection(D, N)
    <3>1. names \in [D -> N] BY <1>2, <1>3
    <3>2. \A x \in N : \E i \in D : names[i] = x BY <1>5
    <3> HIDE DEF D, N, names
    <3> QED BY <3>1, <3>2 DEF Surjection
  <2> HIDE DEF D, N, names
  <2> QED BY <2>2, <2>3, FS_Surjection
<1>7. ASSUME NEW x \in N PROVE Callees(p)[x] \in Seq(N)
  <2> DEFINE i == CHOOSE i \in DOMAIN p : p[i].name = x
  <2>1. \E j \in DOMAIN p : p[j].name = x BY DEF NamesOf
  <2>2. i \in DOMAIN p BY <2>1
  <2>3. Callees(p)[x] = Calls(p[i].body, N) BY DEF Callees
  <2> HIDE DEF i, N
  <2>4. p[i] \in P BY <1>1, <2>2, ElementOfSeq DEF n
  <2>5. CallsNames(p[i].body) BY <2>4 DEF IsFunction
  <2> QED BY <2>3, <2>5 DEF CallsNames
<1>8. DOMAIN Callees(p) = N BY DEF Callees
<1> HIDE DEF N, names
<1>9. /\ DOMAIN Callees(p) = N /\ IsFiniteSet(N) /\ \A x \in N : Callees(p)[x] \in Seq(N)
      /\ names \in Seq(N) /\ \A x \in N : \E i \in 1..Len(names) : names[i] = x
  BY <1>4, <1>5, <1>6, <1>7, <1>8
<1> QED BY <1>9 DEF N, names

LEMMA RefusedWhenInv ==
  ASSUME CallsInv
  PROVE  RecursionRefused
<1> DEFINE calls == Callees(program)
<1> DEFINE c == Cycle(program)
<1>1. PICK P : program \in Seq(P) /\ \A f \in P : IsFunction(f) BY DEF CallsInv
<1> DEFINE N == DOMAIN calls
<1> DEFINE names == NamesInOrder(program)
<1>2. /\ IsFiniteSet(N) /\ \A x \in N : calls[x] \in Seq(N)
      /\ names \in Seq(N) /\ \A x \in N : \E i \in 1..Len(names) : names[i] = x
  BY <1>1, CalleesOfProgram
<1>3. c = CycleFrom(calls, names) BY DEF Cycle
<1> HIDE DEF calls, c, names
<1>4. (c # <<>> <=> \E d : IsCycle(calls, d)) /\ (c # <<>> => IsCycle(calls, c))
  BY <1>2, <1>3, RecursionIsFound
<1>5. (\E x \in N : x \in Reaches(calls, x)) <=> \E d : IsCycle(calls, d) BY <1>2, ReachesBack
<1>6. verdict \in {"recursion", "compiled"} =>
        ((verdict = "recursion") <=> \E x \in N : x \in Reaches(calls, x))
  BY <1>4, <1>5 DEF CallsInv, c
<1>7. ASSUME IsCycle(calls, c)
      PROVE  c[1] = Last(c) /\ \A i \in 1..(Len(c) - 1) : c[i + 1] \in ToSet(calls[c[i]])
  <2>1. c \in Seq(N) /\ Len(c) \in Nat /\ Len(c) >= 2 /\ c[1] = c[Len(c)] /\ IsWalk(calls, c)
    BY <1>7, LenProperties DEF IsCycle
  <2>2. c[1] = Last(c) BY <2>1 DEF Last
  <2>3. ASSUME NEW i \in 1..(Len(c) - 1) PROVE c[i + 1] \in ToSet(calls[c[i]])
    <3>1. i \in 1..Len(c) BY <2>1
    <3>2. c[i] \in N BY <2>1, <3>1, ElementOfSeq
    <3>3. Mentions(calls, c[i], c[i + 1]) BY <2>1 DEF IsWalk
    <3> QED BY <1>2, <3>2, <3>3, MentionsSet
  <2> QED BY <2>2, <2>3
<1>8. verdict = "recursion" => IsCycle(calls, c) BY <1>4 DEF CallsInv, c
<1> QED BY <1>6, <1>7, <1>8 DEF RecursionRefused, calls, c

(* A program that is parsed as its rules say is refused exactly if one of  *)
(* its functions can reach itself, and the cycle reported is one, whatever *)
(* the type checker accepts and however many functions there are           *)
(* (check_no_cycles, callgraph.rs:16, called on what collect_calls finds). *)
THEOREM RecursionAlwaysRefused ==
  ASSUME IsParser, FindsCalls
  PROVE  Spec => []RecursionRefused
<1> DEFINE Inv == SourceInv /\ CallsInv
<1>1. Init => Inv BY InitReads, InitCalls
<1>2. Inv /\ [Next]_vars => Inv'
  <2> SUFFICES ASSUME SourceInv, CallsInv, [Next]_vars PROVE SourceInv' /\ CallsInv' OBVIOUS
  <2>1. SourceInv' BY SourceInvNext
  <2>2. CallsInv' BY <2>1, CallsInvNext
  <2> QED BY <2>1, <2>2
<1>3. Inv => RecursionRefused BY RefusedWhenInv
<1> QED BY <1>1, <1>2, <1>3, PTL DEF Spec
=============================================================================
