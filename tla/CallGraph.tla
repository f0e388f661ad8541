----------------------------- MODULE CallGraph ------------------------------
(***************************************************************************)
(* The search for recursion in the call graph of a Felt program            *)
(* (callgraph.rs): depth first, and the first cycle found is reported.     *)
(*                                                                         *)
(* A graph maps each function to the functions that its body mentions, in  *)
(* order.  path holds the functions being searched; in_stack is its set.   *)
(***************************************************************************)
EXTENDS Integers, FiniteSets, Sequences, SequencesExt

(* The state of a search: visited, path, and the cycle when there is one.  *)
Search(Names) == [visited : SUBSET Names, path : Seq(Names), cycle : Seq(Names)]

NewSearch == [visited |-> {}, path |-> <<>>, cycle |-> <<>>]

Enter(s, x) == [s EXCEPT !.visited = @ \union {x}, !.path = Append(@, x)]

(* A search that found a cycle returns without looking back.               *)
Leave(s) == IF s.cycle # <<>> THEN s ELSE [s EXCEPT !.path = Front(@)]

(* The path from y on, and back to y.                                      *)
CloseCycle(s, y) ==
  LET start == CHOOSE i \in DOMAIN s.path : s.path[i] = y
  IN [s EXCEPT !.cycle = Append(SubSeq(s.path, start, Len(s.path)), y)]

(* A function mentioned: deeper[y] searches from y.  At the top the path   *)
(* is empty, and a function visited before is passed over.                 *)
Follow(deeper, s, y) ==
  IF s.cycle # <<>> THEN s
  ELSE IF y \notin s.visited THEN deeper[y][s]
  ELSE IF y \in ToSet(s.path) THEN CloseCycle(s, y)
  ELSE s

FollowAll(deeper, s, ys) ==
  LET after[i \in 0..Len(ys)] == IF i = 0 THEN s ELSE Follow(deeper, after[i - 1], ys[i])
  IN after[Len(ys)]

Visit(calls, deeper) ==
  [x \in DOMAIN calls |-> [s \in Search(DOMAIN calls) |->
     Leave(FollowAll(deeper, Enter(s, x), calls[x]))]]

(* dfs, by how much deeper it can go: a path visits a function once.       *)
Dfs(calls) ==
  LET dfs[n \in 0..Cardinality(DOMAIN calls)] ==
        IF n = 0 THEN <<>> ELSE Visit(calls, dfs[n - 1])
  IN dfs[Cardinality(DOMAIN calls)]

(* The cycle found by searching from the functions named, in this order.   *)
CycleFrom(calls, names) == FollowAll(Dfs(calls), NewSearch, names).cycle
=============================================================================
