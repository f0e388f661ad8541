------------------------------ MODULE MCBoard -------------------------------
(* Five definitions on small boards with one position off the board: a     *)
(* dense grid with capture and lines, stacks of two with a mask, sparse    *)
(* grids with and without dimensions, stacks without limit, fog of war.    *)
EXTENDS Board

MCPoints == {<<0, 0>>, <<1, 0>>, <<2, 0>>, <<0, 1>>, <<1, 1>>}

Walk == [primitive |-> "step", direction |-> {"orthogonal"}, distance |-> 1,
         condition |-> "empty_or_enemy", dx |-> 0, dy |-> 0]
Jump == [Walk EXCEPT !.primitive = "hop", !.direction = {}]
Rider == [Walk EXCEPT !.primitive = "slide"]
Knight == [Walk EXCEPT !.primitive = "leap", !.dx = 1, !.dy = 2]
Exchange == [Walk EXCEPT !.primitive = "swap"]
Forward == [Walk EXCEPT !.direction = {"forward", "backward_diagonal"}, !.condition = "empty"]

Captures == [width |-> 2, height |-> 2, storage |-> "dense", bounded |-> TRUE,
             mask |-> MCPoints, limit |-> 1, vision |-> 0, unseen |-> "visible",
             adjacency |-> "none", lines |-> TRUE,
             movement |-> [man |-> {Walk, Exchange}]]
Towers == [Captures EXCEPT !.limit = 2, !.width = 3, !.mask = MCPoints \ {<<1, 1>>},
             !.lines = FALSE, !.adjacency = "orthogonal4",
             !.movement = [man |-> {Rider, Jump}]]
Plain == [Captures EXCEPT !.storage = "sparse", !.bounded = FALSE, !.limit = 0,
             !.lines = FALSE, !.adjacency = "hex6",
             !.movement = [man |-> {Jump, Knight}]]
Sparse == [Captures EXCEPT !.storage = "sparse", !.lines = FALSE,
             !.movement = [man |-> {Forward}]]
Foggy == [Captures EXCEPT !.width = 3, !.height = 1, !.lines = FALSE, !.vision = 1,
             !.unseen = "unexplored", !.movement = [man |-> {Walk}]]

MCDefs == {Captures, Towers, Plain, Sparse, Foggy}
=============================================================================
