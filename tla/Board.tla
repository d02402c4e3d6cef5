------------------------------- MODULE Board -------------------------------
(***************************************************************************)
(* A position and a move on it (board.py): captures first, then suicide.   *)
(* Points are <<x, y>>, stones a function from points to colours.          *)
(***************************************************************************)
EXTENDS Naturals, FiniteSets

CONSTANT Size
ASSUME SizeAssumption == Size \in 2 .. 25

Empty  == "empty"
Black  == "black"
White  == "white"
Points == (0 .. Size - 1) \X (0 .. Size - 1)

Opponent(color) == IF color = Black THEN White ELSE Black

Neighbours ==
  [p \in Points |-> {q \in Points : \/ q[2] = p[2] /\ (q[1] = p[1] + 1 \/ p[1] = q[1] + 1)
                                    \/ q[1] = p[1] /\ (q[2] = p[2] + 1 \/ p[2] = q[2] + 1)}]

\* _chain: the stones of one colour connected to a point
Chain(stones, p) ==
  LET same == {q \in Points : stones[q] = stones[p]}
      reach[n \in 0 .. Cardinality(same)] ==
        IF n = 0 THEN {p} ELSE UNION {{q} \cup (Neighbours[q] \cap same) : q \in reach[n - 1]}
  IN reach[Cardinality(same)]

HasLiberty(stones, chain) == \E p \in chain : \E q \in Neighbours[p] : stones[q] = Empty

Without(stones, gone) == [p \in Points |-> IF p \in gone THEN Empty ELSE stones[p]]

\* bug: only the enemy's chains are looked at
Lost_EnemyOnly(placed, p) ==
  LET enemies == {q \in Neighbours[p] : placed[q] = Opponent(placed[p])}
  IN UNION {c \in {Chain(placed, q) : q \in enemies} : ~HasLiberty(placed, c)}

\* the stones a stone just placed takes off: enemy chains without a liberty, or else its own
Lost(placed, p) ==
  LET enemies  == {q \in Neighbours[p] : placed[q] = Opponent(placed[p])}
      captured == UNION {c \in {Chain(placed, q) : q \in enemies} : ~HasLiberty(placed, c)}
      own      == Chain(placed, p)
  IN IF captured # {} THEN captured ELSE IF HasLiberty(placed, own) THEN {} ELSE own

Placed(stones, color, p) == [stones EXCEPT ![p] = color]

CountOf(stones, color) == Cardinality({p \in Points : stones[p] = color})
=============================================================================
