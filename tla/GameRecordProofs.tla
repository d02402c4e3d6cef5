-------------------------- MODULE GameRecordProofs --------------------------
(***************************************************************************)
(* Theorems of the game record: the indexes are exact, the line keeps the  *)
(* rule of ko, stones and prisoners add up and chains have liberties, for  *)
(* any board, setup, rule set and limit of moves.                          *)
(***************************************************************************)
EXTENDS GameRecord, FiniteSetTheorems, WellFoundedInduction, TLAPS

-----------------------------------------------------------------------------
(* The operators on an index.  K is the key of each ply of a line.         *)

\* Every key of the line is in the index, and nothing else, at a ply that has it, no later than
\* any other ply that has it.
Exact(table, K) ==
  /\ DOMAIN table = {K[i] : i \in DOMAIN K}
  /\ \A i \in DOMAIN K : /\ table[K[i]] \in DOMAIN K
                         /\ table[K[i]] <= i
                         /\ K[table[K[i]]] = K[i]

LEMMA MinIs ==
  ASSUME NEW S, S \subseteq Int, NEW x \in S, \A y \in S : x <= y
  PROVE  Min(S) = x
<1>1. \A y \in S : (\A z \in S : y <= z) => y = x
  OBVIOUS
<1> QED BY <1>1 DEF Min

\* _truncate: what stays of an index is the index of the line up to the ply, although a key of
\* a dropped ply may be that of a ply that stays.
LEMMA KeptIsExact ==
  ASSUME NEW n \in Nat, NEW m \in 0 .. n, NEW K, DOMAIN K = 0 .. n, NEW table, Exact(table, K)
  PROVE  Exact(Kept(table, {K[i] : i \in m + 1 .. n}, m), [i \in 0 .. m |-> K[i]])
<1> DEFINE dropped == {K[i] : i \in m + 1 .. n}
           kept    == Kept(table, dropped, m)
           L       == [i \in 0 .. m |-> K[i]]
<1>1. DOMAIN kept = {k \in DOMAIN table : ~(k \in dropped /\ table[k] > m)}
  BY DEF Kept
<1>2. \A k \in DOMAIN kept : kept[k] = table[k]
  BY DEF Kept
<1>3. ASSUME NEW i \in 0 .. m PROVE K[i] \in DOMAIN kept /\ table[K[i]] <= i
  BY <1>1 DEF Exact
<1>4. ASSUME NEW k \in DOMAIN kept PROVE \E i \in 0 .. m : k = K[i]
  <2>1. PICK i \in 0 .. n : k = K[i]
    BY <1>1 DEF Exact
  <2>2. CASE i \in m + 1 .. n
    <3>1. table[k] \in 0 .. n /\ ~(table[k] > m) /\ K[table[k]] = k
      BY <1>1, <2>1, <2>2 DEF Exact
    <3> QED BY <3>1
  <2> QED BY <2>1, <2>2
<1>5. DOMAIN kept = {L[i] : i \in DOMAIN L}
  BY <1>3, <1>4
<1>6. ASSUME NEW i \in 0 .. m
      PROVE  kept[K[i]] \in 0 .. m /\ kept[K[i]] <= i /\ K[kept[K[i]]] = K[i]
  BY <1>2, <1>3 DEF Exact
<1> HIDE DEF kept
<1>7. Exact(kept, L)
  BY <1>5, <1>6 DEF Exact
<1> QED BY <1>7 DEF kept

\* setdefault: a ply is entered after the line.
LEMMA EnteredIsExact ==
  ASSUME NEW m \in Nat, NEW K, DOMAIN K = 0 .. m, NEW table, Exact(table, K), NEW key
  PROVE  Exact(Entered(table, key, m + 1), [i \in 0 .. m + 1 |-> IF i = m + 1 THEN key ELSE K[i]])
<1> DEFINE L == [i \in 0 .. m + 1 |-> IF i = m + 1 THEN key ELSE K[i]]
           entered == Entered(table, key, m + 1)
<1>1. DOMAIN entered = DOMAIN table \cup {key}
  BY DEF Entered
<1>2. \A k \in DOMAIN entered : entered[k] = IF k \in DOMAIN table THEN table[k] ELSE m + 1
  BY DEF Entered
<1> HIDE DEF entered
<1>3. DOMAIN entered = {L[i] : i \in DOMAIN L}
  <2>1. \A i \in 0 .. m : L[i] = K[i]
    OBVIOUS
  <2>2. L[m + 1] = key
    OBVIOUS
  <2> QED BY <1>1, <2>1, <2>2 DEF Exact
<1>4. ASSUME NEW i \in 0 .. m
      PROVE  entered[K[i]] \in 0 .. m /\ entered[K[i]] <= i /\ K[entered[K[i]]] = K[i]
  BY <1>1, <1>2 DEF Exact
<1>5. entered[key] \in 0 .. m + 1 /\ entered[key] <= m + 1 /\ L[entered[key]] = key
  <2>1. CASE key \in DOMAIN table
    <3>1. PICK i \in 0 .. m : key = K[i]
      BY <2>1 DEF Exact
    <3> QED BY <1>4, <3>1
  <2>2. CASE key \notin DOMAIN table
    BY <1>1, <1>2, <2>2
  <2> QED BY <2>1, <2>2
<1>6. Exact(entered, L)
  BY <1>3, <1>4, <1>5 DEF Exact
<1> QED BY <1>6 DEF entered

-----------------------------------------------------------------------------
(* The line.                                                               *)

Boards  == [Points -> {Empty, Black, White}]
MoveSet == [color : {Black, White}, point : Points \cup {Pass}]

LineType ==
  /\ moves \in Seq(MoveSet)
  /\ snapshots \in Seq(Boards) /\ Len(snapshots) = Len(moves) + 1
  /\ cursor \in 0 .. Len(moves)
  /\ first \in {Black, White}
  /\ rules.ko \in {"simple", "positional", "situational"}

\* The keys of the two indexes.
Positions       == [i \in Plies |-> Ply(i)]
PositionsToPlay == [i \in Plies |-> <<Ply(i), ToPlay(i)>>]

IndexInv == Exact(firstSeen, Positions) /\ Exact(firstSeenToPlay, PositionsToPlay)

LineInv == LineType /\ IndexInv /\ LineIsLegal

LEMMA IndexImplies == LineType /\ IndexInv => IndexIsExact
<1> SUFFICES ASSUME LineType, IndexInv PROVE IndexIsExact
  OBVIOUS
<1>1. Plies \subseteq Int
  BY DEF Plies, LineType
<1>2. DOMAIN firstSeen = {Ply(i) : i \in Plies}
  BY DEF IndexInv, Exact, Positions
<1>3. DOMAIN firstSeenToPlay = {<<Ply(i), ToPlay(i)>> : i \in Plies}
  BY DEF IndexInv, Exact, PositionsToPlay
<1>4. ASSUME NEW i \in Plies PROVE firstSeen[Ply(i)] = Min({j \in Plies : Ply(j) = Ply(i)})
  <2> DEFINE S == {j \in Plies : Ply(j) = Ply(i)}
             x == firstSeen[Ply(i)]
  <2>1. \A j \in Plies : /\ firstSeen[Ply(j)] \in Plies /\ firstSeen[Ply(j)] <= j
                         /\ Ply(firstSeen[Ply(j)]) = Ply(j)
    BY DEF IndexInv, Exact, Positions
  <2>2. x \in S /\ \A y \in S : x <= y
    BY <2>1
  <2> QED BY <1>1, <2>2, MinIs
<1>5. ASSUME NEW i \in Plies
      PROVE  firstSeenToPlay[<<Ply(i), ToPlay(i)>>] =
               Min({j \in Plies : Ply(j) = Ply(i) /\ ToPlay(j) = ToPlay(i)})
  <2> DEFINE S == {j \in Plies : Ply(j) = Ply(i) /\ ToPlay(j) = ToPlay(i)}
             x == firstSeenToPlay[<<Ply(i), ToPlay(i)>>]
  <2>1. \A j \in Plies : LET y == firstSeenToPlay[<<Ply(j), ToPlay(j)>>] IN
                         y \in Plies /\ y <= j /\ <<Ply(y), ToPlay(y)>> = <<Ply(j), ToPlay(j)>>
    BY DEF IndexInv, Exact, PositionsToPlay
  <2>2. x \in S /\ \A y \in S : x <= y
    BY <2>1
  <2> QED BY <1>1, <2>2, MinIs
<1> QED BY <1>2, <1>3, <1>4, <1>5 DEF IndexIsExact

LEMMA LineInit == Init => LineInv
<1> SUFFICES ASSUME Init PROVE LineInv
  OBVIOUS
<1>1. PICK s \in Setups : /\ first = s.first
                          /\ snapshots = <<s.stones>>
                          /\ firstSeen = [k \in {s.stones} |-> 0]
                          /\ firstSeenToPlay = [k \in {<<s.stones, s.first>>} |-> 0]
  BY DEF Init
<1>2. moves = <<>> /\ cursor = 0 /\ Plies = {0}
  BY DEF Init, Plies
<1>3. s.stones \in Boards /\ s.first \in {Black, White}
  BY SetupsAssumption DEF Boards
<1>4. rules.ko \in {"simple", "positional", "situational"}
  BY RulesAssumption DEF Init
<1>5. LineType
  BY <1>1, <1>2, <1>3, <1>4 DEF LineType
<1>6. Ply(0) = s.stones /\ ToPlay(0) = s.first
  BY <1>1 DEF Ply, ToPlay
<1>7. Exact(firstSeen, Positions)
  BY <1>1, <1>2, <1>6 DEF Exact, Positions
<1>8. Exact(firstSeenToPlay, PositionsToPlay)
  BY <1>1, <1>2, <1>6 DEF Exact, PositionsToPlay
<1>9. LineIsLegal
  BY <1>2 DEF LineIsLegal
<1> QED BY <1>5, <1>7, <1>8, <1>9 DEF LineInv, IndexInv

LEMMA TruncatedIsExact ==
  ASSUME LineType, IndexInv, NEW ply \in 0 .. Len(moves)
  PROVE  LET t == Truncated(ply) IN
         /\ t.moves \in Seq(MoveSet) /\ Len(t.moves) = ply
         /\ \A i \in 1 .. ply : t.moves[i] = moves[i]
         /\ t.snapshots \in Seq(Boards) /\ Len(t.snapshots) = ply + 1
         /\ \A i \in 1 .. ply + 1 : t.snapshots[i] = snapshots[i]
         /\ Exact(t.seen, [i \in 0 .. ply |-> Ply(i)])
         /\ Exact(t.toPlay, [i \in 0 .. ply |-> <<Ply(i), ToPlay(i)>>])
<1> DEFINE n == Len(moves)
           t == Truncated(ply)
<1>1. n \in Nat /\ ply \in 0 .. n
  BY DEF LineType
<1>2. t.moves = SubSeq(moves, 1, ply) /\ t.snapshots = SubSeq(snapshots, 1, ply + 1)
  BY DEF Truncated
<1>3. /\ t.moves \in Seq(MoveSet) /\ Len(t.moves) = ply
      /\ \A i \in 1 .. ply : t.moves[i] = moves[i]
  BY <1>1, <1>2 DEF LineType
<1>4. /\ t.snapshots \in Seq(Boards) /\ Len(t.snapshots) = ply + 1
      /\ \A i \in 1 .. ply + 1 : t.snapshots[i] = snapshots[i]
  BY <1>1, <1>2 DEF LineType
<1>5. Exact(t.seen, [i \in 0 .. ply |-> Ply(i)])
  <2>1. t.seen = Kept(firstSeen, {Ply(i) : i \in ply + 1 .. n}, ply)
    BY DEF Truncated
  <2>2. {Ply(i) : i \in ply + 1 .. n} = {Positions[i] : i \in ply + 1 .. n}
    <3>1. \A i \in ply + 1 .. n : Positions[i] = Ply(i)
      BY <1>1 DEF Positions, Plies
    <3> QED BY <3>1
  <2>3. [i \in 0 .. ply |-> Ply(i)] = [i \in 0 .. ply |-> Positions[i]]
    BY <1>1 DEF Positions, Plies
  <2>4. DOMAIN Positions = 0 .. n /\ Exact(firstSeen, Positions)
    BY DEF Positions, Plies, IndexInv
  <2>5. Exact(Kept(firstSeen, {Positions[i] : i \in ply + 1 .. n}, ply), [i \in 0 .. ply |-> Positions[i]])
    BY <1>1, <2>4, KeptIsExact
  <2> QED BY <2>1, <2>2, <2>3, <2>5
<1>6. Exact(t.toPlay, [i \in 0 .. ply |-> <<Ply(i), ToPlay(i)>>])
  <2>1. t.toPlay = Kept(firstSeenToPlay,
                        {<<Ply(i), Opponent(moves[i].color)>> : i \in ply + 1 .. n}, ply)
    BY DEF Truncated
  <2>2. {<<Ply(i), Opponent(moves[i].color)>> : i \in ply + 1 .. n}
          = {PositionsToPlay[i] : i \in ply + 1 .. n}
    <3>1. \A i \in ply + 1 .. n : PositionsToPlay[i] = <<Ply(i), Opponent(moves[i].color)>>
      BY <1>1 DEF PositionsToPlay, Plies, ToPlay
    <3> QED BY <3>1
  <2>3. [i \in 0 .. ply |-> <<Ply(i), ToPlay(i)>>] = [i \in 0 .. ply |-> PositionsToPlay[i]]
    BY <1>1 DEF PositionsToPlay, Plies
  <2>4. DOMAIN PositionsToPlay = 0 .. n /\ Exact(firstSeenToPlay, PositionsToPlay)
    BY DEF PositionsToPlay, Plies, IndexInv
  <2>5. Exact(Kept(firstSeenToPlay, {PositionsToPlay[i] : i \in ply + 1 .. n}, ply), [i \in 0 .. ply |-> PositionsToPlay[i]])
    BY <1>1, <2>4, KeptIsExact
  <2> QED BY <2>1, <2>2, <2>3, <2>5
<1> QED BY <1>3, <1>4, <1>5, <1>6

\* undo and branch
LEMMA BecomesStep ==
  ASSUME LineInv, NEW ply \in 0 .. Len(moves), Becomes(Truncated(ply)), cursor' = ply,
         UNCHANGED <<rules, first>>
  PROVE  LineInv'
<1> USE DEF LineInv
<1> DEFINE t == Truncated(ply)
<1>1. /\ moves' = t.moves /\ snapshots' = t.snapshots
      /\ firstSeen' = t.seen /\ firstSeenToPlay' = t.toPlay
  BY DEF Becomes
<1>2. /\ t.moves \in Seq(MoveSet) /\ Len(t.moves) = ply
      /\ \A i \in 1 .. ply : t.moves[i] = moves[i]
      /\ t.snapshots \in Seq(Boards) /\ Len(t.snapshots) = ply + 1
      /\ \A i \in 1 .. ply + 1 : t.snapshots[i] = snapshots[i]
      /\ Exact(t.seen, [i \in 0 .. ply |-> Ply(i)])
      /\ Exact(t.toPlay, [i \in 0 .. ply |-> <<Ply(i), ToPlay(i)>>])
  BY TruncatedIsExact
<1> HIDE DEF t
<1>3. LineType'
  BY <1>1, <1>2 DEF LineType
<1>4. Plies' = 0 .. ply /\ ply \in Nat /\ \A i \in 0 .. ply : Ply(i)' = Ply(i) /\ ToPlay(i)' = ToPlay(i)
  BY <1>1, <1>2 DEF Plies, Ply, ToPlay, LineType
<1>5. IndexInv'
  <2>1. Positions' = [i \in 0 .. ply |-> Ply(i)]
    BY <1>4 DEF Positions
  <2>2. PositionsToPlay' = [i \in 0 .. ply |-> <<Ply(i), ToPlay(i)>>]
    BY <1>4 DEF PositionsToPlay
  <2> QED BY <1>1, <1>2, <2>1, <2>2 DEF IndexInv
<1>6. LineIsLegal'
  <2> SUFFICES ASSUME NEW j \in 1 .. ply, moves[j].point # Pass
               PROVE  CASE rules.ko = "simple" -> j = 1 \/ Ply(j)' # Ply(j - 2)'
                        [] rules.ko = "positional" -> \A i \in 0 .. j - 1 : Ply(i)' # Ply(j)'
                        [] rules.ko = "situational" ->
                             \A i \in 0 .. j - 1 : ~(Ply(i)' = Ply(j)' /\ ToPlay(i)' = ToPlay(j)')
    BY <1>1, <1>2 DEF LineIsLegal
  <2>1. j \in 1 .. Len(moves)
    BY DEF LineType
  <2>2. CASE rules.ko = "simple"
    BY <1>4, <2>1, <2>2 DEF LineIsLegal
  <2>3. CASE rules.ko = "positional"
    BY <1>4, <2>1, <2>3 DEF LineIsLegal
  <2>4. CASE rules.ko = "situational"
    BY <1>4, <2>1, <2>4 DEF LineIsLegal
  <2> QED BY <2>2, <2>3, <2>4 DEF LineType
<1> QED BY <1>3, <1>5, <1>6

LEMMA PlayStep ==
  ASSUME LineInv, NEW color \in {Black, White}, NEW point \in Points \cup {Pass}, Play(color, point)
  PROVE  LineInv'
<1> USE DEF LineInv
<1>0. PICK ply \in Nat : ply = cursor + 1
  BY DEF LineType
<1> DEFINE t      == Truncated(cursor)
           stones == IF point = Pass THEN Ply(cursor) ELSE Placed(Ply(cursor), color, point)
           lost   == IF point = Pass THEN {} ELSE Lost(stones, point)
           key    == Without(stones, lost)
           move   == [color |-> color, point |-> point]
<1>1. /\ Legal(color, point, lost, key) /\ cursor' = ply
      /\ moves' = Append(t.moves, move) /\ snapshots' = Append(t.snapshots, key)
      /\ firstSeen' = Entered(t.seen, key, ply)
      /\ firstSeenToPlay' = Entered(t.toPlay, <<key, Opponent(color)>>, ply)
      /\ rules' = rules /\ first' = first
  BY <1>0 DEF Play
<1>2. cursor \in 0 .. Len(moves) /\ cursor \in Nat /\ ply = cursor + 1
  BY <1>0 DEF LineType
<1>3. /\ t.moves \in Seq(MoveSet) /\ Len(t.moves) = cursor
      /\ \A i \in 1 .. cursor : t.moves[i] = moves[i]
      /\ t.snapshots \in Seq(Boards) /\ Len(t.snapshots) = cursor + 1
      /\ \A i \in 1 .. cursor + 1 : t.snapshots[i] = snapshots[i]
      /\ Exact(t.seen, [i \in 0 .. cursor |-> Ply(i)])
      /\ Exact(t.toPlay, [i \in 0 .. cursor |-> <<Ply(i), ToPlay(i)>>])
  BY <1>2, TruncatedIsExact
<1>4. move \in MoveSet /\ move.color = color /\ move.point = point
  BY DEF MoveSet
<1>5. key \in Boards
  <2>1. Ply(cursor) \in Boards
    BY <1>2 DEF Ply, LineType
  <2>2. stones \in Boards
    BY <2>1 DEF Placed, Boards
  <2> QED BY <2>2 DEF Without, Boards
<1> HIDE DEF t, key, lost, stones, move
<1>6. LineType'
  BY <1>1, <1>2, <1>3, <1>4, <1>5 DEF LineType
<1>7. /\ Plies' = 0 .. ply /\ Len(moves') = ply /\ moves'[ply] = move
      /\ \A i \in 1 .. cursor : moves'[i] = moves[i]
      /\ \A i \in 0 .. cursor : Ply(i)' = Ply(i) /\ ToPlay(i)' = ToPlay(i)
      /\ Ply(ply)' = key /\ ToPlay(ply)' = Opponent(color)
  <2>1. /\ Len(moves') = ply /\ moves'[ply] = move
        /\ \A i \in 1 .. cursor : moves'[i] = moves[i]
    BY <1>1, <1>2, <1>3, <1>4
  <2>2. /\ snapshots'[ply + 1] = key
        /\ \A i \in 1 .. ply : snapshots'[i] = snapshots[i]
    BY <1>1, <1>2, <1>3, <1>5
  <2>3. Plies' = 0 .. ply
    BY <2>1 DEF Plies
  <2>4. Ply(ply)' = key /\ ToPlay(ply)' = Opponent(color)
    BY <1>2, <1>4, <2>1, <2>2 DEF Ply, ToPlay
  <2>5. ASSUME NEW i \in 0 .. cursor PROVE Ply(i)' = Ply(i) /\ ToPlay(i)' = ToPlay(i)
    <3>1. Ply(i)' = Ply(i)
      BY <1>2, <2>2 DEF Ply
    <3>2. ToPlay(i)' = ToPlay(i)
      BY <1>1, <1>2, <2>1 DEF ToPlay
    <3> QED BY <3>1, <3>2
  <2> QED BY <2>1, <2>3, <2>4, <2>5
<1>8. IndexInv'
  <2> DEFINE K == [i \in 0 .. cursor |-> Ply(i)]
             M == [i \in 0 .. cursor |-> <<Ply(i), ToPlay(i)>>]
  <2>1. DOMAIN K = 0 .. cursor /\ DOMAIN M = 0 .. cursor /\ Exact(t.seen, K) /\ Exact(t.toPlay, M)
    BY <1>3
  <2>2. \A i \in 0 .. cursor : K[i] = Ply(i) /\ M[i] = <<Ply(i), ToPlay(i)>>
    OBVIOUS
  <2> HIDE DEF K, M
  <2>3. Exact(firstSeen', [i \in 0 .. cursor + 1 |-> IF i = cursor + 1 THEN key ELSE K[i]])
    BY <1>1, <1>2, <2>1, EnteredIsExact
  <2>4. Exact(firstSeenToPlay',
              [i \in 0 .. cursor + 1 |-> IF i = cursor + 1 THEN <<key, Opponent(color)>> ELSE M[i]])
    BY <1>1, <1>2, <2>1, EnteredIsExact
  <2>5. Positions' = [i \in 0 .. cursor + 1 |-> IF i = cursor + 1 THEN key ELSE K[i]]
    BY <1>2, <1>7, <2>2 DEF Positions
  <2>6. PositionsToPlay' =
          [i \in 0 .. cursor + 1 |-> IF i = cursor + 1 THEN <<key, Opponent(color)>> ELSE M[i]]
    BY <1>2, <1>7, <2>2 DEF PositionsToPlay
  <2> QED BY <2>3, <2>4, <2>5, <2>6 DEF IndexInv
<1>9. point # Pass => ~Repeats(color, key)
  BY <1>1 DEF Legal
<1>10. ASSUME NEW i \in 0 .. cursor
       PROVE  /\ Ply(i) = key => SeenBy(firstSeen, key, cursor)
              /\ Ply(i) = key /\ ToPlay(i) = Opponent(color) =>
                   SeenBy(firstSeenToPlay, <<key, Opponent(color)>>, cursor)
  <2>1. i \in Plies
    BY <1>2 DEF Plies, LineType
  <2>2. /\ Ply(i) \in DOMAIN firstSeen /\ firstSeen[Ply(i)] \in Plies /\ firstSeen[Ply(i)] <= i
    BY <2>1 DEF IndexInv, Exact, Positions
  <2>3. /\ <<Ply(i), ToPlay(i)>> \in DOMAIN firstSeenToPlay
        /\ firstSeenToPlay[<<Ply(i), ToPlay(i)>>] \in Plies
        /\ firstSeenToPlay[<<Ply(i), ToPlay(i)>>] <= i
    BY <2>1 DEF IndexInv, Exact, PositionsToPlay
  <2>4. \A n \in Plies : n <= i => n <= cursor
    BY <1>2 DEF Plies, LineType
  <2>5. Ply(i) = key => SeenBy(firstSeen, key, cursor)
    BY <2>2, <2>4 DEF SeenBy
  <2>6. Ply(i) = key /\ ToPlay(i) = Opponent(color) =>
          SeenBy(firstSeenToPlay, <<key, Opponent(color)>>, cursor)
    BY <2>3, <2>4 DEF SeenBy
  <2> QED BY <2>5, <2>6
<1>11. LineIsLegal'
  <2> SUFFICES ASSUME NEW j \in 1 .. ply, moves'[j].point # Pass
               PROVE  CASE rules.ko = "simple" -> j = 1 \/ Ply(j)' # Ply(j - 2)'
                        [] rules.ko = "positional" -> \A i \in 0 .. j - 1 : Ply(i)' # Ply(j)'
                        [] rules.ko = "situational" ->
                             \A i \in 0 .. j - 1 : ~(Ply(i)' = Ply(j)' /\ ToPlay(i)' = ToPlay(j)')
    BY <1>1, <1>7 DEF LineIsLegal
  <2>1. CASE j \in 1 .. cursor
    <3>1. j \in 1 .. Len(moves) /\ moves[j].point # Pass
      BY <1>1, <1>2, <1>3, <1>4, <2>1 DEF LineType
    <3>2. CASE rules.ko = "simple"
      BY <1>2, <1>7, <2>1, <3>1, <3>2 DEF LineIsLegal
    <3>3. CASE rules.ko = "positional"
      BY <1>2, <1>7, <2>1, <3>1, <3>3 DEF LineIsLegal
    <3>4. CASE rules.ko = "situational"
      BY <1>2, <1>7, <2>1, <3>1, <3>4 DEF LineIsLegal
    <3> QED BY <3>2, <3>3, <3>4 DEF LineType
  <2>2. CASE j = ply
    <3>1. ~Repeats(color, key)
      BY <1>1, <1>2, <1>3, <1>4, <1>9, <2>2
    <3>2. CASE rules.ko = "simple"
      BY <1>2, <1>7, <2>2, <3>1, <3>2 DEF Repeats
    <3>3. CASE rules.ko = "positional"
      BY <1>2, <1>7, <1>10, <2>2, <3>1, <3>3 DEF Repeats
    <3>4. CASE rules.ko = "situational"
      BY <1>2, <1>7, <1>10, <2>2, <3>1, <3>4 DEF Repeats
    <3> QED BY <3>2, <3>3, <3>4 DEF LineType
  <2>3. j \in 1 .. cursor \/ j = ply
    BY <1>2
  <2> QED BY <2>1, <2>2, <2>3
<1> QED BY <1>6, <1>8, <1>11

LEMMA LineStep == LineInv /\ [Next]_vars => LineInv'
<1> SUFFICES ASSUME LineInv, [Next]_vars PROVE LineInv'
  OBVIOUS
<1>1. ASSUME NEW color \in {Black, White}, NEW point \in Points \cup {Pass}, Play(color, point)
      PROVE  LineInv'
  BY <1>1, PlayStep
<1>2. CASE Undo /\ cursor # 0
  BY <1>2, BecomesStep DEF Undo, LineInv, LineType
<1>3. CASE Branch
  BY <1>3, BecomesStep DEF Branch, LineInv, LineType
<1>4. ASSUME UNCHANGED <<rules, first, line>>, cursor' \in 0 .. Len(moves) PROVE LineInv'
  BY <1>4 DEF line, index, LineInv, LineType, IndexInv, Positions, PositionsToPlay, Plies, Ply,
              ToPlay, LineIsLegal
<1>5. CASE Navigate \/ (Undo /\ cursor = 0) \/ UNCHANGED vars
  BY <1>4, <1>5 DEF Navigate, Undo, vars, LineInv, LineType
<1> QED BY <1>1, <1>2, <1>3, <1>5 DEF Next

LEMMA LineSafe == Spec => []LineInv
  BY LineInit, LineStep, PTL DEF Spec

\* After any plays, also in the past, undos, branches and navigation, each index holds every
\* position of the line and no other, at the first ply it occurred (_truncate and the
\* setdefaults of play, game.py).
THEOREM IndexExact == Spec => []IndexIsExact
<1>1. LineInv => IndexIsExact
  BY IndexImplies DEF LineInv
<1> QED BY <1>1, LineSafe, PTL

\* No stone on the line repeats what the rule of ko in force forbids, although legality is
\* decided from the indexes and the position before last alone (_attempt of game.py).
THEOREM LineLegal == Spec => []LineIsLegal
<1>1. LineInv => LineIsLegal
  BY DEF LineInv
<1> QED BY <1>1, LineSafe, PTL

-----------------------------------------------------------------------------
(* Induction on numbers, over sets.                                        *)

LEMMA Least ==
  ASSUME NEW T \in SUBSET Nat, T # {}
  PROVE  \E x \in T : \A y \in T : x <= y
<1> DEFINE R == OpToRel(<, Nat)
<1>1. IsWellFoundedOn(R, Nat)
  BY NatLessThanWellFounded
<1>2. ASSUME NEW x \in Nat, NEW y \in Nat, ~(<<y, x>> \in R) PROVE x <= y
  BY <1>2 DEF OpToRel
<1> HIDE DEF R
<1>3. PICK x \in T : \A y \in T : ~(<<y, x>> \in R)
  BY <1>1, WFMin
<1> QED BY <1>2, <1>3

LEMMA Numbers ==
  ASSUME NEW X, 0 \in X, \A n \in Nat : n \in X => n + 1 \in X
  PROVE  \A n \in Nat : n \in X
<1> DEFINE T == Nat \ X
<1> SUFFICES ASSUME T # {} PROVE FALSE
  OBVIOUS
<1>1. PICK x \in T : \A y \in T : x <= y
  <2>1. T \in SUBSET Nat
    OBVIOUS
  <2> QED BY <2>1, Least
<1>2. x - 1 \in Nat /\ x - 1 \notin T
  BY <1>1
<1>3. (x - 1) + 1 \in X
  BY <1>2
<1> QED BY <1>1, <1>3

-----------------------------------------------------------------------------
(* The chain of a stone.                                                   *)

Same(stones, p) == {q \in Points : stones[q] = stones[p]}

\* A set that holds, with a point, its neighbours of the colour of the stone at p.
Closed(stones, p, D) ==
  \A q \in D, r \in Points : r \in Neighbours[q] /\ stones[r] = stones[p] => r \in D

Grown(stones, p, S) == UNION {{q} \cup (Neighbours[q] \cap Same(stones, p)) : q \in S}

\* reach is what the search of a chain has found after each of its first N steps.
Reaches(stones, p, N, reach) ==
  reach = [n \in 0 .. N |-> IF n = 0 THEN {p} ELSE Grown(stones, p, reach[n - 1])]

LEMMA NeighboursAre ==
  /\ \A p \in Points : Neighbours[p] \subseteq Points
  /\ \A p \in Points, q \in Points : q \in Neighbours[p] <=> p \in Neighbours[q]
<1>1. \A p \in Points : Neighbours[p] =
        {q \in Points : \/ q[2] = p[2] /\ (q[1] = p[1] + 1 \/ p[1] = q[1] + 1)
                        \/ q[1] = p[1] /\ (q[2] = p[2] + 1 \/ p[2] = q[2] + 1)}
  BY DEF Neighbours
<1>2. ASSUME NEW p \in Points, NEW q \in Points PROVE q \in Neighbours[p] <=> p \in Neighbours[q]
  BY <1>1
<1> QED BY <1>1, <1>2

LEMMA PointsFinite ==
  ASSUME NEW S \in SUBSET Points
  PROVE  IsFiniteSet(S) /\ Cardinality(S) \in Nat
<1>1. IsFiniteSet(0 .. Size - 1)
  BY SizeAssumption, FS_Interval
<1>2. IsFiniteSet(Points)
  BY <1>1, FS_Product DEF Points
<1> QED BY <1>2, FS_Subset, FS_CardinalityType

LEMMA ReachExists ==
  ASSUME NEW stones, NEW p
  PROVE  \A N \in Nat : \E reach : Reaches(stones, p, N, reach)
<1> DEFINE X == {N \in Nat : \E reach : Reaches(stones, p, N, reach)}
<1>1. 0 \in X
  <2>1. [n \in 0 .. 0 |-> {p}] = [n \in 0 .. 0 |-> IF n = 0 THEN {p}
                                    ELSE Grown(stones, p, [i \in 0 .. 0 |-> {p}][n - 1])]
    OBVIOUS
  <2>2. Reaches(stones, p, 0, [n \in 0 .. 0 |-> {p}])
    BY <2>1 DEF Reaches
  <2> QED BY <2>2
<1>2. ASSUME NEW N \in Nat, N \in X PROVE N + 1 \in X
  <2>1. PICK reach : reach = [n \in 0 .. N |-> IF n = 0 THEN {p} ELSE Grown(stones, p, reach[n - 1])]
    BY <1>2 DEF Reaches
  <2> DEFINE more == [n \in 0 .. N + 1 |-> IF n <= N THEN reach[n] ELSE Grown(stones, p, reach[N])]
  <2>2. \A n \in 0 .. N + 1 : more[n] = IF n = 0 THEN {p} ELSE Grown(stones, p, more[n - 1])
    <3> SUFFICES ASSUME NEW n \in 0 .. N + 1
                 PROVE  more[n] = IF n = 0 THEN {p} ELSE Grown(stones, p, more[n - 1])
      OBVIOUS
    <3>1. CASE n = 0
      BY <2>1, <3>1
    <3>2. CASE n \in 1 .. N
      <4>1. more[n] = reach[n] /\ more[n - 1] = reach[n - 1]
        BY <3>2
      <4>2. reach[n] = Grown(stones, p, reach[n - 1])
        BY <2>1, <3>2
      <4> QED BY <3>2, <4>1, <4>2
    <3>3. CASE n = N + 1
      <4>1. more[n] = Grown(stones, p, reach[N]) /\ more[n - 1] = reach[N]
        BY <3>3
      <4> QED BY <3>3, <4>1
    <3> QED BY <3>1, <3>2, <3>3
  <2>3. more = [n \in 0 .. N + 1 |-> more[n]]
    OBVIOUS
  <2> HIDE DEF more
  <2>4. more = [n \in 0 .. N + 1 |-> IF n = 0 THEN {p} ELSE Grown(stones, p, more[n - 1])]
    BY <2>2, <2>3
  <2>5. Reaches(stones, p, N + 1, more)
    BY <2>4 DEF Reaches
  <2> QED BY <2>5
<1> HIDE DEF X
<1>3. \A N \in Nat : N \in X
  BY <1>1, <1>2, Numbers
<1> QED BY <1>3 DEF X

\* The search ends with a set that it cannot grow: it grows by a stone at every step until then,
\* and makes as many steps as there are stones of the colour.
LEMMA ReachEnds ==
  ASSUME NEW stones, NEW p \in Points, NEW N, N = Cardinality(Same(stones, p)),
         NEW reach, Reaches(stones, p, N, reach)
  PROVE  /\ p \in reach[N] /\ reach[N] \subseteq Same(stones, p)
         /\ Closed(stones, p, reach[N])
         /\ \A D : p \in D /\ Closed(stones, p, D) => reach[N] \subseteq D
<1> DEFINE same == Same(stones, p)
<1>1. same \in SUBSET Points /\ N \in Nat
  BY PointsFinite DEF Same
<1>2. /\ reach[0] = {p}
      /\ \A n \in 1 .. N : reach[n] = Grown(stones, p, reach[n - 1])
  <2>1. reach = [n \in 0 .. N |-> IF n = 0 THEN {p} ELSE Grown(stones, p, reach[n - 1])]
    BY DEF Reaches
  <2>2. \A n \in 0 .. N : reach[n] = IF n = 0 THEN {p} ELSE Grown(stones, p, reach[n - 1])
    BY <2>1
  <2>3. 0 \in 0 .. N /\ \A n \in 1 .. N : n \in 0 .. N /\ n # 0
    BY <1>1
  <2> QED BY <2>2, <2>3
<1>3. ASSUME NEW S \in SUBSET same
      PROVE  /\ S \subseteq Grown(stones, p, S) /\ Grown(stones, p, S) \subseteq same
             /\ \A D : S \subseteq D /\ Closed(stones, p, D) => Grown(stones, p, S) \subseteq D
             /\ Grown(stones, p, S) = S => Closed(stones, p, S)
  <2>1. \A r : r \in Grown(stones, p, S) <=>
                 \E q \in S : r = q \/ (r \in Neighbours[q] /\ r \in same)
    BY DEF Grown
  <2> QED BY <2>1 DEF Closed, Same
<1> DEFINE Sound(n) == /\ p \in reach[n] /\ reach[n] \subseteq same
                       /\ \A D : p \in D /\ Closed(stones, p, D) => reach[n] \subseteq D
                       /\ \/ Cardinality(reach[n]) >= n + 1
                          \/ Grown(stones, p, reach[n]) = reach[n]
           X == {n \in Nat : n <= N => Sound(n)}
<1>4. 0 \in X
  <2>1. Cardinality(reach[0]) = 1
    BY <1>2, FS_Singleton
  <2>2. p \in reach[0] /\ reach[0] \subseteq same /\ \A D : p \in D => reach[0] \subseteq D
    BY <1>2 DEF Same
  <2> QED BY <2>1, <2>2
<1>5. ASSUME NEW n \in Nat, n \in X PROVE n + 1 \in X
  <2> SUFFICES ASSUME n + 1 <= N PROVE Sound(n + 1)
    OBVIOUS
  <2>1. Sound(n)
    BY <1>1, <1>5
  <2>2. reach[n + 1] = Grown(stones, p, reach[n])
    BY <1>1, <1>2
  <2>3. /\ p \in reach[n + 1] /\ reach[n + 1] \subseteq same /\ reach[n] \subseteq reach[n + 1]
        /\ \A D : p \in D /\ Closed(stones, p, D) => reach[n + 1] \subseteq D
    BY <1>3, <2>1, <2>2
  <2>4. CASE Grown(stones, p, reach[n]) = reach[n]
    BY <2>2, <2>3, <2>4
  <2>5. CASE Grown(stones, p, reach[n]) # reach[n] /\ Cardinality(reach[n]) >= n + 1
    <3>1. reach[n] \in SUBSET Points /\ reach[n + 1] \in SUBSET Points
      BY <1>1, <2>1, <2>3
    <3>2. /\ IsFiniteSet(reach[n + 1]) /\ Cardinality(reach[n]) \in Nat
          /\ Cardinality(reach[n + 1]) \in Nat
      BY <3>1, PointsFinite
    <3>3. /\ Cardinality(reach[n]) <= Cardinality(reach[n + 1])
          /\ Cardinality(reach[n]) # Cardinality(reach[n + 1])
      BY <2>2, <2>3, <2>5, <3>2, FS_Subset
    <3>4. Cardinality(reach[n + 1]) >= n + 2
      BY <2>5, <3>2, <3>3
    <3> QED BY <2>3, <3>4
  <2> QED BY <2>1, <2>4, <2>5
<1> HIDE DEF X
<1>6. N \in X
  BY <1>1, <1>4, <1>5, Numbers
<1>7. Sound(N)
  BY <1>1, <1>6 DEF X
<1>8. Cardinality(reach[N]) <= N
  BY <1>1, <1>7, PointsFinite, FS_Subset
<1>9. Cardinality(reach[N]) \in Nat
  BY <1>1, <1>7, PointsFinite
<1>10. Grown(stones, p, reach[N]) = reach[N]
  BY <1>1, <1>7, <1>8, <1>9
<1> QED BY <1>3, <1>7, <1>10

\* _chain: the chain of a stone is of its colour, holds with a stone its neighbours of that
\* colour, and is the least such set with the stone.
LEMMA ChainIs ==
  ASSUME NEW stones, NEW p \in Points
  PROVE  LET chain == Chain(stones, p) IN
         /\ p \in chain /\ chain \subseteq Points
         /\ \A q \in chain : stones[q] = stones[p]
         /\ Closed(stones, p, chain)
         /\ \A D : p \in D /\ Closed(stones, p, D) => chain \subseteq D
<1> DEFINE N == Cardinality(Same(stones, p))
<1>1. N \in Nat
  BY PointsFinite DEF Same
<1>2. \E reach : Reaches(stones, p, N, reach)
  BY <1>1, ReachExists
<1> DEFINE reach == CHOOSE f : Reaches(stones, p, N, f)
<1>3. Reaches(stones, p, N, reach)
  BY <1>2
<1>4. Chain(stones, p) = reach[N]
  BY DEF Chain, Reaches, Grown, Same
<1> HIDE DEF reach, N
<1>5. /\ p \in reach[N] /\ reach[N] \subseteq Same(stones, p)
      /\ Closed(stones, p, reach[N])
      /\ \A D : p \in D /\ Closed(stones, p, D) => reach[N] \subseteq D
  BY <1>3, ReachEnds DEF N
<1> QED BY <1>4, <1>5 DEF Same

-----------------------------------------------------------------------------
(* What a stone takes off.                                                 *)

Enemies(placed, p) == {q \in Neighbours[p] : placed[q] = Opponent(placed[p])}

Captured(placed, p) == UNION {c \in {Chain(placed, q) : q \in Enemies(placed, p)} : ~HasLiberty(placed, c)}

LEMMA LostIs ==
  ASSUME NEW placed, NEW p \in Points
  PROVE  Lost(placed, p) =
           IF Captured(placed, p) # {} THEN Captured(placed, p)
           ELSE IF HasLiberty(placed, Chain(placed, p)) THEN {} ELSE Chain(placed, p)
  BY DEF Lost, Captured, Enemies

LEMMA CapturedIs ==
  ASSUME NEW placed, NEW p \in Points
  PROVE  /\ \A q \in Captured(placed, p) :
              \E e \in Enemies(placed, p) : /\ q \in Chain(placed, e)
                                            /\ Chain(placed, e) \subseteq Captured(placed, p)
         /\ \A e \in Enemies(placed, p) :
              ~HasLiberty(placed, Chain(placed, e)) => Chain(placed, e) \subseteq Captured(placed, p)
         /\ Enemies(placed, p) \subseteq Points
<1>1. Enemies(placed, p) \subseteq Points
  BY NeighboursAre DEF Enemies
<1> QED BY <1>1 DEF Captured

\* Whole chains go, and of one colour: of the opponent, one of them beside the stone, or of the
\* player, with the stone.
LEMMA LostProperties ==
  ASSUME NEW placed, NEW p \in Points, placed[p] \in {Black, White}
  PROVE  LET lost == Lost(placed, p) IN
         /\ lost \subseteq Points
         /\ \A q \in lost : placed[q] = IF p \in lost THEN placed[p] ELSE Opponent(placed[p])
         /\ \A q \in lost : \A r \in Neighbours[q] : placed[r] = placed[q] => r \in lost
         /\ \A e \in Enemies(placed, p) :
              ~HasLiberty(placed, Chain(placed, e)) => Chain(placed, e) \subseteq lost
         /\ lost = {} => HasLiberty(placed, Chain(placed, p))
         /\ p \in lost \/ lost = {} \/ \E e \in Neighbours[p] : e \in lost
<1> DEFINE lost == Lost(placed, p)
           captured == Captured(placed, p)
<1>1. /\ \A q \in captured : \E e \in Enemies(placed, p) : /\ q \in Chain(placed, e)
                                                         /\ Chain(placed, e) \subseteq captured
      /\ \A e \in Enemies(placed, p) :
           ~HasLiberty(placed, Chain(placed, e)) => Chain(placed, e) \subseteq captured
      /\ Enemies(placed, p) \subseteq Points
  BY CapturedIs
<1>2. \A e \in Points : /\ e \in Chain(placed, e) /\ Chain(placed, e) \subseteq Points
                        /\ \A q \in Chain(placed, e) : placed[q] = placed[e]
                        /\ Closed(placed, e, Chain(placed, e))
  BY ChainIs
<1>3. \A e \in Enemies(placed, p) : placed[e] = Opponent(placed[p]) /\ e \in Neighbours[p]
  BY DEF Enemies
<1>4. Opponent(placed[p]) # placed[p]
  BY DEF Opponent, Black, White
<1>5. lost = IF captured # {} THEN captured
             ELSE IF HasLiberty(placed, Chain(placed, p)) THEN {} ELSE Chain(placed, p)
  BY LostIs
<1>6. \A q \in Points : Neighbours[q] \subseteq Points
  BY NeighboursAre
<1> HIDE DEF lost, captured
<1>7. CASE captured # {}
  <2>1. \A q \in captured : q \in Points /\ placed[q] = Opponent(placed[p])
    BY <1>1, <1>2, <1>3
  <2>2. p \notin captured
    BY <1>4, <2>1
  <2>3. ASSUME NEW q \in captured, NEW r \in Neighbours[q], placed[r] = placed[q]
        PROVE  r \in captured
    <3>1. PICK e \in Enemies(placed, p) : /\ q \in Chain(placed, e)
                                          /\ Chain(placed, e) \subseteq captured
      BY <1>1
    <3>2. e \in Points /\ r \in Points /\ placed[r] = placed[e]
      BY <1>1, <1>2, <1>6, <2>1, <2>3, <3>1
    <3>3. r \in Chain(placed, e)
      BY <1>2, <3>1, <3>2 DEF Closed
    <3> QED BY <3>1, <3>3
  <2>4. \E e \in Neighbours[p] : e \in captured
    <3>1. PICK e \in Enemies(placed, p) : Chain(placed, e) \subseteq captured
      BY <1>1, <1>7
    <3> QED BY <1>1, <1>2, <1>3, <3>1
  <2> QED BY <1>1, <1>5, <1>7, <2>1, <2>2, <2>3, <2>4 DEF lost
<1>8. CASE captured = {}
  <2>1. \A e \in Enemies(placed, p) : HasLiberty(placed, Chain(placed, e))
    BY <1>1, <1>2, <1>8
  <2>2. CASE HasLiberty(placed, Chain(placed, p))
    BY <1>5, <1>8, <2>1, <2>2 DEF lost
  <2>3. CASE ~HasLiberty(placed, Chain(placed, p))
    <3>1. lost = Chain(placed, p)
      BY <1>5, <1>8, <2>3
    <3>2. p \in lost /\ lost \subseteq Points /\ \A q \in lost : placed[q] = placed[p]
      BY <1>2, <3>1
    <3>3. ASSUME NEW q \in lost, NEW r \in Neighbours[q], placed[r] = placed[q] PROVE r \in lost
      BY <1>2, <1>6, <3>1, <3>2, <3>3 DEF Closed
    <3> QED BY <2>1, <3>2, <3>3 DEF lost
  <2> QED BY <2>2, <2>3
<1> QED BY <1>7, <1>8

\* play: if every chain has a liberty before a move, every chain has one after it.  C is a chain
\* of the position after it: whole on the board with the stone placed, as what goes is whole
\* chains; whole before the move, unless it holds or meets the stone.
LEMMA AliveStep ==
  ASSUME NEW stones \in [Points -> {Empty, Black, White}], Alive(stones),
         NEW p \in Points, stones[p] = Empty, NEW color \in {Black, White}
  PROVE  LET placed == Placed(stones, color, p) IN Alive(Without(placed, Lost(placed, p)))
<1> DEFINE placed == Placed(stones, color, p)
           lost   == Lost(placed, p)
           key    == Without(placed, lost)
<1>1. /\ placed[p] = color /\ \A q \in Points : q # p => placed[q] = stones[q]
      /\ color # Empty /\ Opponent(color) # color /\ Opponent(color) # Empty
      /\ Opponent(color) \in {Black, White}
  BY DEF Placed, Opponent, Black, White, Empty
<1>2. \A q \in Points : key[q] = IF q \in lost THEN Empty ELSE placed[q]
  BY DEF Without
<1>3. /\ lost \subseteq Points
      /\ \A q \in lost : placed[q] = IF p \in lost THEN color ELSE Opponent(color)
      /\ \A q \in lost : \A r \in Neighbours[q] : placed[r] = placed[q] => r \in lost
      /\ \A e \in Enemies(placed, p) :
           ~HasLiberty(placed, Chain(placed, e)) => Chain(placed, e) \subseteq lost
      /\ lost = {} => HasLiberty(placed, Chain(placed, p))
      /\ p \in lost \/ lost = {} \/ \E e \in Neighbours[p] : e \in lost
  <2>1. placed[p] \in {Black, White}
    BY <1>1
  <2> QED BY <1>1, <2>1, LostProperties
<1>4. /\ \A q \in Points : Neighbours[q] \subseteq Points
      /\ \A q \in Points, r \in Points : r \in Neighbours[q] => q \in Neighbours[r]
  BY NeighboursAre
<1>5. stones \in [Points -> {Empty, Black, White}]
  OBVIOUS
<1> HIDE DEF placed, lost, key
<1> SUFFICES ASSUME NEW a \in Points, key[a] # Empty PROVE HasLiberty(key, Chain(key, a))
  BY DEF Alive, key, lost, placed
<1> DEFINE C == Chain(key, a)
<1>6. /\ a \in C /\ C \subseteq Points /\ \A q \in C : key[q] = key[a]
      /\ Closed(key, a, C)
  BY ChainIs
<1> SUFFICES HasLiberty(key, C)
  OBVIOUS
<1> HIDE DEF C
<1>7. \A q \in C : q \notin lost /\ placed[q] = key[a]
  BY <1>2, <1>6
<1>8. ASSUME NEW q \in C, NEW r \in Points, r \in Neighbours[q], placed[r] = key[a] PROVE r \in C
  <2>1. r \notin lost
    BY <1>3, <1>4, <1>6, <1>7, <1>8
  <2>2. key[r] = key[a]
    BY <1>2, <1>8, <2>1
  <2> QED BY <1>6, <1>8, <2>2 DEF Closed
<1>9. \A q \in C, r \in Points : r \in Neighbours[q] /\ placed[r] = Empty => HasLiberty(key, C)
  BY <1>2, <1>4 DEF HasLiberty
<1>10. ASSUME NEW e \in C, HasLiberty(placed, Chain(placed, e)) PROVE HasLiberty(key, C)
  <2>1. e \in Points /\ placed[e] = key[a]
    BY <1>6, <1>7
  <2>2. Closed(placed, e, C)
    BY <1>8, <2>1 DEF Closed
  <2>3. Chain(placed, e) \subseteq C
    BY <2>1, <2>2, ChainIs
  <2>4. PICK q \in Chain(placed, e) : \E r \in Neighbours[q] : placed[r] = Empty
    BY <1>10 DEF HasLiberty
  <2> QED BY <1>4, <1>6, <1>9, <2>3, <2>4
\* C has the stone: what it captured beside it is free, or nothing went and its chain has one.
<1>11. CASE p \in C
  <2>1. p \notin lost
    BY <1>7, <1>11
  <2>2. CASE lost = {}
    <3>1. HasLiberty(placed, Chain(placed, p))
      BY <1>3, <2>2
    <3> QED BY <1>10, <1>11, <3>1
  <2>3. ASSUME NEW e \in Neighbours[p], e \in lost PROVE HasLiberty(key, C)
    <3>1. e \in Points /\ key[e] = Empty
      BY <1>2, <1>3, <2>3
    <3> QED BY <1>11, <2>3, <3>1 DEF HasLiberty
  <2> QED BY <1>3, <2>1, <2>2, <2>3
\* C has an enemy beside the stone, that was not captured.
<1>12. ASSUME NEW e \in C, e \in Neighbours[p], p \notin C PROVE HasLiberty(key, C)
  <2>1. placed[e] = key[a] /\ e \in Points
    BY <1>6, <1>7
  <2>2. placed[e] = Opponent(color)
    <3>1. placed[e] # color
      BY <1>1, <1>4, <1>8, <1>12, <2>1
    <3>2. e # p /\ placed[e] \in {Empty, Black, White} /\ placed[e] # Empty
      BY <1>1, <1>2, <1>5, <1>7, <1>12, <2>1
    <3> QED BY <3>1, <3>2 DEF Opponent
  <2>3. e \in Enemies(placed, p)
    BY <1>1, <1>12, <2>2 DEF Enemies
  <2>4. HasLiberty(placed, Chain(placed, e))
    BY <1>3, <1>7, <2>1, <2>3, ChainIs
  <2> QED BY <1>10, <2>4
\* C is apart from the stone: it is a chain of before the move, and its liberty is not the point.
<1>13. CASE p \notin C /\ \A e \in C : e \notin Neighbours[p]
  <2>1. \A q \in C : stones[q] = key[a]
    BY <1>1, <1>6, <1>7, <1>13
  <2>2. \A q \in C : \A r \in Neighbours[q] : r # p
    BY <1>4, <1>6, <1>13
  <2>3. Closed(stones, a, C)
    BY <1>1, <1>6, <1>8, <2>1, <2>2 DEF Closed
  <2>4. Chain(stones, a) \subseteq C
    BY <1>6, <2>3, ChainIs
  <2>5. HasLiberty(stones, Chain(stones, a))
    BY <1>6, <2>1 DEF Alive
  <2>6. PICK q \in Chain(stones, a) : \E r \in Neighbours[q] : stones[r] = Empty
    BY <2>5 DEF HasLiberty
  <2>7. PICK r \in Neighbours[q] : stones[r] = Empty
    BY <2>6
  <2>8. q \in C /\ r \in Points /\ r # p
    BY <1>4, <1>6, <2>2, <2>4, <2>6, <2>7
  <2>9. placed[r] = Empty
    BY <1>1, <2>7, <2>8
  <2> QED BY <1>9, <2>7, <2>8, <2>9
<1> QED BY <1>11, <1>12, <1>13

-----------------------------------------------------------------------------
(* Stones counted.                                                         *)

StonesOf(stones, color) == {q \in Points : stones[q] = color}

\* play: what a stone adds to its colour and takes off, of the colour of what it takes off.
LEMMA CountStep ==
  ASSUME NEW stones \in [Points -> {Empty, Black, White}], NEW p \in Points, stones[p] = Empty,
         NEW color \in {Black, White}, NEW c \in {Black, White}
  PROVE  LET placed == Placed(stones, color, p)
             lost   == Lost(placed, p)
             taker  == IF p \in lost THEN Opponent(color) ELSE color
         IN /\ Cardinality(lost) \in Nat /\ CountOf(stones, c) \in Nat
            /\ CountOf(Without(placed, lost), c) \in Nat
            /\ CountOf(Without(placed, lost), c) + (IF c = Opponent(taker) THEN Cardinality(lost) ELSE 0)
                 = CountOf(stones, c) + (IF c = color THEN 1 ELSE 0)
<1> DEFINE placed == Placed(stones, color, p)
           lost   == Lost(placed, p)
           taker  == IF p \in lost THEN Opponent(color) ELSE color
           key    == Without(placed, lost)
<1>1. /\ placed[p] = color /\ \A q \in Points : q # p => placed[q] = stones[q]
      /\ c # Empty /\ Opponent(color) # color /\ Opponent(Opponent(color)) = color
  BY DEF Placed, Opponent, Black, White, Empty
<1>2. \A q \in Points : key[q] = IF q \in lost THEN Empty ELSE placed[q]
  BY DEF Without
<1>3. /\ lost \subseteq Points
      /\ \A q \in lost : placed[q] = IF p \in lost THEN color ELSE Opponent(color)
  <2>1. placed[p] \in {Black, White}
    BY <1>1
  <2> QED BY <1>1, <2>1, LostProperties
<1> HIDE DEF placed, lost, key
<1>4. \A q \in lost : placed[q] = Opponent(taker)
  BY <1>1, <1>3
<1> HIDE DEF taker
<1>5. /\ IsFiniteSet(lost) /\ Cardinality(lost) \in Nat
      /\ \A s : /\ IsFiniteSet(StonesOf(s, c)) /\ Cardinality(StonesOf(s, c)) \in Nat
                /\ CountOf(s, c) = Cardinality(StonesOf(s, c))
  BY <1>3, PointsFinite DEF StonesOf, CountOf
<1>6. Cardinality(StonesOf(placed, c)) = Cardinality(StonesOf(stones, c)) + (IF c = color THEN 1 ELSE 0)
  <2>1. CASE c = color
    <3>1. StonesOf(placed, c) = StonesOf(stones, c) \cup {p} /\ p \notin StonesOf(stones, c)
      BY <1>1, <2>1 DEF StonesOf
    <3>2. Cardinality(StonesOf(stones, c) \cup {p}) = Cardinality(StonesOf(stones, c)) + 1
      BY <1>5, <3>1, FS_AddElement
    <3> QED BY <2>1, <3>1, <3>2
  <2>2. CASE c # color
    <3>1. StonesOf(placed, c) = StonesOf(stones, c)
      BY <1>1, <2>2 DEF StonesOf
    <3> QED BY <1>5, <2>2, <3>1
  <2> QED BY <2>1, <2>2
<1>7. Cardinality(StonesOf(key, c)) + (IF c = Opponent(taker) THEN Cardinality(lost) ELSE 0)
        = Cardinality(StonesOf(placed, c))
  <2>1. CASE c = Opponent(taker)
    <3>1. StonesOf(key, c) = StonesOf(placed, c) \ lost /\ StonesOf(placed, c) \cap lost = lost
      BY <1>1, <1>2, <1>3, <1>4, <2>1 DEF StonesOf
    <3>2. Cardinality(StonesOf(placed, c) \ lost)
            = Cardinality(StonesOf(placed, c)) - Cardinality(StonesOf(placed, c) \cap lost)
      BY <1>5, FS_Difference
    <3>3. Cardinality(StonesOf(key, c)) = Cardinality(StonesOf(placed, c)) - Cardinality(lost)
      BY <3>1, <3>2
    <3>4. /\ Cardinality(StonesOf(placed, c)) \in Nat /\ Cardinality(StonesOf(key, c)) \in Nat
          /\ Cardinality(lost) \in Nat
      BY <1>5
    <3> QED BY <2>1, <3>3, <3>4
  <2>2. CASE c # Opponent(taker)
    <3>1. StonesOf(key, c) = StonesOf(placed, c)
      BY <1>1, <1>2, <1>4, <2>2 DEF StonesOf
    <3> QED BY <1>5, <2>2, <3>1
  <2> QED BY <2>1, <2>2
<1>8. CountOf(key, c) + (IF c = Opponent(taker) THEN Cardinality(lost) ELSE 0)
        = CountOf(stones, c) + (IF c = color THEN 1 ELSE 0)
  BY <1>5, <1>6, <1>7
<1> QED BY <1>5, <1>8 DEF placed, lost, taker, key

-----------------------------------------------------------------------------
(* Stones and prisoners of the plies of a line.                            *)

StonesTo(i, color) == {j \in 1 .. i : moves[j].color = color /\ moves[j].point # Pass}

PlyAddsUp(i) == \A color \in {Black, White} :
  CountOf(Ply(i), color) + prisoners[i + 1][Opponent(color)] =
    CountOf(Ply(0), color) + Cardinality(StonesTo(i, color))

Tallies == [{Black, White} -> Nat]

PrisonersType ==
  prisoners \in Seq(Tallies) /\ Len(prisoners) = Len(moves) + 1

PliesAddUp == \A i \in Plies : PlyAddsUp(i) /\ (Alive(Ply(0)) => Alive(Ply(i)))

AddUpInv == LineInv /\ PrisonersType /\ PliesAddUp

LEMMA CountIs == \A stones, color : CountOf(stones, color) \in Nat
  BY PointsFinite DEF CountOf

LEMMA StonesToIs ==
  ASSUME NEW i \in Nat, NEW color
  PROVE  IsFiniteSet(StonesTo(i, color)) /\ Cardinality(StonesTo(i, color)) \in Nat
<1>1. IsFiniteSet(1 .. i) /\ StonesTo(i, color) \in SUBSET (1 .. i)
  BY FS_Interval DEF StonesTo
<1> QED BY <1>1, FS_Subset, FS_CardinalityType

LEMMA AddUpImplies == AddUpInv => StonesAddUp
  BY DEF AddUpInv, PliesAddUp, PlyAddsUp, StonesTo, StonesAddUp

LEMMA AddUpInit == Init => AddUpInv
<1> SUFFICES ASSUME Init PROVE AddUpInv
  OBVIOUS
<1>1. LineInv
  BY LineInit
<1>2. moves = <<>> /\ prisoners = <<[color \in {Black, White} |-> 0]>> /\ Plies = {0}
  BY DEF Init, Plies
<1>3. PrisonersType
  BY <1>2 DEF PrisonersType, Tallies
<1>4. \A color \in {Black, White} : prisoners[0 + 1][Opponent(color)] = 0
  BY <1>2 DEF Opponent
<1>5. \A color : Cardinality(StonesTo(0, color)) = 0
  BY FS_EmptySet DEF StonesTo
<1>6. PlyAddsUp(0)
  BY <1>4, <1>5, CountIs DEF PlyAddsUp
<1> QED BY <1>1, <1>2, <1>3, <1>6 DEF AddUpInv, PliesAddUp

\* What a ply counts is of the line up to it.
LEMMA PrefixStays ==
  ASSUME LineType, PliesAddUp, NEW ply \in 0 .. Len(moves), NEW i \in 0 .. ply,
         \A j \in 1 .. ply : moves'[j] = moves[j],
         \A j \in 1 .. ply + 1 : snapshots'[j] = snapshots[j] /\ prisoners'[j] = prisoners[j]
  PROVE  PlyAddsUp(i)' /\ (Alive(Ply(0))' => Alive(Ply(i))')
<1>1. ply \in Nat /\ i \in Nat /\ i + 1 \in 1 .. ply + 1 /\ i \in Plies
  BY DEF LineType, Plies
<1>2. Ply(i)' = Ply(i) /\ Ply(0)' = Ply(0) /\ prisoners'[i + 1] = prisoners[i + 1]
  BY <1>1 DEF Ply
<1>3. ASSUME NEW color PROVE StonesTo(i, color)' = StonesTo(i, color)
  BY <1>1 DEF StonesTo
<1>4. PlyAddsUp(i) /\ (Alive(Ply(0)) => Alive(Ply(i)))
  BY <1>1 DEF PliesAddUp
<1> QED BY <1>2, <1>3, <1>4 DEF PlyAddsUp

LEMMA PrefixIs ==
  ASSUME NEW S, NEW s \in Seq(S), NEW n \in 0 .. Len(s)
  PROVE  /\ SubSeq(s, 1, n) \in Seq(S) /\ Len(SubSeq(s, 1, n)) = n
         /\ \A j \in 1 .. n : SubSeq(s, 1, n)[j] = s[j]
  OBVIOUS

LEMMA BecomesAddUp ==
  ASSUME AddUpInv, NEW ply \in 0 .. Len(moves), Becomes(Truncated(ply)), LineInv'
  PROVE  AddUpInv'
<1>1. LineType /\ IndexInv /\ PrisonersType /\ PliesAddUp
  BY DEF AddUpInv, LineInv
<1>2. /\ Len(moves') = ply /\ ply \in Nat /\ ply <= Len(moves) /\ Len(moves) \in Nat
      /\ \A j \in 1 .. ply : moves'[j] = moves[j]
      /\ \A j \in 1 .. ply + 1 : snapshots'[j] = snapshots[j]
  <2>1. LET t == Truncated(ply) IN
        /\ Len(t.moves) = ply
        /\ \A j \in 1 .. ply : t.moves[j] = moves[j]
        /\ \A j \in 1 .. ply + 1 : t.snapshots[j] = snapshots[j]
    BY <1>1, TruncatedIsExact
  <2>2. moves' = Truncated(ply).moves /\ snapshots' = Truncated(ply).snapshots
    BY DEF Becomes
  <2>3. ply \in Nat /\ ply <= Len(moves) /\ Len(moves) \in Nat
    BY <1>1 DEF LineType
  <2> QED BY <2>1, <2>2, <2>3
<1>3. prisoners' = SubSeq(prisoners, 1, ply + 1)
  BY DEF Becomes, Truncated
<1>4. /\ PrisonersType'
      /\ \A j \in 1 .. ply + 1 : prisoners'[j] = prisoners[j]
  <2>1. /\ prisoners \in Seq(Tallies) /\ Len(prisoners) = Len(moves) + 1
        /\ ply + 1 \in 0 .. Len(prisoners)
    BY <1>1, <1>2 DEF PrisonersType
  <2> QED BY <1>2, <1>3, <2>1, PrefixIs DEF PrisonersType
<1>5. Plies' = 0 .. ply
  BY <1>2 DEF Plies
<1>6. PliesAddUp'
  BY <1>1, <1>2, <1>4, <1>5, PrefixStays DEF PliesAddUp
<1> QED BY <1>4, <1>6 DEF AddUpInv

LEMMA PlayAddUp ==
  ASSUME AddUpInv, NEW color \in {Black, White}, NEW point \in Points \cup {Pass},
         Play(color, point), LineInv'
  PROVE  AddUpInv'
<1>0. LineType /\ IndexInv /\ PrisonersType /\ PliesAddUp
  BY DEF AddUpInv, LineInv
<1>1. PICK ply \in Nat : ply = cursor + 1
  BY <1>0 DEF LineType
<1> DEFINE t      == Truncated(cursor)
           stones == IF point = Pass THEN Ply(cursor) ELSE Placed(Ply(cursor), color, point)
           lost   == IF point = Pass THEN {} ELSE Lost(stones, point)
           key    == Without(stones, lost)
           move   == [color |-> color, point |-> point]
           taken  == Taken(color, point, lost)
           taker  == IF point \in lost THEN Opponent(color) ELSE color
           before == prisoners[cursor + 1]
<1>2. /\ cursor \in Nat /\ cursor \in 0 .. Len(moves) /\ cursor \in Plies
      /\ 0 \in Plies /\ Len(moves) \in Nat
  BY <1>0 DEF LineType, Plies
<1>3. /\ Legal(color, point, lost, key)
      /\ moves' = Append(t.moves, move) /\ snapshots' = Append(t.snapshots, key)
      /\ prisoners' = Append(t.prisoners, taken)
  BY DEF Play
<1>4. /\ t.moves \in Seq(MoveSet) /\ Len(t.moves) = cursor
      /\ \A j \in 1 .. cursor : t.moves[j] = moves[j]
      /\ t.snapshots \in Seq(Boards) /\ Len(t.snapshots) = cursor + 1
      /\ \A j \in 1 .. cursor + 1 : t.snapshots[j] = snapshots[j]
  BY <1>0, <1>2, TruncatedIsExact
<1>5. /\ t.prisoners \in Seq(Tallies) /\ Len(t.prisoners) = cursor + 1
      /\ \A j \in 1 .. cursor + 1 : t.prisoners[j] = prisoners[j]
  <2>1. t.prisoners = SubSeq(prisoners, 1, cursor + 1)
    BY DEF Truncated
  <2>2. /\ prisoners \in Seq(Tallies) /\ Len(prisoners) = Len(moves) + 1
        /\ cursor + 1 \in 0 .. Len(prisoners)
    BY <1>0, <1>2 DEF PrisonersType
  <2> QED BY <2>1, <2>2, PrefixIs
<1>6. Ply(cursor) \in [Points -> {Empty, Black, White}] /\ before \in Tallies
  <2>1. cursor + 1 \in 1 .. Len(moves) + 1
    BY <1>2
  <2>2. snapshots[cursor + 1] \in Boards
    BY <1>0, <2>1 DEF LineType
  <2>3. prisoners[cursor + 1] \in Tallies
    BY <1>0, <2>1 DEF PrisonersType
  <2> QED BY <2>2, <2>3 DEF Ply, Boards
<1>7. move \in MoveSet /\ move.color = color /\ move.point = point
  BY DEF MoveSet
<1>8. Opponent(color) \in {Black, White} /\ Opponent(color) # color /\ taker \in {Black, White}
  BY DEF Opponent, Black, White
<1>9. PlyAddsUp(cursor) /\ (Alive(Ply(0)) => Alive(Ply(cursor)))
  BY <1>0, <1>2 DEF PliesAddUp
<1>10. /\ Cardinality(lost) \in Nat
       /\ point = Pass => lost = {} /\ Cardinality(lost) = 0 /\ key = Ply(cursor)
       /\ \A c \in {Black, White} :
            CountOf(key, c) + (IF c = Opponent(taker) THEN Cardinality(lost) ELSE 0) =
              CountOf(Ply(cursor), c) + (IF c = color /\ point # Pass THEN 1 ELSE 0)
       /\ Alive(Ply(cursor)) => Alive(key)
  <2>1. CASE point = Pass
    <3>1. lost = {} /\ Cardinality(lost) = 0
      BY <2>1, FS_EmptySet
    <3>2. key = Ply(cursor)
      BY <1>6, <2>1 DEF Without
    <3> HIDE DEF key, lost
    <3> QED BY <2>1, <3>1, <3>2, CountIs
  <2>2. CASE point # Pass
    <3>1. point \in Points /\ Ply(cursor)[point] = Empty
      BY <1>3, <2>2 DEF Legal
    <3>2. stones = Placed(Ply(cursor), color, point) /\ lost = Lost(stones, point)
      BY <2>2
    <3>3. \A c \in {Black, White} :
            /\ Cardinality(lost) \in Nat
            /\ CountOf(key, c) + (IF c = Opponent(taker) THEN Cardinality(lost) ELSE 0) =
                 CountOf(Ply(cursor), c) + (IF c = color THEN 1 ELSE 0)
      BY <1>6, <3>1, <3>2, CountStep
    <3>4. Alive(Ply(cursor)) => Alive(key)
      BY <1>6, <3>1, <3>2, AliveStep
    <3> HIDE DEF key, lost, stones, taker
    <3> QED BY <2>2, <3>3, <3>4
  <2> QED BY <2>1, <2>2
<1>11. /\ taken \in Tallies
       /\ \A c \in {Black, White} :
            taken[c] = before[c] + (IF c = taker THEN Cardinality(lost) ELSE 0)
  <2>1. taken = [before EXCEPT ![taker] = @ + Cardinality(lost)]
    BY DEF Taken
  <2> HIDE DEF taken, lost, taker, before
  <2> QED BY <1>6, <1>8, <1>10, <2>1 DEF Tallies
<1> HIDE DEF t, key, lost, stones, move, taken, taker, before
<1>12. /\ Len(moves') = ply /\ moves'[ply] = move
       /\ \A j \in 1 .. cursor : moves'[j] = moves[j]
  BY <1>1, <1>2, <1>3, <1>4, <1>7
<1>13. /\ snapshots'[ply + 1] = key
       /\ \A j \in 1 .. cursor + 1 : snapshots'[j] = snapshots[j]
  BY <1>1, <1>2, <1>3, <1>4
<1>14. /\ PrisonersType'
       /\ prisoners'[ply + 1] = taken
       /\ \A j \in 1 .. cursor + 1 : prisoners'[j] = prisoners[j]
  <2>1. prisoners' = Append(t.prisoners, taken) /\ taken \in Tallies
    BY <1>3, <1>11
  <2>2. /\ prisoners' \in Seq(Tallies) /\ Len(prisoners') = cursor + 1 + 1
        /\ prisoners'[cursor + 1 + 1] = taken
        /\ \A j \in 1 .. cursor + 1 : prisoners'[j] = t.prisoners[j]
    BY <1>2, <1>5, <2>1
  <2> QED BY <1>1, <1>5, <1>12, <2>2 DEF PrisonersType
<1>15. Plies' = 0 .. ply
  BY <1>12 DEF Plies
<1>16. \A i \in 0 .. cursor : PlyAddsUp(i)' /\ (Alive(Ply(0))' => Alive(Ply(i))')
  BY <1>0, <1>2, <1>12, <1>13, <1>14, PrefixStays
<1>17. Ply(ply)' = key /\ Ply(0)' = Ply(0)
  BY <1>1, <1>2, <1>13 DEF Ply
<1>18. Alive(Ply(0))' => Alive(Ply(ply))'
  BY <1>9, <1>10, <1>17
<1>19. PlyAddsUp(ply)'
  <2> SUFFICES ASSUME NEW c \in {Black, White}
               PROVE  CountOf(key, c) + taken[Opponent(c)] =
                        CountOf(Ply(0), c) + Cardinality(StonesTo(ply, c)')
    BY <1>14, <1>17 DEF PlyAddsUp
  <2>1. Cardinality(StonesTo(ply, c)') =
          Cardinality(StonesTo(cursor, c)) + (IF c = color /\ point # Pass THEN 1 ELSE 0)
    <3>1. StonesTo(ply, c)' = IF c = color /\ point # Pass THEN StonesTo(cursor, c) \cup {ply}
                              ELSE StonesTo(cursor, c)
      BY <1>1, <1>2, <1>7, <1>12 DEF StonesTo
    <3>2. IsFiniteSet(StonesTo(cursor, c)) /\ Cardinality(StonesTo(cursor, c)) \in Nat
      BY <1>2, StonesToIs
    <3>3. ply \notin StonesTo(cursor, c)
      BY <1>1, <1>2 DEF StonesTo
    <3>4. Cardinality(StonesTo(cursor, c) \cup {ply}) = Cardinality(StonesTo(cursor, c)) + 1
      BY <3>2, <3>3, FS_AddElement
    <3> QED BY <3>1, <3>2, <3>4
  <2>2. /\ Opponent(c) \in {Black, White}
        /\ Opponent(c) = taker <=> c = Opponent(taker)
    BY <1>8 DEF Opponent, Black, White
  <2>3. taken[Opponent(c)] = before[Opponent(c)] + (IF c = Opponent(taker) THEN Cardinality(lost) ELSE 0)
    BY <1>11, <2>2
  <2>4. CountOf(Ply(cursor), c) + before[Opponent(c)] =
          CountOf(Ply(0), c) + Cardinality(StonesTo(cursor, c))
    BY <1>9 DEF PlyAddsUp, before
  <2>5. CountOf(key, c) + (IF c = Opponent(taker) THEN Cardinality(lost) ELSE 0) =
          CountOf(Ply(cursor), c) + (IF c = color /\ point # Pass THEN 1 ELSE 0)
    BY <1>10
  <2>6. /\ CountOf(key, c) \in Nat /\ CountOf(Ply(cursor), c) \in Nat /\ CountOf(Ply(0), c) \in Nat
        /\ Cardinality(lost) \in Nat /\ before[Opponent(c)] \in Nat
        /\ Cardinality(StonesTo(cursor, c)) \in Nat
    BY <1>2, <1>6, <1>10, <2>2, CountIs, StonesToIs DEF Tallies
  <2> QED BY <2>1, <2>3, <2>4, <2>5, <2>6
<1>20. PliesAddUp'
  BY <1>1, <1>2, <1>15, <1>16, <1>18, <1>19 DEF PliesAddUp
<1> QED BY <1>14, <1>20 DEF AddUpInv

LEMMA AddUpStep == AddUpInv /\ [Next]_vars => AddUpInv'
<1> SUFFICES ASSUME AddUpInv, [Next]_vars PROVE AddUpInv'
  OBVIOUS
<1>1. LineInv /\ LineInv'
  BY LineStep DEF AddUpInv
<1>2. cursor \in 0 .. Len(moves) /\ cursor \in Nat
  BY <1>1 DEF LineInv, LineType
<1>3. ASSUME NEW color \in {Black, White}, NEW point \in Points \cup {Pass}, Play(color, point)
      PROVE  AddUpInv'
  BY <1>1, <1>3, PlayAddUp
<1>4. CASE Undo /\ cursor # 0
  <2>1. Becomes(Truncated(cursor - 1)) /\ cursor - 1 \in 0 .. Len(moves)
    BY <1>1, <1>2, <1>4 DEF Undo, LineInv, LineType
  <2> QED BY <1>1, <2>1, BecomesAddUp
<1>5. CASE Branch
  BY <1>1, <1>2, <1>5, BecomesAddUp DEF Branch
<1>6. CASE UNCHANGED line
  <2>1. UNCHANGED <<moves, snapshots, prisoners>>
    BY <1>6 DEF line
  <2>2. PrisonersType'
    BY <2>1 DEF AddUpInv, PrisonersType
  <2>3. PliesAddUp' <=> PliesAddUp
    BY <2>1 DEF PliesAddUp, PlyAddsUp, Plies, Ply, StonesTo
  <2> QED BY <1>1, <2>2, <2>3 DEF AddUpInv
<1> QED BY <1>3, <1>4, <1>5, <1>6 DEF Next, Undo, Navigate, vars

LEMMA AddUpSafe == Spec => []AddUpInv
  BY AddUpInit, AddUpStep, PTL DEF Spec

\* Through any plays, undos, branches and navigation, on a board of any size: at every ply the
\* stones of a colour on the board and those taken of it are the ones set up and played; and if
\* every chain of the setup has a liberty, every chain of every later position has one (play and
\* _chain of board.py, which look only at the chains beside the stone just placed).
THEOREM StonesCounted == Spec => []StonesAddUp
<1>1. AddUpInv => StonesAddUp
  BY AddUpImplies
<1> QED BY <1>1, AddUpSafe, PTL
=============================================================================
