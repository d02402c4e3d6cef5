----------------------------- MODULE GameRecord -----------------------------
(***************************************************************************)
(* One game (game.py): a line of moves with a snapshot of the stones after *)
(* every ply, a cursor in it, and two indexes that map a position, and a   *)
(* position with the player to move, to the first ply where it occurred,   *)
(* also past the cursor.  The rules of ko are decided by the indexes.      *)
(***************************************************************************)
EXTENDS Board, Integers, Sequences, FiniteSetsExt

CONSTANTS
  MAX_MOVES,  \* the code's limit, here a bound on the line
  RuleSets,   \* [ko, suicide]
  Setups      \* setup stones and the first player: [stones, first]

ASSUME MovesAssumption  == MAX_MOVES \in Nat
ASSUME RulesAssumption  == RuleSets \subseteq [ko : {"simple", "positional", "situational"},
                                              suicide : BOOLEAN]
ASSUME SetupsAssumption == Setups \subseteq [stones : [Points -> {Empty, Black, White}],
                                            first : {Black, White}]

VARIABLES
  rules, first,
  moves,       \* [color, point]; a pass has no point
  cursor,
  snapshots,   \* the stones after each ply, the setup's first
  prisoners,   \* what each colour took, after each ply
  firstSeen, firstSeenToPlay   \* _first_seen, _first_seen_to_play

index == <<firstSeen, firstSeenToPlay>>
line  == <<moves, snapshots, prisoners, index>>
vars  == <<rules, first, line, cursor>>

Pass == "pass"

\* The position after a ply of the line.
Ply(i) == snapshots[i + 1]

\* _setup
Init ==
  /\ rules \in RuleSets
  /\ \E s \in Setups :
       /\ first = s.first
       /\ snapshots = <<s.stones>>
       /\ firstSeen = [k \in {s.stones} |-> 0]
       /\ firstSeenToPlay = [k \in {<<s.stones, s.first>>} |-> 0]
  /\ moves = <<>>
  /\ cursor = 0
  /\ prisoners = <<[color \in {Black, White} |-> 0]>>

-----------------------------------------------------------------------------
(* Legality, as _attempt decides it at the cursor.                         *)

SeenBy(table, key, ply) == key \in DOMAIN table /\ table[key] <= ply

\* bug: the player to move after the stone is taken for the one who played it
Repeats_Mover(color, key) ==
  \/ rules.ko = "simple" /\ cursor > 0 /\ key = Ply(cursor - 1)
  \/ rules.ko = "positional" /\ SeenBy(firstSeen, key, cursor)
  \/ rules.ko = "situational" /\ SeenBy(firstSeenToPlay, <<key, color>>, cursor)

Repeats(color, key) ==
  \/ rules.ko = "simple" /\ cursor > 0 /\ key = Ply(cursor - 1)
  \/ rules.ko = "positional" /\ SeenBy(firstSeen, key, cursor)
  \/ rules.ko = "situational" /\ SeenBy(firstSeenToPlay, <<key, Opponent(color)>>, cursor)

\* A pass always is; a stone on an empty point, if what it leaves (key) is no repetition and
\* what it takes off (lost) is not itself, or may be.
Legal(color, point, lost, key) ==
  point # Pass =>
    /\ Ply(cursor)[point] = Empty
    /\ point \in lost => rules.suicide
    /\ ~Repeats(color, key)

-----------------------------------------------------------------------------
(* The line of play.                                                       *)

\* bug: every entry of a dropped ply goes, whatever ply saw the position first
Kept_AllDropped(table, keys, ply) == [k \in DOMAIN table \ keys |-> table[k]]

\* The entries of an index that stay: those whose first ply is not dropped.
Kept(table, keys, ply) ==
  [k \in {j \in DOMAIN table : ~(j \in keys /\ table[j] > ply)} |-> table[k]]

\* _truncate: the line, and the indexes, up to a ply
Truncated(ply) ==
  LET dropped == ply + 1 .. Len(moves) IN
  [moves     |-> SubSeq(moves, 1, ply),
   snapshots |-> SubSeq(snapshots, 1, ply + 1),
   prisoners |-> SubSeq(prisoners, 1, ply + 1),
   seen      |-> Kept(firstSeen, {Ply(i) : i \in dropped}, ply),
   toPlay    |-> Kept(firstSeenToPlay, {<<Ply(i), Opponent(moves[i].color)>> : i \in dropped}, ply)]

\* bug: a later ply takes the place of the first
Entered_Last(table, key, ply) == [k \in DOMAIN table \cup {key} |-> IF k = key THEN ply ELSE table[k]]

\* setdefault
Entered(table, key, ply) ==
  [k \in DOMAIN table \cup {key} |-> IF k \in DOMAIN table THEN table[k] ELSE ply]

Becomes(t) ==
  /\ moves' = t.moves /\ snapshots' = t.snapshots /\ prisoners' = t.prisoners
  /\ firstSeen' = t.seen /\ firstSeenToPlay' = t.toPlay

\* bug: the stones of a suicide are counted for the player
Taken_Own(color, p, lost) ==
  [prisoners[cursor + 1] EXCEPT ![color] = @ + Cardinality(lost)]

\* prisoners: what was captured is the player's, what was given up the opponent's
Taken(color, p, lost) ==
  [prisoners[cursor + 1] EXCEPT ![IF p \in lost THEN Opponent(color) ELSE color] =
     @ + Cardinality(lost)]

\* play at the cursor, a pass or a legal point: the later moves are discarded
Play(color, point) ==
  /\ cursor < MAX_MOVES
  /\ LET t      == Truncated(cursor)
         ply    == cursor + 1
         stones == IF point = Pass THEN Ply(cursor) ELSE Placed(Ply(cursor), color, point)
         lost   == IF point = Pass THEN {} ELSE Lost(stones, point)
         key    == Without(stones, lost)
     IN /\ Legal(color, point, lost, key)
        /\ moves' = Append(t.moves, [color |-> color, point |-> point])
        /\ snapshots' = Append(t.snapshots, key)
        /\ prisoners' = Append(t.prisoners, Taken(color, point, lost))
        /\ firstSeen' = Entered(t.seen, key, ply)
        /\ firstSeenToPlay' = Entered(t.toPlay, <<key, Opponent(color)>>, ply)
        /\ cursor' = ply
  /\ UNCHANGED <<rules, first>>

\* undo: the move before the cursor goes, and everything after it
Undo ==
  /\ IF cursor = 0 THEN UNCHANGED <<line, cursor>>
     ELSE cursor' = cursor - 1 /\ Becomes(Truncated(cursor - 1))
  /\ UNCHANGED <<rules, first>>

Navigate ==
  /\ cursor' \in 0 .. Len(moves)
  /\ UNCHANGED <<rules, first, line>>

\* branch: everything after the cursor goes
Branch ==
  /\ Becomes(Truncated(cursor))
  /\ UNCHANGED <<rules, first, cursor>>

Next ==
  \/ \E color \in {Black, White}, point \in Points \cup {Pass} : Play(color, point)
  \/ Undo \/ Navigate \/ Branch

Spec == Init /\ [][Next]_vars

-----------------------------------------------------------------------------
\* _to_play_at
ToPlay(i) == IF i = 0 THEN first ELSE Opponent(moves[i].color)

Plies == 0 .. Len(moves)

\* The indexes against a search of the whole line: they hold every position of it, and nothing
\* else, at the first ply it occurred, through plays in the past, undo and branches.
IndexIsExact ==
  /\ DOMAIN firstSeen = {Ply(i) : i \in Plies}
  /\ \A i \in Plies : firstSeen[Ply(i)] = Min({j \in Plies : Ply(j) = Ply(i)})
  /\ DOMAIN firstSeenToPlay = {<<Ply(i), ToPlay(i)>> : i \in Plies}
  /\ \A i \in Plies : firstSeenToPlay[<<Ply(i), ToPlay(i)>>] =
                        Min({j \in Plies : Ply(j) = Ply(i) /\ ToPlay(j) = ToPlay(i)})

\* Every stone of the line keeps the rule of ko in force, told from the line alone.
LineIsLegal ==
  \A j \in 1 .. Len(moves) : moves[j].point # Pass =>
    CASE rules.ko = "simple" -> j = 1 \/ Ply(j) # Ply(j - 2)
      [] rules.ko = "positional" -> \A i \in 0 .. j - 1 : Ply(i) # Ply(j)
      [] rules.ko = "situational" -> \A i \in 0 .. j - 1 : ~(Ply(i) = Ply(j) /\ ToPlay(i) = ToPlay(j))

Alive(stones) == \A p \in Points : stones[p] # Empty => HasLiberty(stones, Chain(stones, p))

\* No stone is lost count of: at every ply the stones of a colour on the board and those the
\* other took are the ones set up and played; and no chain is left without a liberty.
StonesAddUp ==
  /\ \A i \in Plies, color \in {Black, White} :
       CountOf(Ply(i), color) + prisoners[i + 1][Opponent(color)] =
         CountOf(Ply(0), color) + Cardinality({j \in 1 .. i : moves[j].color = color /\ moves[j].point # Pass})
  /\ Alive(Ply(0)) => \A i \in Plies : Alive(Ply(i))
=============================================================================
