-------------------------- MODULE EnginePlayProofs --------------------------
(***************************************************************************)
(* Theorems of engine moves and analysis: stale work is discarded, and     *)
(* figures describe the position they are shown with, for any number of    *)
(* boards, any games up to the move limit and any messages and events.     *)
(***************************************************************************)
EXTENDS EnginePlay, FiniteSetTheorems, SequenceTheorems, TLAPS

-----------------------------------------------------------------------------
(* The invariants.                                                         *)

WorkType == [task : Task \cup {"none"}, engine : Nat, id : Nat, version : Nat, epoch : Nat,
             playersEpoch : Nat, mover : Colours \cup {"none"}, game : GameType,
             since : SUBSET {"players", "boards"}, analyse : BOOLEAN, settings : BOOLEAN]

SearchType == [engine : Nat, id : Nat, version : Nat, line : MoveSeq(Colours), settings : BOOLEAN]

BoardsInv ==
  /\ boards \in Seq(BoardType) /\ Len(boards) \in 1 .. MAX_BOARDS
  /\ \A i, j \in DOMAIN boards : boards[i].id = boards[j].id => i = j
  /\ \A i \in DOMAIN boards : boards[i].game.cursor <= Len(boards[i].game.moves)
  /\ Exists(active)

FlagsInv ==
  /\ players \subseteq Colours
  /\ analysisOn \in BOOLEAN /\ settings \in BOOLEAN /\ thinking \in BOOLEAN /\ halted \in BOOLEAN
  /\ wanted \in BOOLEAN /\ failed \in BOOLEAN /\ crashed \in BOOLEAN /\ closed \in BOOLEAN
  /\ engine \in Nat /\ epoch \in Nat /\ playersEpoch \in Nat
  /\ scenario \in Scenarios

\* The tasks that wait for the lock or have it are in its queue, each once; the first may be
\* asking the engine, and then `work' says what.
TasksInv ==
  /\ task \in [Task -> {"idle", "spawned", "waiting", "asking"}]
  /\ lock \in Seq(Task)
  /\ \A i, j \in 1 .. Len(lock) : lock[i] = lock[j] => i = j
  /\ \A t \in Task : task[t] \in {"waiting", "asking"} <=> \E i \in 1 .. Len(lock) : lock[i] = t
  /\ \A i \in 1 .. Len(lock) : task[lock[i]] = "asking" => i = 1
  /\ \A t \in Task : task[t] = "asking" <=> work.task = t

\* The position and the token of the request in flight: the board it names shows that very game
\* while its version is that one, and what moved an epoch on can be told from the epoch.
WorkInv ==
  /\ work \in WorkType /\ (work.task = "none" => work = NoWork) /\ (work = NoWork => work.task = "none")
  /\ work # NoWork =>
       /\ work.game.cursor <= Len(work.game.moves)
       /\ work.mover # "none"
       /\ \A i \in DOMAIN boards :
            boards[i].id = work.id /\ boards[i].version = work.version => boards[i].game = work.game
       /\ "boards" \in work.since => epoch # work.epoch
       /\ "players" \in work.since => playersEpoch # work.playersEpoch
  /\ search \in SearchType

\* What a version is said to be the version of, by a board, by figures, by the request in flight
\* and by the running search.
Claims ==
  {<<boards[i].version, Line(boards[i].game)>> : i \in DOMAIN boards}
  \cup {<<boards[i].figures.version, boards[i].figures.line>> :
          i \in {j \in DOMAIN boards : boards[j].figures # NoFigures}}
  \cup {<<w.version, Line(w.game)>> : w \in {work} \ {NoWork}}
  \cup {<<s.version, s.line>> : s \in {search} \ {NoSearch}}

\* A version names one position.
VersionsInv == \A c, d \in Claims : c[1] = d[1] => c[2] = d[2]

PlayInv == BoardsInv /\ FlagsInv /\ TasksInv /\ WorkInv /\ VersionsInv

-----------------------------------------------------------------------------
(* New names.                                                              *)

\* Among one more number than a finite set has there is one that it has not.
LEMMA FreshIsNew ==
  ASSUME NEW S, IsFiniteSet(S)
  PROVE  Fresh(S) \in Nat /\ Fresh(S) \notin S
<1> DEFINE n == Cardinality(S)
<1>1. n \in Nat
  BY FS_CardinalityType
<1>2. IsFiniteSet(1 .. n + 1) /\ Cardinality(1 .. n + 1) = n + 1
  BY <1>1, FS_Interval
<1>3. ~(1 .. n + 1 \subseteq S)
  <2> SUFFICES ASSUME 1 .. n + 1 \in SUBSET S PROVE FALSE
    OBVIOUS
  <2>1. Cardinality(1 .. n + 1) <= n
    BY FS_Subset
  <2> QED BY <1>1, <1>2, <2>1
<1>4. \E k \in 1 .. n + 1 : k \notin S
  BY <1>3
<1> QED BY <1>1, <1>4 DEF Fresh

LEMMA PairsAreFinite ==
  ASSUME NEW a, NEW b
  PROVE  IsFiniteSet({a}) /\ IsFiniteSet({a, b})
<1>1. IsFiniteSet({a})
  BY FS_Singleton
<1>2. IsFiniteSet({a} \cup {b})
  BY <1>1, FS_AddElement
<1>3. {a} \cup {b} = {a, b}
  OBVIOUS
<1> QED BY <1>1, <1>2, <1>3

LEMMA NewNames ==
  ASSUME BoardsInv
  PROVE  /\ FreshVersion \in Nat /\ FreshVersion \notin HeldVersions
         /\ FreshId \in Nat /\ FreshId \notin HeldIds
         /\ Fresh(HeldEngines) \in Nat /\ Fresh(HeldEngines) # engine
         /\ NextEpoch \in Nat /\ NextEpoch # work.epoch
         /\ NextPlayersEpoch \in Nat /\ NextPlayersEpoch # work.playersEpoch
<1> DEFINE D == DOMAIN boards
<1>1. IsFiniteSet(D)
  BY FS_Interval DEF BoardsInv
<1>2. IsFiniteSet(HeldVersions)
  <2> DEFINE V == {boards[i].version : i \in D}
             F == {boards[i].figures.version : i \in D}
             f == [i \in D |-> boards[i].version]
             g == [i \in D |-> boards[i].figures.version]
  <2>1. f \in Surjection(D, V) /\ g \in Surjection(D, F)
    BY DEF Surjection
  <2>2. IsFiniteSet(V) /\ IsFiniteSet(F)
    BY <1>1, <2>1, FS_Surjection
  <2>3. IsFiniteSet({work.version, search.version})
    BY PairsAreFinite
  <2>4. IsFiniteSet((V \cup F) \cup {work.version, search.version})
    BY <2>2, <2>3, FS_Union
  <2>5. HeldVersions \in SUBSET ((V \cup F) \cup {work.version, search.version})
    <3>1. ASSUME NEW x \in HeldVersions PROVE x \in (V \cup F) \cup {work.version, search.version}
      <4>1. \/ \E i \in D : x \in {boards[i].version, boards[i].figures.version}
            \/ x \in {work.version, search.version}
        BY <3>1, Zenon DEF HeldVersions
      <4> QED BY <4>1
    <3> QED BY <3>1
  <2> QED BY <2>4, <2>5, FS_Subset
<1>3. IsFiniteSet(HeldIds)
  <2> DEFINE V == {boards[i].id : i \in D}
             f == [i \in D |-> boards[i].id]
  <2>1. f \in Surjection(D, V)
    BY DEF Surjection
  <2>2. IsFiniteSet(V)
    BY <1>1, <2>1, FS_Surjection
  <2>3. IsFiniteSet(V \cup {work.id, search.id})
    BY <2>2, PairsAreFinite, FS_Union
  <2> QED BY <2>3 DEF HeldIds
<1>4. IsFiniteSet(HeldEngines)
  <2> DEFINE a == {engine, work.engine}
             b == {search.engine, arg["raw"]}
             c == {arg["final_score"]}
  <2>1. IsFiniteSet(a) /\ IsFiniteSet(b) /\ IsFiniteSet(c)
    BY PairsAreFinite
  <2>2. IsFiniteSet(a \cup b)
    BY <2>1, FS_Union
  <2>3. IsFiniteSet((a \cup b) \cup c)
    BY <2>1, <2>2, FS_Union
  <2>4. HeldEngines = (a \cup b) \cup c
    BY DEF HeldEngines
  <2> QED BY <2>3, <2>4
<1>5. engine \in HeldEngines
  BY DEF HeldEngines
<1>6. IsFiniteSet({work.epoch}) /\ IsFiniteSet({work.playersEpoch})
  BY PairsAreFinite
<1> QED BY <1>2, <1>3, <1>4, <1>5, <1>6, FreshIsNew DEF FreshVersion, FreshId, NextEpoch, NextPlayersEpoch

-----------------------------------------------------------------------------
(* Games and boards.                                                       *)

LEMMA Limits ==
  ASSUME scenario \in Scenarios
  PROVE  MAX_MOVES \in Nat /\ MAX_MOVES # 0
BY ScenariosAssumption DEF MAX_MOVES

LEMMA MoveSeqs ==
  ASSUME scenario \in Scenarios, NEW cs, NEW s
  PROVE  s \in MoveSeq(cs) <=> s \in Seq(Moves(cs)) /\ Len(s) <= MAX_MOVES
<1>1. MAX_MOVES \in Nat
  BY Limits
<1>2. ASSUME NEW n \in 0 .. MAX_MOVES, s \in [1 .. n -> Moves(cs)]
      PROVE  s \in Seq(Moves(cs)) /\ Len(s) <= MAX_MOVES
  <2>1. s \in Seq(Moves(cs)) /\ n \in Nat
    BY <1>1, <1>2, SeqDef
  <2>2. Len(s) = n
    BY <1>2, <2>1, LenProperties
  <2> QED BY <2>1, <2>2
<1>3. ASSUME s \in Seq(Moves(cs)), Len(s) <= MAX_MOVES
      PROVE  s \in [1 .. Len(s) -> Moves(cs)] /\ Len(s) \in 0 .. MAX_MOVES
  BY <1>1, <1>3, LenProperties
<1> HIDE DEF MAX_MOVES
<1> QED BY <1>2, <1>3 DEF MoveSeq

\* A game as the boards have them.
Game(g) == g \in GameType /\ g.cursor <= Len(g.moves)

LEMMA GameFields ==
  ASSUME scenario \in Scenarios, NEW g, Game(g)
  PROVE  /\ g.moves \in Seq(Moves(Colours)) /\ Len(g.moves) <= MAX_MOVES
         /\ g.cursor \in Nat /\ g.cursor <= Len(g.moves) /\ g.result \in Result
         /\ Line(g) \in Seq(Moves(Colours)) /\ Len(Line(g)) = g.cursor
         /\ Line(g) \in MoveSeq(Colours)
<1>1. g.moves \in MoveSeq(Colours) /\ g.cursor \in 0 .. MAX_MOVES /\ g.result \in Result /\ MAX_MOVES \in Nat
  BY Limits DEF Game, GameType
<1>2. g.moves \in Seq(Moves(Colours)) /\ Len(g.moves) <= MAX_MOVES
  BY <1>1, MoveSeqs
<1>3. Line(g) \in Seq(Moves(Colours)) /\ Len(Line(g)) = g.cursor
  BY <1>1, <1>2 DEF Line, Game
<1>4. Line(g) \in MoveSeq(Colours)
  BY <1>1, <1>3, MoveSeqs
<1> QED BY <1>1, <1>2, <1>3, <1>4 DEF Game

LEMMA MakesGame ==
  ASSUME scenario \in Scenarios, NEW m, m \in Seq(Moves(Colours)), Len(m) <= MAX_MOVES,
         NEW c, c \in Nat, c <= Len(m), NEW r, r \in Result
  PROVE  Game([moves |-> m, cursor |-> c, result |-> r])
<1>1. m \in MoveSeq(Colours) /\ c \in 0 .. MAX_MOVES
  BY MoveSeqs, Limits
<1> QED BY <1>1 DEF Game, GameType

LEMMA WithResult ==
  ASSUME NEW g, Game(g), NEW r \in Result
  PROVE  Game([g EXCEPT !.result = r])
BY DEF Game, GameType

LEMMA GamesKept ==
  ASSUME scenario \in Scenarios, NEW g, Game(g)
  PROVE  /\ \A m \in Moves(Colours) : g.cursor < MAX_MOVES => Game(Play(g, m))
         /\ Game(Undo(g)) /\ Game(BranchResign(g)) /\ Game([g EXCEPT !.result = "resigned"])
         /\ \A c \in 0 .. Len(g.moves) : Game([g EXCEPT !.cursor = c])
         /\ Game(NewGame)
<1>1. /\ g.moves \in Seq(Moves(Colours)) /\ Len(g.moves) <= MAX_MOVES
      /\ g.cursor \in Nat /\ g.cursor <= Len(g.moves) /\ g.result \in Result
      /\ Line(g) \in Seq(Moves(Colours)) /\ Len(Line(g)) = g.cursor
      /\ Line(g) \in MoveSeq(Colours) /\ MAX_MOVES \in Nat
  BY GameFields, Limits
<1>2. "unknown" \in Result /\ "resigned" \in Result
  BY DEF Result
<1>3. ASSUME NEW m \in Moves(Colours), g.cursor < MAX_MOVES PROVE Game(Play(g, m))
  <2>1. Append(Line(g), m) \in Seq(Moves(Colours)) /\ Len(Append(Line(g), m)) = g.cursor + 1
    BY <1>1
  <2>2. /\ Len(Append(Line(g), m)) <= MAX_MOVES /\ g.cursor + 1 \in Nat
        /\ g.cursor + 1 <= Len(Append(Line(g), m))
    BY <1>1, <1>3, <2>1
  <2>3. Game([moves |-> Append(Line(g), m), cursor |-> g.cursor + 1, result |-> "unknown"])
    BY <1>2, <2>1, <2>2, MakesGame
  <2> QED BY <2>3 DEF Play
<1>4. Game(Undo(g))
  <2>1. CASE g.cursor = 0
    BY <1>2, <2>1, WithResult DEF Undo
  <2>2. CASE g.cursor # 0
    <3>1. /\ SubSeq(g.moves, 1, g.cursor - 1) \in Seq(Moves(Colours))
          /\ Len(SubSeq(g.moves, 1, g.cursor - 1)) = g.cursor - 1
          /\ g.cursor - 1 \in Nat /\ Len(SubSeq(g.moves, 1, g.cursor - 1)) <= MAX_MOVES
          /\ g.cursor - 1 <= Len(SubSeq(g.moves, 1, g.cursor - 1))
      BY <1>1, <2>2
    <3>2. Game([moves |-> SubSeq(g.moves, 1, g.cursor - 1), cursor |-> g.cursor - 1,
                result |-> "unknown"])
      BY <1>2, <3>1, MakesGame
    <3> QED BY <2>2, <3>2 DEF Undo
  <2> QED BY <2>1, <2>2
<1>5. Game(BranchResign(g))
  <2>1. [g EXCEPT !.moves = Line(g)] \in GameType /\ [g EXCEPT !.moves = Line(g)].cursor = g.cursor
        /\ [g EXCEPT !.moves = Line(g)].moves = Line(g)
    BY <1>1 DEF Game, GameType
  <2>2. Game(Truncate(g))
    BY <1>1, <2>1 DEF Game, Truncate
  <2> QED BY <1>2, <2>2, WithResult DEF BranchResign
<1>6. ASSUME NEW c \in 0 .. Len(g.moves) PROVE Game([g EXCEPT !.cursor = c])
  <2>1. c \in 0 .. MAX_MOVES
    BY <1>1
  <2> QED BY <1>6, <2>1 DEF Game, GameType
<1>7. Game(NewGame)
  <2>1. <<>> \in Seq(Moves(Colours)) /\ Len(<<>>) = 0
    BY EmptySeq
  <2>2. Len(<<>>) <= MAX_MOVES /\ 0 \in Nat /\ 0 <= Len(<<>>)
    BY <1>1, <2>1
  <2>3. Game([moves |-> <<>>, cursor |-> 0, result |-> "unknown"])
    BY <1>2, <2>1, <2>2, MakesGame
  <2> QED BY <2>3 DEF NewGame
<1> QED BY <1>2, <1>3, <1>4, <1>5, <1>6, <1>7, WithResult

LEMMA BoardAt ==
  ASSUME BoardsInv, NEW i \in DOMAIN boards
  PROVE  /\ boards[i] \in BoardType /\ boards[i].id \in Nat /\ boards[i].version \in Nat
         /\ Game(boards[i].game) /\ boards[i].figures \in FiguresType
         /\ boards[i].version \in HeldVersions /\ boards[i].id \in HeldIds
         /\ boards[i].figures.version \in HeldVersions
<1>1. boards[i] \in BoardType /\ boards[i].game.cursor <= Len(boards[i].game.moves)
  BY DEF BoardsInv
<1>2. boards[i].version \in HeldVersions /\ boards[i].figures.version \in HeldVersions
  BY DEF HeldVersions
<1>3. boards[i].id \in HeldIds
  BY DEF HeldIds
<1> QED BY <1>1, <1>2, <1>3 DEF BoardType, Game

LEMMA IndexIs ==
  ASSUME BoardsInv, NEW id, Exists(id)
  PROVE  /\ Index(id) \in DOMAIN boards /\ Board(id) = boards[Index(id)]
         /\ Board(id).id = id /\ Game(Board(id).game) /\ Board(id).version \in Nat
<1>1. Index(id) \in DOMAIN boards /\ boards[Index(id)].id = id
  BY DEF Index, Exists
<1> QED BY <1>1, BoardAt DEF Board

LEMMA ActiveIs ==
  ASSUME BoardsInv
  PROVE  /\ Index(active) \in DOMAIN boards /\ Active = boards[Index(active)]
         /\ Active.id = active /\ Game(Active.game) /\ Active.version \in Nat
<1>1. Exists(active)
  BY DEF BoardsInv
<1> QED BY <1>1, IndexIs DEF Active

LEMMA NothingShown ==
  ASSUME scenario \in Scenarios
  PROVE  NoFigures \in FiguresType
<1>1. <<>> \in Seq(Moves(Colours)) /\ Len(<<>>) = 0 /\ MAX_MOVES \in Nat
  BY Limits, EmptySeq
<1>2. Len(<<>>) <= MAX_MOVES
  BY <1>1
<1>3. <<>> \in MoveSeq(Colours)
  BY <1>1, <1>2, MoveSeqs
<1> QED BY <1>3 DEF NoFigures, FiguresType

-----------------------------------------------------------------------------
(* What the versions name.                                                 *)

LEMMA ClaimsAre ==
  /\ \A i \in DOMAIN boards :
       /\ <<boards[i].version, Line(boards[i].game)>> \in Claims
       /\ boards[i].figures = NoFigures
            \/ <<boards[i].figures.version, boards[i].figures.line>> \in Claims
  /\ work = NoWork \/ <<work.version, Line(work.game)>> \in Claims
  /\ search = NoSearch \/ <<search.version, search.line>> \in Claims
BY DEF Claims

LEMMA ClaimsAreHeld ==
  \A c \in Claims : c[1] \in HeldVersions
<1> SUFFICES ASSUME NEW c \in Claims PROVE c[1] \in HeldVersions
  OBVIOUS
<1>1. CASE c \in {<<boards[i].version, Line(boards[i].game)>> : i \in DOMAIN boards}
  BY <1>1 DEF HeldVersions
<1>2. CASE c \in {<<boards[i].figures.version, boards[i].figures.line>> :
                    i \in {j \in DOMAIN boards : boards[j].figures # NoFigures}}
  BY <1>2 DEF HeldVersions
<1>3. CASE c \in {<<w.version, Line(w.game)>> : w \in {work} \ {NoWork}}
  BY <1>3 DEF HeldVersions
<1>4. CASE c \in {<<s.version, s.line>> : s \in {search} \ {NoSearch}}
  BY <1>4 DEF HeldVersions
<1> QED BY <1>1, <1>2, <1>3, <1>4 DEF Claims

\* After a step, each board has a version that named the line it shows before, or c says so; and
\* its figures are of such a version.
LineStep(c) ==
  \A j \in DOMAIN boards' :
    /\ <<boards'[j].version, Line(boards'[j].game)>> \in Claims \cup {c}
    /\ \/ boards'[j].figures = NoFigures
       \/ <<boards'[j].figures.version, boards'[j].figures.line>> \in Claims

LEMMA VersionsKept ==
  ASSUME BoardsInv, VersionsInv, NEW l, LineStep(<<FreshVersion, l>>),
         work' = NoWork \/ <<work'.version, Line(work'.game)>> \in Claims,
         search' = NoSearch \/ <<search'.version, search'.line>> \in Claims
  PROVE  VersionsInv'
<1> DEFINE e == <<FreshVersion, l>>
<1>1. ASSUME NEW c \in Claims' PROVE c \in Claims \cup {e}
  <2>1. CASE c \in {<<boards'[i].version, Line(boards'[i].game)>> : i \in DOMAIN boards'}
    BY <2>1 DEF LineStep
  <2>2. CASE c \in {<<boards'[i].figures.version, boards'[i].figures.line>> :
                      i \in {j \in DOMAIN boards' : boards'[j].figures # NoFigures}}
    BY <2>2 DEF LineStep
  <2>3. CASE c \in {<<w.version, Line(w.game)>> : w \in {work'} \ {NoWork}}
    BY <2>3
  <2>4. CASE c \in {<<s.version, s.line>> : s \in {search'} \ {NoSearch}}
    BY <2>4
  <2> QED BY <1>1, <2>1, <2>2, <2>3, <2>4 DEF Claims
<1>2. \A c \in Claims : c[1] # e[1]
  BY ClaimsAreHeld, NewNames
<1>3. \A c, d \in Claims \cup {e} : c[1] = d[1] => c[2] = d[2]
  <2> HIDE DEF e
  <2> QED BY <1>2 DEF VersionsInv
<1> HIDE DEF e
<1> QED BY <1>1, <1>3 DEF VersionsInv

\* A step of the boards: each board that there is afterwards shows what one did before, under its
\* id or under the new id nid, or it shows game ng as the new version nv; and its figures are what
\* a version was said to be before.
BoardStep(nid, nv, ng) ==
  \A j \in DOMAIN boards' :
    /\ \/ boards'[j].version = nv /\ boards'[j].game = ng
       \/ \E i \in DOMAIN boards : /\ boards'[j].version = boards[i].version
                                  /\ boards'[j].game = boards[i].game
                                  /\ boards'[j].id \in {boards[i].id, nid}
    /\ \/ boards'[j].figures = NoFigures
       \/ <<boards'[j].figures.version, boards'[j].figures.line>> \in Claims

LEMMA BoardStepIsLineStep ==
  ASSUME NEW n, NEW v, NEW g, BoardStep(n, v, g)
  PROVE  LineStep(<<v, Line(g)>>)
<1> SUFFICES ASSUME NEW j \in DOMAIN boards'
             PROVE  <<boards'[j].version, Line(boards'[j].game)>> \in Claims \cup {<<v, Line(g)>>}
  BY DEF BoardStep, LineStep
<1>1. CASE boards'[j].version = v /\ boards'[j].game = g
  BY <1>1
<1>2. CASE \E i \in DOMAIN boards : /\ boards'[j].version = boards[i].version
                                   /\ boards'[j].game = boards[i].game
  BY <1>2, ClaimsAre
<1> QED BY <1>1, <1>2 DEF BoardStep

LEMMA StayStep ==
  ASSUME boards' = boards
  PROVE  \A n, v, g : BoardStep(n, v, g)
BY ClaimsAre DEF BoardStep

-----------------------------------------------------------------------------
(* Steps of the boards.                                                    *)

\* One board is replaced under its id.
LEMMA ReplaceStep ==
  ASSUME BoardsInv, scenario' = scenario, active' = active, NEW i \in DOMAIN boards,
         NEW b \in BoardType, Game(b.game), b.id = boards[i].id, boards' = [boards EXCEPT ![i] = b]
  PROVE  /\ BoardsInv' /\ DOMAIN boards' = DOMAIN boards
         /\ boards'[i] = b /\ \A j \in DOMAIN boards : j # i => boards'[j] = boards[j]
<1>1. /\ boards \in Seq(BoardType) /\ Len(boards) \in 1 .. MAX_BOARDS /\ DOMAIN boards = 1 .. Len(boards)
      /\ Len(boards) \in Nat
  BY DEF BoardsInv
<1>2. /\ boards' \in Seq(BoardType) /\ Len(boards') = Len(boards) /\ DOMAIN boards' = DOMAIN boards
      /\ boards'[i] = b /\ \A j \in DOMAIN boards : j # i => boards'[j] = boards[j]
  BY <1>1
<1>3. \A j \in DOMAIN boards : boards'[j].id = boards[j].id
  BY <1>2
<1>4. \A j, k \in DOMAIN boards' : boards'[j].id = boards'[k].id => j = k
  BY <1>2, <1>3 DEF BoardsInv
<1>5. \A j \in DOMAIN boards' : boards'[j].game.cursor <= Len(boards'[j].game.moves)
  BY <1>2 DEF BoardsInv, Game
<1>6. Exists(active)'
  BY <1>2, <1>3 DEF BoardsInv, Exists
<1>7. BoardType' = BoardType
  BY DEF BoardType, GameType, FiguresType, MoveSeq, MAX_MOVES
<1> QED BY <1>1, <1>2, <1>4, <1>5, <1>6, <1>7 DEF BoardsInv

\* A board gets game g and a new version, and keeps its figures or loses them.
LEMMA ChangedStep ==
  ASSUME BoardsInv, scenario \in Scenarios, scenario' = scenario, active' = active,
         NEW id, Exists(id), NEW g, Game(g),
         \/ boards' = Changed(id, g)
         \/ boards' = [boards EXCEPT ![Index(id)] =
                         [@ EXCEPT !.game = g, !.version = FreshVersion, !.figures = NoFigures]]
  PROVE  /\ BoardsInv' /\ DOMAIN boards' = DOMAIN boards /\ \A n : BoardStep(n, FreshVersion, g)
         /\ \A j \in DOMAIN boards : boards'[j].game # boards[j].game => boards[j].id = id
<1> DEFINE i == Index(id)
           v == FreshVersion
           b == boards'[i]
<1>1. i \in DOMAIN boards /\ boards[i].id = id
  BY IndexIs
<1>2. boards[i] \in BoardType /\ v \in Nat /\ g \in GameType /\ NoFigures \in FiguresType
  BY <1>1, BoardAt, NewNames, NothingShown DEF Game
<1>3. PICK r \in BoardType :
        /\ r.id = boards[i].id /\ r.game = g /\ r.version = v
        /\ r.figures \in {boards[i].figures, NoFigures}
        /\ boards' = [boards EXCEPT ![i] = r]
  <2>1. CASE boards' = Changed(id, g)
    <3> DEFINE q == [boards[i] EXCEPT !.game = g, !.version = v]
    <3>1. q \in BoardType /\ q.id = boards[i].id /\ q.game = g /\ q.version = v
          /\ q.figures = boards[i].figures
      BY <1>2 DEF BoardType
    <3>2. boards' = [boards EXCEPT ![i] = q]
      BY <2>1 DEF Changed
    <3> HIDE DEF q
    <3> QED BY <3>1, <3>2
  <2>2. CASE boards' = [boards EXCEPT ![Index(id)] =
                         [@ EXCEPT !.game = g, !.version = FreshVersion, !.figures = NoFigures]]
    <3> DEFINE q == [boards[i] EXCEPT !.game = g, !.version = v, !.figures = NoFigures]
    <3>1. q \in BoardType /\ q.id = boards[i].id /\ q.game = g /\ q.version = v
          /\ q.figures = NoFigures
      BY <1>2 DEF BoardType
    <3>2. boards' = [boards EXCEPT ![i] = q]
      BY <2>2
    <3> HIDE DEF q
    <3> QED BY <3>1, <3>2
  <2> QED BY <2>1, <2>2
<1>4. /\ BoardsInv' /\ DOMAIN boards' = DOMAIN boards
      /\ boards'[i] = r /\ \A j \in DOMAIN boards : j # i => boards'[j] = boards[j]
  BY <1>1, <1>3, ReplaceStep
<1>5. ASSUME NEW n PROVE BoardStep(n, v, g)
  BY <1>1, <1>3, <1>4, ClaimsAre DEF BoardStep
<1> QED BY <1>1, <1>4, <1>5

-----------------------------------------------------------------------------
(* The request in flight.                                                  *)

\* A message leaves the request as it is, or notes on it that it moved an epoch on.
EpochsMove ==
  \/ work' = work /\ epoch' = epoch /\ playersEpoch' = playersEpoch
  \/ Since("boards") /\ epoch' = NextEpoch /\ playersEpoch' = playersEpoch
  \/ Since("players") /\ epoch' = epoch /\ playersEpoch' = NextPlayersEpoch

LEMMA EpochsAreNat ==
  ASSUME BoardsInv, FlagsInv, EpochsMove
  PROVE  epoch' \in Nat /\ playersEpoch' \in Nat
BY NewNames DEF EpochsMove, FlagsInv

LEMMA SinceIs ==
  ASSUME WorkInv, EpochsMove
  PROVE  /\ work' \in WorkType /\ work'.task = work.task /\ (work' = NoWork <=> work = NoWork)
         /\ work # NoWork => /\ work'.version = work.version /\ work'.game = work.game
                             /\ work'.id = work.id /\ work'.mover = work.mover
                             /\ work'.epoch = work.epoch /\ work'.playersEpoch = work.playersEpoch
                             /\ work'.since \subseteq {"players", "boards"}
                             /\ work'.engine = work.engine /\ work'.analyse = work.analyse
                             /\ work'.settings = work.settings
         /\ "boards" \in work'.since => "boards" \in work.since \/ epoch' = NextEpoch
         /\ "players" \in work'.since => "players" \in work.since \/ playersEpoch' = NextPlayersEpoch
         /\ epoch' = epoch \/ epoch' = NextEpoch
         /\ playersEpoch' = playersEpoch \/ playersEpoch' = NextPlayersEpoch
<1>1. work \in WorkType /\ (work.task = "none" <=> work = NoWork)
  BY DEF WorkInv
<1>2. CASE work' = work
  BY <1>1, <1>2 DEF EpochsMove, Since, WorkType
<1>3. ASSUME work # NoWork, NEW what \in {"players", "boards"},
             work' = [work EXCEPT !.since = @ \cup {what}]
      PROVE  /\ work' \in WorkType /\ work'.task = work.task
             /\ work'.since = work.since \cup {what}
             /\ work'.version = work.version /\ work'.game = work.game
             /\ work'.id = work.id /\ work'.mover = work.mover
             /\ work'.epoch = work.epoch /\ work'.playersEpoch = work.playersEpoch
             /\ work'.engine = work.engine /\ work'.analyse = work.analyse
             /\ work'.settings = work.settings
  BY <1>1, <1>3 DEF WorkType
<1>4. NoWork.task = "none"
  BY DEF NoWork
<1>5. CASE work # NoWork /\ Since("boards") /\ epoch' = NextEpoch /\ playersEpoch' = playersEpoch
  <2>1. work' = [work EXCEPT !.since = @ \cup {"boards"}]
    BY <1>5 DEF Since
  <2> QED BY <1>1, <1>3, <1>4, <1>5, <2>1 DEF WorkType
<1>6. CASE work # NoWork /\ Since("players") /\ epoch' = epoch /\ playersEpoch' = NextPlayersEpoch
  <2>1. work' = [work EXCEPT !.since = @ \cup {"players"}]
    BY <1>6 DEF Since
  <2> QED BY <1>1, <1>3, <1>4, <1>6, <2>1 DEF WorkType
<1> QED BY <1>2, <1>5, <1>6 DEF EpochsMove, Since

LEMMA SameTypes ==
  ASSUME scenario' = scenario
  PROVE  WorkType' = WorkType /\ SearchType' = SearchType /\ BoardType' = BoardType
BY DEF WorkType, SearchType, BoardType, GameType, FiguresType, MoveSeq, MAX_MOVES

LEMMA RequestKept ==
  ASSUME BoardsInv, WorkInv, VersionsInv, EpochsMove, search' = search, scenario' = scenario,
         NEW n, n \notin HeldIds, NEW g, BoardStep(n, FreshVersion, g)
  PROVE  WorkInv' /\ VersionsInv' /\ work'.task = work.task
<1>1. /\ work' \in WorkType /\ work'.task = work.task /\ (work' = NoWork <=> work = NoWork)
      /\ work # NoWork => /\ work'.version = work.version /\ work'.game = work.game
                          /\ work'.id = work.id /\ work'.mover = work.mover
                          /\ work'.epoch = work.epoch /\ work'.playersEpoch = work.playersEpoch
      /\ "boards" \in work'.since => "boards" \in work.since \/ epoch' = NextEpoch
      /\ "players" \in work'.since => "players" \in work.since \/ playersEpoch' = NextPlayersEpoch
      /\ epoch' = epoch \/ epoch' = NextEpoch
      /\ playersEpoch' = playersEpoch \/ playersEpoch' = NextPlayersEpoch
  BY SinceIs
<1>2. VersionsInv'
  <2>1. LineStep(<<FreshVersion, Line(g)>>)
    BY BoardStepIsLineStep
  <2> QED BY <1>1, <2>1, ClaimsAre, VersionsKept
<1>3. ASSUME work # NoWork, NEW j \in DOMAIN boards',
             boards'[j].id = work.id, boards'[j].version = work.version
      PROVE  boards'[j].game = work.game
  <2>1. work.version \in HeldVersions /\ work.id \in HeldIds
    BY DEF HeldVersions, HeldIds
  <2>2. PICK i \in DOMAIN boards : /\ boards'[j].version = boards[i].version
                                  /\ boards'[j].game = boards[i].game
                                  /\ boards'[j].id \in {boards[i].id, n}
    BY <1>3, <2>1, NewNames DEF BoardStep
  <2> QED BY <1>3, <2>1, <2>2 DEF WorkInv
<1>4. /\ "boards" \in work'.since /\ work # NoWork => epoch' # work'.epoch
      /\ "players" \in work'.since /\ work # NoWork => playersEpoch' # work'.playersEpoch
  BY <1>1, NewNames DEF WorkInv
<1> QED BY <1>1, <1>2, <1>3, <1>4, SameTypes DEF WorkInv

\* The answer has come: nothing is in flight.
LEMMA RequestOver ==
  ASSUME BoardsInv, WorkInv, VersionsInv, work' = NoWork, scenario \in Scenarios, scenario' = scenario,
         search' \in SearchType, search' = NoSearch \/ <<search'.version, search'.line>> \in Claims,
         NEW l, LineStep(<<FreshVersion, l>>)
  PROVE  WorkInv' /\ VersionsInv'
<1>1. VersionsInv'
  BY VersionsKept
<1>2. NoWork \in WorkType
  <2>1. NewGame \in GameType
    <3>1. <<>> \in Seq(Moves(Colours)) /\ Len(<<>>) = 0 /\ MAX_MOVES \in Nat
      BY Limits, EmptySeq
    <3>2. Len(<<>>) <= MAX_MOVES /\ 0 \in 0 .. MAX_MOVES
      BY <3>1
    <3>3. <<>> \in MoveSeq(Colours)
      BY <3>1, <3>2, MoveSeqs
    <3> QED BY <3>2, <3>3 DEF NewGame, GameType, Result
  <2> QED BY <2>1 DEF NoWork, WorkType, None
<1> QED BY <1>1, <1>2, SameTypes DEF WorkInv, NoWork

LEMMA NoSearchIs ==
  ASSUME scenario \in Scenarios
  PROVE  NoSearch \in SearchType
<1>1. <<>> \in MoveSeq(Colours)
  BY NothingShown DEF NoFigures, FiguresType
<1> QED BY <1>1 DEF NoSearch, SearchType, None

-----------------------------------------------------------------------------
(* The tasks.                                                              *)

States == {"idle", "spawned", "waiting", "asking"}

\* Idle tasks may have been spawned.
Spawns(tk) ==
  /\ task' \in [Task -> States]
  /\ \A u \in Task : task'[u] = tk[u] \/ (tk[u] = "idle" /\ task'[u] = "spawned")

LEMMA Arms ==
  ASSUME FlagsInv, NEW tk \in [Task -> States],
         \/ Rearm(tk)
         \/ Refresh(tk)
         \/ RequestAnalysis(tk) /\ UNCHANGED halted
  PROVE  Spawns(tk) /\ wanted' \in BOOLEAN /\ halted' \in BOOLEAN
<1>1. ASSUME NEW t \in Task, NEW k \in [Task -> States]
      PROVE  /\ Spawned(k, t) \in [Task -> States]
             /\ \A u \in Task : Spawned(k, t)[u] = k[u] \/ (k[u] = "idle" /\ Spawned(k, t)[u] = "spawned")
  <2>1. CASE k[t] = "idle"
    <3>1. Spawned(k, t) = [k EXCEPT ![t] = "spawned"] /\ "spawned" \in States
      BY <2>1 DEF Spawned, States
    <3> QED BY <1>1, <2>1, <3>1
  <2>2. CASE k[t] # "idle"
    BY <1>1, <2>2 DEF Spawned
  <2> QED BY <2>1, <2>2
<1>2. "refresh" \in Task /\ "auto" \in Task
  BY DEF Task, OnDemand
<1>3. ASSUME NEW k \in [Task -> States], RequestAnalysis(k)
      PROVE  wanted' \in BOOLEAN /\ Spawns(k)
  <2>1. wanted' \in BOOLEAN /\ (task' = Spawned(k, "refresh") \/ task' = k)
    BY <1>3 DEF RequestAnalysis, FlagsInv
  <2> QED BY <1>1, <1>2, <1>3, <2>1 DEF Spawns
<1>4. CASE Rearm(tk)
  <2> DEFINE k == IF ShouldMove' THEN Spawned(tk, "auto") ELSE tk
  <2>1. k \in [Task -> States]
        /\ \A u \in Task : k[u] = tk[u] \/ (tk[u] = "idle" /\ k[u] = "spawned")
    <3>1. k = Spawned(tk, "auto") \/ k = tk
      OBVIOUS
    <3> HIDE DEF k
    <3> QED BY <1>1, <1>2, <3>1
  <2>2. RequestAnalysis(k) /\ halted' \in BOOLEAN
    BY <1>4 DEF Rearm, FlagsInv
  <2> HIDE DEF k
  <2>3. wanted' \in BOOLEAN /\ Spawns(k)
    BY <1>3, <2>1, <2>2
  <2> QED BY <2>1, <2>2, <2>3 DEF Spawns
<1> QED BY <1>3, <1>4 DEF Refresh, FlagsInv

\* The lock and the request are as they were.
LEMMA TasksSpawn ==
  ASSUME TasksInv, lock' = lock, work'.task = work.task, Spawns(task)
  PROVE  TasksInv'
<1>1. \A i \in 1 .. Len(lock) : lock[i] \in Task
  BY DEF TasksInv
<1>2. \A u \in Task : /\ task'[u] \in {"waiting", "asking"} <=> task[u] \in {"waiting", "asking"}
                      /\ task'[u] = "asking" <=> task[u] = "asking"
  BY DEF TasksInv, Spawns
<1> QED BY <1>1, <1>2 DEF TasksInv, Spawns, States

\* The head of the lock's queue leaves it.
LEMMA TasksRelease ==
  ASSUME TasksInv, NEW t \in Task, NEW tk, tk = [task EXCEPT ![t] = "idle"], Spawns(tk),
         lock # <<>>, Head(lock) = t, lock' = Tail(lock), work'.task = "none"
  PROVE  TasksInv'
<1>1. /\ lock \in Seq(Task) /\ Len(lock) \in Nat /\ Len(lock) > 0 /\ lock[1] = t
      /\ lock' \in Seq(Task) /\ Len(lock') = Len(lock) - 1
      /\ \A i \in 1 .. Len(lock') : lock'[i] = lock[i + 1]
  BY DEF TasksInv
<1>2. \A i \in 1 .. Len(lock) : lock[i] \in Task
  BY <1>1
<1>3. \A i, j \in 1 .. Len(lock') : lock'[i] = lock'[j] => i = j
  BY <1>1 DEF TasksInv
<1>4. \A u \in Task : u # t => /\ task'[u] \in {"waiting", "asking"} <=> task[u] \in {"waiting", "asking"}
                               /\ task'[u] = "asking" <=> task[u] = "asking"
  BY DEF TasksInv, Spawns
<1>5. task'[t] \in {"idle", "spawned"}
  BY DEF TasksInv, Spawns
<1>6. \A u \in Task : u # t /\ task[u] = "asking" => FALSE
  BY <1>1 DEF TasksInv
<1>7. \A u \in Task : task'[u] # "asking"
  BY <1>4, <1>5, <1>6
<1>8. ASSUME NEW u \in Task
      PROVE  task'[u] \in {"waiting", "asking"} <=> \E i \in 1 .. Len(lock') : lock'[i] = u
  <2>1. CASE u = t
    <3>1. \A i \in 1 .. Len(lock') : lock'[i] # t
      BY <1>1 DEF TasksInv
    <3> QED BY <1>5, <2>1, <3>1
  <2>2. CASE u # t
    <3>1. (\E i \in 1 .. Len(lock) : lock[i] = u) => \E i \in 1 .. Len(lock') : lock'[i] = u
      <4>1. ASSUME NEW i \in 1 .. Len(lock), lock[i] = u PROVE \E k \in 1 .. Len(lock') : lock'[k] = u
        <5>1. i # 1
          BY <1>1, <2>2, <4>1
        <5>2. i - 1 \in 1 .. Len(lock') /\ lock'[i - 1] = lock[i]
          BY <1>1, <5>1
        <5> QED BY <4>1, <5>2
      <4> QED BY <4>1
    <3>2. (\E i \in 1 .. Len(lock') : lock'[i] = u) => \E i \in 1 .. Len(lock) : lock[i] = u
      <4>1. ASSUME NEW i \in 1 .. Len(lock'), lock'[i] = u PROVE \E k \in 1 .. Len(lock) : lock[k] = u
        <5>1. i + 1 \in 1 .. Len(lock) /\ lock'[i] = lock[i + 1]
          BY <1>1
        <5> QED BY <4>1, <5>1
      <4> QED BY <4>1
    <3> QED BY <1>4, <2>2, <3>1, <3>2 DEF TasksInv
  <2> QED BY <2>1, <2>2
<1>9. task' \in [Task -> {"idle", "spawned", "waiting", "asking"}]
  BY DEF Spawns, States
<1>10. \A i \in 1 .. Len(lock') : lock'[i] \in Task
  BY <1>1
<1>11. "none" \notin Task
  BY DEF Task, OnDemand
<1>12. \A u \in Task : task'[u] = "asking" <=> work'.task = u
  BY <1>7, <1>11
<1>13. \A i \in 1 .. Len(lock') : task'[lock'[i]] = "asking" => i = 1
  BY <1>7, <1>10
<1> QED BY <1>1, <1>3, <1>8, <1>9, <1>12, <1>13 DEF TasksInv

\* A task that has the lock or not asks for it (again), and gets in line.
LEMMA TasksQueue ==
  ASSUME TasksInv, NEW t \in Task, task[t] = "spawned", lock' = Append(lock, t),
         task' = [task EXCEPT ![t] = "waiting"], work' = work
  PROVE  TasksInv'
<1>1. /\ lock \in Seq(Task) /\ Len(lock) \in Nat
      /\ lock' \in Seq(Task) /\ Len(lock') = Len(lock) + 1
      /\ \A i \in 1 .. Len(lock) : lock'[i] = lock[i]
      /\ lock'[Len(lock) + 1] = t
  BY DEF TasksInv
<1>2. \A i \in 1 .. Len(lock) : lock[i] \in Task /\ lock[i] # t
  BY <1>1 DEF TasksInv
<1>3. \A i \in 1 .. Len(lock') : i \in 1 .. Len(lock) \/ i = Len(lock) + 1
  BY <1>1
<1>4. \A i, j \in 1 .. Len(lock') : lock'[i] = lock'[j] => i = j
  BY <1>1, <1>2, <1>3 DEF TasksInv
<1>5. task' \in [Task -> States] /\ task'[t] = "waiting" /\ \A u \in Task : u # t => task'[u] = task[u]
  BY DEF TasksInv, States
<1>6. \A u \in Task : task'[u] \in {"waiting", "asking"} <=> \E i \in 1 .. Len(lock') : lock'[i] = u
  <2> SUFFICES ASSUME NEW u \in Task
               PROVE  task'[u] \in {"waiting", "asking"} <=> \E i \in 1 .. Len(lock') : lock'[i] = u
    OBVIOUS
  <2>1. CASE u = t
    <3>1. Len(lock) + 1 \in 1 .. Len(lock')
      BY <1>1
    <3> QED BY <1>1, <1>5, <2>1, <3>1
  <2>2. CASE u # t
    <3>1. (\E i \in 1 .. Len(lock) : lock[i] = u) <=> \E i \in 1 .. Len(lock') : lock'[i] = u
      BY <1>1, <1>3, <2>2
    <3> QED BY <1>5, <2>2, <3>1 DEF TasksInv
  <2> QED BY <2>1, <2>2
<1>7. \A i \in 1 .. Len(lock') : task'[lock'[i]] = "asking" => i = 1
  BY <1>1, <1>2, <1>3, <1>5 DEF TasksInv
<1> QED BY <1>1, <1>4, <1>5, <1>6, <1>7 DEF TasksInv, States

LEMMA TasksAgain ==
  ASSUME TasksInv, NEW t \in Task, lock # <<>>, Head(lock) = t, lock' = Append(Tail(lock), t),
         NEW tk, tk = [task EXCEPT ![t] = "waiting"], Spawns(tk), work'.task = "none"
  PROVE  TasksInv'
<1> DEFINE n == Len(lock)
<1>0. n \in Nat /\ n > 0
  BY DEF TasksInv
<1>1. /\ lock \in Seq(Task) /\ n \in Nat /\ n > 0 /\ lock[1] = t
      /\ Tail(lock) \in Seq(Task) /\ Len(Tail(lock)) = n - 1
      /\ \A i \in 1 .. n - 1 : Tail(lock)[i] = lock[i + 1]
  BY DEF TasksInv
<1>2. /\ lock' \in Seq(Task) /\ Len(lock') = n /\ lock'[n] = t
      /\ \A i \in 1 .. n - 1 : lock'[i] = lock[i + 1]
  BY <1>1
<1>3. \A i \in 2 .. n : lock[i] \in Task /\ lock[i] # t /\ task[lock[i]] # "asking"
  BY <1>1 DEF TasksInv
<1>20. \A i, j \in 1 .. n : lock[i] = lock[j] => i = j
  BY DEF TasksInv
<1> HIDE DEF n
<1>21. \A i \in 1 .. n : lock'[i] \in Task
  BY <1>0, <1>2
<1>4. \A i \in 1 .. n : i = n \/ (i \in 1 .. n - 1 /\ i + 1 \in 2 .. n /\ i + 1 \in 1 .. n)
  BY <1>0
<1>5. \A i, j \in 1 .. n : lock'[i] = lock'[j] => i = j
  <2> SUFFICES ASSUME NEW i \in 1 .. n, NEW j \in 1 .. n, lock'[i] = lock'[j] PROVE i = j
    OBVIOUS
  <2>1. CASE i = n \/ j = n
    BY <1>1, <1>2, <1>3, <1>4, <2>1
  <2>2. CASE i # n /\ j # n
    <3>1. i + 1 \in 1 .. n /\ j + 1 \in 1 .. n /\ i \in Nat /\ j \in Nat
      BY <1>0, <1>4, <2>2
    <3>2. lock[i + 1] = lock[j + 1]
      BY <1>2, <1>4, <2>2
    <3>3. i + 1 = j + 1
      BY <1>20, <3>1, <3>2
    <3> QED BY <3>1, <3>3
  <2> QED BY <2>1, <2>2
<1>6. task' \in [Task -> States] /\ task'[t] = "waiting"
      /\ \A u \in Task : u # t => task'[u] = task[u] \/ (task[u] = "idle" /\ task'[u] = "spawned")
  BY ZenonT(40) DEF TasksInv, Spawns
<1>7. \A u \in Task : task'[u] # "asking"
  <2> SUFFICES ASSUME NEW u \in Task, u # t, task[u] = "asking" PROVE FALSE
    BY <1>6
  <2>1. PICK i \in 1 .. n : lock[i] = u
    BY DEF TasksInv, n
  <2>2. i = 1 \/ i \in 2 .. n
    BY <1>0
  <2> QED BY <1>1, <1>3, <2>1, <2>2
<1>8. ASSUME NEW u \in Task
      PROVE  task'[u] \in {"waiting", "asking"} <=> \E i \in 1 .. n : lock'[i] = u
  <2>1. CASE u = t
    <3>1. n \in 1 .. n
      BY <1>1
    <3> QED BY <1>2, <1>6, <2>1, <3>1
  <2>2. CASE u # t
    <3>1. ASSUME NEW i \in 1 .. n, lock[i] = u PROVE \E k \in 1 .. n : lock'[k] = u
      <4>1. i # 1
        BY <1>1, <2>2, <3>1
      <4>2. i - 1 \in 1 .. n - 1 /\ i - 1 \in 1 .. n /\ (i - 1) + 1 = i
        BY <1>0, <4>1
      <4>3. lock'[i - 1] = lock[i]
        BY <1>2, <4>2
      <4> QED BY <3>1, <4>2, <4>3
    <3>2. ASSUME NEW i \in 1 .. n, lock'[i] = u PROVE \E k \in 1 .. n : lock[k] = u
      <4>1. i # n
        BY <1>2, <2>2, <3>2
      <4>2. i + 1 \in 1 .. n /\ lock'[i] = lock[i + 1]
        BY <1>2, <1>4, <4>1
      <4> QED BY <3>2, <4>2
    <3> QED BY <1>6, <2>2, <3>1, <3>2 DEF TasksInv, n
  <2> QED BY <2>1, <2>2
<1>9. "none" \notin Task
  BY DEF Task, OnDemand
<1>10. \A u \in Task : task'[u] = "asking" <=> work'.task = u
  BY <1>7, <1>9
<1>11. \A i \in 1 .. n : task'[lock'[i]] = "asking" => i = 1
  BY <1>7, <1>21
<1>12. \A u \in Task : task'[u] \in {"waiting", "asking"} <=> \E i \in 1 .. Len(lock') : lock'[i] = u
  BY <1>2, <1>8
<1>13. /\ \A i, j \in 1 .. Len(lock') : lock'[i] = lock'[j] => i = j
       /\ \A i \in 1 .. Len(lock') : task'[lock'[i]] = "asking" => i = 1
  BY <1>2, <1>5, <1>11
<1> QED BY <1>2, <1>6, <1>10, <1>12, <1>13 DEF TasksInv, States

LEMMA HeadAlone ==
  ASSUME TasksInv, NEW t \in Task, Holds(t)
  PROVE  /\ lock[1] = t /\ 1 \in 1 .. Len(lock)
         /\ \A u \in Task : u # t => task[u] # "asking"
<1>1. lock \in Seq(Task) /\ Len(lock) \in Nat /\ Len(lock) > 0 /\ lock[1] = t
  BY DEF TasksInv, Holds
<1>2. ASSUME NEW u \in Task, u # t, task[u] = "asking" PROVE FALSE
  <2>1. PICK i \in 1 .. Len(lock) : lock[i] = u
    BY <1>2 DEF TasksInv
  <2> QED BY <1>1, <1>2, <2>1 DEF TasksInv
<1> QED BY <1>1, <1>2

LEMMA TasksAsk ==
  ASSUME TasksInv, NEW t \in Task, Holds(t), task[t] = "waiting", UNCHANGED lock,
         task' = [task EXCEPT ![t] = "asking"], work'.task = t
  PROVE  TasksInv'
<1>1. /\ lock[1] = t /\ 1 \in 1 .. Len(lock)
      /\ \A u \in Task : u # t => task[u] # "asking"
  BY HeadAlone
<1>2. task' \in [Task -> States] /\ task'[t] = "asking" /\ \A u \in Task : u # t => task'[u] = task[u]
  BY DEF TasksInv, States
<1>3. \A i \in 1 .. Len(lock) : lock[i] \in Task
  BY DEF TasksInv
<1>4. \A i \in 1 .. Len(lock) : task'[lock[i]] = "asking" => i = 1
  BY <1>1, <1>2, <1>3 DEF TasksInv
<1>5. \A u \in Task : task'[u] = "asking" <=> work'.task = u
  BY <1>1, <1>2
<1>6. \A u \in Task : task'[u] \in {"waiting", "asking"} <=> task[u] \in {"waiting", "asking"}
  BY <1>2
<1> QED BY <1>2, <1>4, <1>5, <1>6 DEF TasksInv, States

\* The task whose answer comes has the lock, and the request is its.
LEMMA Asking ==
  ASSUME TasksInv, WorkInv, NEW t \in Task, task[t] = "asking"
  PROVE  work.task = t /\ work # NoWork /\ Holds(t)
<1>1. work.task = t /\ "none" \notin Task
  BY DEF TasksInv, Task, OnDemand
<1>2. work # NoWork
  BY <1>1 DEF NoWork
<1>3. PICK i \in 1 .. Len(lock) : lock[i] = t
  BY DEF TasksInv
<1>4. i = 1 /\ lock \in Seq(Task)
  BY <1>3 DEF TasksInv
<1>5. lock # <<>> /\ Head(lock) = t
  BY <1>3, <1>4
<1> QED BY <1>1, <1>2, <1>5 DEF Holds

-----------------------------------------------------------------------------
(* The messages.                                                           *)

\* What a message does to the invariants: it keeps them, the request in flight stays one, and
\* so does its task.
Kept == PlayInv' /\ work'.task = work.task

\* What there is to show of a message once the boards, the flags and the request are known.
LEMMA MessageKeeps ==
  ASSUME PlayInv, EpochsMove, search' = search, scenario' = scenario, lock' = lock,
         BoardsInv', NEW n, n \notin HeldIds, NEW g, BoardStep(n, FreshVersion, g),
         Rearm(task) \/ Refresh(task) \/ (wanted' = wanted /\ halted' = halted /\ Spawns(task)),
         players' \subseteq Colours, analysisOn' \in BOOLEAN, settings' \in BOOLEAN,
         thinking' \in BOOLEAN, failed' = failed, crashed' = crashed, closed' \in BOOLEAN, engine' \in Nat
  PROVE  Kept
<1>1. BoardsInv /\ FlagsInv /\ TasksInv /\ WorkInv /\ VersionsInv
  BY DEF PlayInv
<1>2. WorkInv' /\ VersionsInv' /\ work'.task = work.task
  BY <1>1, RequestKept
<1>3. Spawns(task) /\ wanted' \in BOOLEAN /\ halted' \in BOOLEAN
  <2>1. task \in [Task -> States]
    BY <1>1 DEF TasksInv, States
  <2> QED BY <1>1, <2>1, Arms DEF FlagsInv
<1>4. TasksInv'
  BY <1>1, <1>2, <1>3, TasksSpawn
<1>5. FlagsInv'
  BY <1>1, <1>3, EpochsAreNat DEF FlagsInv
<1> QED BY <1>2, <1>4, <1>5 DEF Kept, PlayInv

LEMMA PositionKeeps ==
  ASSUME PlayInv, NEW g, Game(g), Position(g), Rearm(task) \/ Refresh(task)
  PROVE  Kept
<1>1. BoardsInv /\ FlagsInv
  BY DEF PlayInv
<1>2. Exists(active)
  BY <1>1 DEF BoardsInv
<1>3. /\ boards' = Changed(active, g) /\ active' = active /\ scenario' = scenario
      /\ UNCHANGED <<players, analysisOn, settings, engine, thinking, epoch, playersEpoch, arg,
                     lock, work, search, failed, crashed, closed>>
  BY DEF Position, ChangeGame, epochs, rest
<1>4. BoardsInv' /\ BoardStep(FreshId, FreshVersion, g)
  BY <1>1, <1>2, <1>3, ChangedStep DEF FlagsInv
<1>5. EpochsMove
  BY <1>3 DEF EpochsMove
<1> QED BY <1>1, <1>3, <1>4, <1>5, NewNames, MessageKeeps DEF FlagsInv

\* Messages that leave the boards alone.
LEMMA SettingKeeps ==
  ASSUME PlayInv, EpochsMove, boards' = boards, search' = search, scenario' = scenario, lock' = lock,
         Exists(active'),
         Rearm(task) \/ Refresh(task) \/ (wanted' = wanted /\ halted' = halted /\ Spawns(task)),
         players' \subseteq Colours, analysisOn' \in BOOLEAN, settings' \in BOOLEAN,
         thinking' \in BOOLEAN, failed' = failed, crashed' = crashed, closed' \in BOOLEAN, engine' \in Nat
  PROVE  Kept
<1>1. BoardsInv
  BY DEF PlayInv
<1>2. BoardsInv'
  BY <1>1, SameTypes DEF BoardsInv, Exists
<1>3. BoardStep(FreshId, FreshVersion, NewGame)
  BY StayStep
<1> QED BY <1>1, <1>2, <1>3, NewNames, MessageKeeps

LEMMA SameTasks ==
  ASSUME TasksInv, task' = task
  PROVE  Spawns(task)
BY DEF TasksInv, Spawns, States

LEMMA ThePlay ==
  PlayInv => BoardsInv /\ FlagsInv /\ TasksInv /\ WorkInv /\ VersionsInv /\ scenario \in Scenarios
             /\ Exists(active) /\ Game(Active.game)
BY ActiveIs DEF PlayInv, FlagsInv, BoardsInv

LEMMA PlayKeeps ==
  ASSUME PlayInv, MsgPlay \/ MsgResign \/ MsgUndo \/ MsgNavigate
  PROVE  Kept
<1> DEFINE g == Active.game
<1>1. scenario \in Scenarios /\ Game(g)
  BY ThePlay
<1>2. CASE MsgPlay
  <2>1. PICK m \in Moves(Sides) : Position(Play(g, m))
    BY <1>2 DEF MsgPlay
  <2>2. m \in Moves(Colours) /\ g.cursor < MAX_MOVES /\ Rearm(task)
    BY <1>2, SidesAssumption DEF MsgPlay, Moves, Colours
  <2>3. Game(Play(g, m))
    BY <1>1, <2>2, GamesKept
  <2> QED BY <2>1, <2>2, <2>3, PositionKeeps
<1>3. CASE MsgResign
  <2>1. Game([g EXCEPT !.result = "resigned"])
    BY <1>1, GamesKept
  <2> QED BY <1>3, <2>1, PositionKeeps DEF MsgResign
<1>4. CASE MsgUndo
  <2>1. Game(Undo(g))
    BY <1>1, GamesKept
  <2> QED BY <1>4, <2>1, PositionKeeps DEF MsgUndo
<1>5. CASE MsgNavigate
  <2>1. PICK c \in 0 .. Len(g.moves) : Position([g EXCEPT !.cursor = c])
    BY <1>5 DEF MsgNavigate
  <2>2. Game([g EXCEPT !.cursor = c])
    BY <1>1, GamesKept
  <2> QED BY <1>5, <2>1, <2>2, PositionKeeps DEF MsgNavigate
<1> QED BY <1>2, <1>3, <1>4, <1>5

LEMMA LoadKeeps ==
  ASSUME PlayInv, MsgLoad
  PROVE  Kept
<1>1. PICK m \in MoveSeq(Sides), r \in Result :
        boards' = [boards EXCEPT ![Index(active)] =
                     [@ EXCEPT !.game = [moves |-> m, cursor |-> Len(m), result |-> r],
                               !.version = FreshVersion, !.figures = NoFigures]]
  BY DEF MsgLoad
<1> DEFINE g == [moves |-> m, cursor |-> Len(m), result |-> r]
<1>2. BoardsInv /\ FlagsInv /\ scenario \in Scenarios /\ Exists(active)
  BY ThePlay
<1>3. Game(g)
  <2>1. m \in Seq(Moves(Sides)) /\ Len(m) <= MAX_MOVES
    BY <1>2, MoveSeqs
  <2>2. Moves(Sides) \subseteq Moves(Colours)
    BY SidesAssumption DEF Moves, Colours
  <2>3. m \in Seq(Moves(Colours)) /\ Len(m) \in Nat /\ Len(m) <= Len(m)
    BY <2>1, <2>2
  <2> QED BY <1>2, <2>1, <2>3, MakesGame
<1>4. /\ active' = active /\ scenario' = scenario
      /\ UNCHANGED <<players, analysisOn, settings, engine, thinking, epoch, playersEpoch, arg,
                     lock, work, search, failed, crashed, closed>>
      /\ Rearm(task)
  BY DEF MsgLoad, epochs, rest
<1>5. BoardsInv' /\ BoardStep(FreshId, FreshVersion, g)
  <2> HIDE DEF g
  <2>1. boards' = [boards EXCEPT ![Index(active)] =
                     [@ EXCEPT !.game = g, !.version = FreshVersion, !.figures = NoFigures]]
    BY <1>1 DEF g
  <2> QED BY <1>2, <1>3, <1>4, <2>1, ChangedStep
<1>6. EpochsMove
  BY <1>4 DEF EpochsMove
<1> HIDE DEF g
<1> QED BY <1>2, <1>4, <1>5, <1>6, NewNames, MessageKeeps DEF FlagsInv

\* A board gets other figures.
LEMMA FiguresStep ==
  ASSUME BoardsInv, scenario' = scenario, active' = active, NEW i \in DOMAIN boards,
         NEW f \in FiguresType, f = NoFigures \/ <<f.version, f.line>> \in Claims,
         boards' = [boards EXCEPT ![i].figures = f]
  PROVE  /\ BoardsInv' /\ DOMAIN boards' = DOMAIN boards /\ \A n, v, g : BoardStep(n, v, g)
         /\ \A j \in DOMAIN boards : boards'[j].game = boards[j].game
<1> DEFINE b == [boards[i] EXCEPT !.figures = f]
<1>1. boards[i] \in BoardType /\ Game(boards[i].game)
  BY BoardAt
<1>2. /\ b \in BoardType /\ b.id = boards[i].id /\ b.game = boards[i].game
      /\ b.version = boards[i].version /\ b.figures = f
  BY <1>1 DEF BoardType
<1>3. boards' = [boards EXCEPT ![i] = b]
  OBVIOUS
<1> HIDE DEF b
<1>4. /\ BoardsInv' /\ DOMAIN boards' = DOMAIN boards
      /\ boards'[i] = b /\ \A j \in DOMAIN boards : j # i => boards'[j] = boards[j]
  BY <1>1, <1>2, <1>3, ReplaceStep
<1>5. ASSUME NEW n, NEW v, NEW g PROVE BoardStep(n, v, g)
  BY <1>2, <1>4, ClaimsAre DEF BoardStep
<1> QED BY <1>2, <1>4, <1>5

LEMMA SettingsKeep ==
  ASSUME PlayInv, MsgAnalysis \/ MsgPlayers \/ MsgParams
  PROVE  Kept
<1>1. BoardsInv /\ FlagsInv /\ scenario \in Scenarios /\ Exists(active)
  BY ThePlay
<1>2. CASE MsgAnalysis
  <2>1. /\ active' = active /\ scenario' = scenario
        /\ UNCHANGED <<players, settings, engine, thinking, epoch, playersEpoch, arg, lock, work,
                       search, failed, crashed, closed>>
        /\ analysisOn' \in BOOLEAN /\ Refresh(task)
        /\ boards' = IF analysisOn THEN [boards EXCEPT ![Index(active)].figures = NoFigures] ELSE boards
    BY <1>1, <1>2 DEF MsgAnalysis, epochs, rest, FlagsInv
  <2>2. EpochsMove
    BY <2>1 DEF EpochsMove
  <2>3. CASE boards' = boards
    BY <1>1, <2>1, <2>2, <2>3, SettingKeeps DEF FlagsInv
  <2>4. CASE boards' = [boards EXCEPT ![Index(active)].figures = NoFigures]
    <3>1. Index(active) \in DOMAIN boards /\ NoFigures \in FiguresType
      BY <1>1, ActiveIs, NothingShown
    <3>2. BoardsInv' /\ BoardStep(FreshId, FreshVersion, NewGame)
      BY <1>1, <2>1, <2>4, <3>1, FiguresStep
    <3> QED BY <1>1, <2>1, <2>2, <3>2, NewNames, MessageKeeps DEF FlagsInv
  <2> QED BY <2>1, <2>3, <2>4
<1>3. CASE MsgPlayers
  <2>1. PICK p \in SUBSET Sides : ChangePlayers(p)
    BY <1>3 DEF MsgPlayers
  <2>2. /\ active' = active /\ scenario' = scenario /\ Rearm(task)
        /\ UNCHANGED <<boards, analysisOn, settings, engine, thinking, epoch, lock,
                       search, failed, crashed, closed>>
    BY <1>3 DEF MsgPlayers, rest
  <2>3. players' \subseteq Colours
    BY <2>1, SidesAssumption DEF ChangePlayers, Colours
  <2>4. EpochsMove
    BY <2>1, <2>2 DEF ChangePlayers, EpochsMove
  <2> QED BY <1>1, <2>2, <2>3, <2>4, SettingKeeps DEF FlagsInv
<1>4. CASE MsgParams
  <2>1. /\ active' = active /\ scenario' = scenario /\ Refresh(task) /\ settings' \in BOOLEAN
        /\ UNCHANGED <<boards, players, analysisOn, engine, thinking, epoch, playersEpoch, lock,
                       work, search, failed, crashed, closed>>
    BY <1>4, <1>1 DEF MsgParams, rest, epochs, FlagsInv
  <2>2. EpochsMove
    BY <2>1 DEF EpochsMove
  <2> QED BY <1>1, <2>1, <2>2, SettingKeeps DEF FlagsInv
<1> QED BY <1>2, <1>3, <1>4

LEMMA DemandsKeep ==
  ASSUME PlayInv, MsgGenmove \/ MsgRaw \/ MsgFinalScore
  PROVE  Kept
<1>1. PICK t \in OnDemand : \E a : Demand(t, a)
  BY DEF MsgGenmove, MsgRaw, MsgFinalScore, OnDemand
<1>2. BoardsInv /\ FlagsInv /\ TasksInv /\ Exists(active) /\ t \in Task
  BY ThePlay DEF Task
<1>3. /\ UNCHANGED <<boards, active, players, analysisOn, settings, engine, thinking, epoch, playersEpoch,
                     halted, wanted, lock, work, search, failed, crashed, closed, scenario>>
      /\ task[t] = "idle" /\ task' = [task EXCEPT ![t] = "spawned"]
  BY <1>1 DEF Demand, content, epochs, rest
<1>4. Spawns(task)
  BY <1>2, <1>3 DEF TasksInv, Spawns, States
<1>5. EpochsMove
  BY <1>3 DEF EpochsMove
<1> QED BY <1>2, <1>3, <1>4, <1>5, SettingKeeps DEF FlagsInv

-----------------------------------------------------------------------------
(* The messages that make, copy, leave and delete boards.                  *)

\* The list of boards is rearranged, one board may be new, and no id is twice in it.
LEMMA RearrangedStep ==
  ASSUME BoardsInv, scenario' = scenario, NEW b \in BoardType, Game(b.game),
         boards' \in Seq(BoardType), Len(boards') \in 1 .. MAX_BOARDS,
         \A j \in 1 .. Len(boards') : boards'[j] = b \/ \E i \in 1 .. Len(boards) : boards'[j] = boards[i],
         \A j, k \in 1 .. Len(boards') : boards'[j].id = boards'[k].id => j = k,
         \E j \in 1 .. Len(boards') : boards'[j].id = active'
  PROVE  BoardsInv'
<1>1. DOMAIN boards' = 1 .. Len(boards') /\ DOMAIN boards = 1 .. Len(boards)
  BY DEF BoardsInv
<1>2. \A j \in DOMAIN boards' : boards'[j].game.cursor <= Len(boards'[j].game.moves)
  BY <1>1 DEF BoardsInv, Game
<1> QED BY <1>1, <1>2, SameTypes DEF BoardsInv, Exists

\* What the messages about boards share.
LEMMA BoardsKeep ==
  ASSUME PlayInv, Boards, EpochsMove, BoardsInv', NEW g, BoardStep(FreshId, FreshVersion, g),
         Rearm(task) \/ UNCHANGED <<halted, wanted, task>>
  PROVE  Kept
<1>1. BoardsInv /\ FlagsInv /\ TasksInv
  BY ThePlay
<1>2. UNCHANGED <<players, analysisOn, settings, engine, thinking, playersEpoch, arg, lock, search,
                  failed, crashed, closed, scenario>>
  BY DEF Boards, rest
<1>3. UNCHANGED <<halted, wanted, task>> => wanted' = wanted /\ halted' = halted /\ Spawns(task)
  BY <1>1, SameTasks
<1> QED BY <1>1, <1>2, <1>3, NewNames, MessageKeeps DEF FlagsInv

LEMMA SelectKeeps ==
  ASSUME PlayInv, MsgSelect
  PROVE  Kept
<1>1. PICK i \in DOMAIN boards : SwitchTo(boards[i].id)
  BY DEF MsgSelect
<1>2. Boards /\ boards' = boards /\ Rearm(task) /\ scenario' = scenario /\ playersEpoch' = playersEpoch
  BY DEF MsgSelect, Boards, rest
<1>3. BoardsInv /\ active' = boards[i].id
  BY <1>1, ThePlay DEF SwitchTo
<1>4. BoardsInv'
  <2>1. Exists(active)'
    BY <1>2, <1>3 DEF Exists
  <2> QED BY <1>2, <1>3, <2>1, SameTypes DEF BoardsInv
<1>5. EpochsMove
  BY <1>1, <1>2 DEF SwitchTo, EpochsMove
<1>6. BoardStep(FreshId, FreshVersion, NewGame)
  BY <1>2, StayStep
<1> QED BY <1>2, <1>4, <1>5, <1>6, BoardsKeep

LEMMA InsertIs ==
  ASSUME BoardsInv, NEW i \in DOMAIN boards, NEW b \in BoardType
  PROVE  /\ InsertAfter(i, b) \in Seq(BoardType) /\ Len(InsertAfter(i, b)) = Len(boards) + 1
         /\ \A j \in 1 .. Len(boards) + 1 :
              InsertAfter(i, b)[j] = IF j <= i THEN boards[j] ELSE IF j = i + 1 THEN b ELSE boards[j - 1]
<1> DEFINE n == Len(boards)
           l == SubSeq(boards, 1, i)
           r == SubSeq(boards, i + 1, n)
<1>1. boards \in Seq(BoardType) /\ n \in Nat /\ i \in 1 .. n /\ i \in Nat
  BY DEF BoardsInv
<1>2. l \in Seq(BoardType) /\ Len(l) = i /\ \A j \in 1 .. i : l[j] = boards[j]
  BY <1>1
<1>3. r \in Seq(BoardType) /\ Len(r) = n - i /\ \A j \in 1 .. n - i : r[j] = boards[i + j]
  <2>1. /\ r \in Seq(BoardType) /\ Len(r) = IF i + 1 <= n THEN n - (i + 1) + 1 ELSE 0
        /\ \A j \in 1 .. n - (i + 1) + 1 : r[j] = boards[(i + 1) + j - 1]
    BY <1>1, SubSeqProperties
  <2> HIDE DEF n, r
  <2>2. /\ n - (i + 1) + 1 = n - i /\ (i + 1 <= n \/ n - i = 0)
        /\ \A j \in 1 .. n - i : (i + 1) + j - 1 = i + j
    BY <1>1
  <2>3. Len(r) = n - i
    BY <2>1, <2>2
  <2> QED BY <2>1, <2>2, <2>3
<1>4. <<b>> \in Seq(BoardType) /\ Len(<<b>>) = 1 /\ <<b>>[1] = b
  OBVIOUS
<1> HIDE DEF n, l, r
<1>5. /\ l \o <<b>> \in Seq(BoardType) /\ Len(l \o <<b>>) = i + 1
      /\ \A j \in 1 .. i + 1 : (l \o <<b>>)[j] = IF j <= i THEN boards[j] ELSE b
  BY <1>1, <1>2, <1>4
<1>6. /\ (l \o <<b>>) \o r \in Seq(BoardType) /\ Len((l \o <<b>>) \o r) = n + 1
      /\ \A j \in 1 .. n + 1 :
           ((l \o <<b>>) \o r)[j] = IF j <= i + 1 THEN (l \o <<b>>)[j] ELSE r[j - (i + 1)]
  <2> DEFINE s == l \o <<b>>
  <2>1. s \in Seq(BoardType) /\ Len(s) = i + 1
    BY <1>5
  <2> HIDE DEF s
  <2>2. /\ s \o r \in Seq(BoardType) /\ Len(s \o r) = (i + 1) + (n - i)
        /\ \A j \in 1 .. (i + 1) + (n - i) : (s \o r)[j] = IF j <= i + 1 THEN s[j] ELSE r[j - (i + 1)]
    <3>1. /\ s \o r \in Seq(BoardType) /\ Len(s \o r) = Len(s) + Len(r)
          /\ \A j \in 1 .. Len(s) + Len(r) : (s \o r)[j] = IF j <= Len(s) THEN s[j] ELSE r[j - Len(s)]
      BY <1>3, <2>1, ConcatProperties
    <3> QED BY <1>3, <2>1, <3>1
  <2>3. (i + 1) + (n - i) = n + 1
    BY <1>1
  <2>4. /\ s \o r \in Seq(BoardType) /\ Len(s \o r) = n + 1
        /\ \A j \in 1 .. n + 1 : (s \o r)[j] = IF j <= i + 1 THEN s[j] ELSE r[j - (i + 1)]
    BY <2>2, <2>3
  <2> QED BY <2>4 DEF s
<1>7. \A j \in 1 .. n + 1 : j > i + 1 => j - (i + 1) \in 1 .. n - i /\ i + (j - (i + 1)) = j - 1
  BY <1>1
<1>8. \A j \in 1 .. n + 1 : (j <= i => j <= i + 1 /\ j \in 1 .. i + 1) /\ (j = i + 1 => j <= i + 1 /\ j \in 1 .. i + 1)
                            /\ (j > i + 1 \/ j <= i \/ j = i + 1)
  BY <1>1
<1>9. ASSUME NEW j \in 1 .. n + 1
      PROVE  ((l \o <<b>>) \o r)[j] = IF j <= i THEN boards[j] ELSE IF j = i + 1 THEN b ELSE boards[j - 1]
  <2>1. CASE j > i + 1
    <3>1. ((l \o <<b>>) \o r)[j] = r[j - (i + 1)]
      <4>1. ~(j <= i + 1)
        BY <1>1, <2>1
      <4> QED BY <1>6, <4>1
    <3>2. r[j - (i + 1)] = boards[j - 1]
      BY <1>3, <1>7, <2>1
    <3>3. ~(j <= i) /\ j # i + 1
      BY <1>1, <2>1
    <3> QED BY <3>1, <3>2, <3>3
  <2>2. CASE j <= i
    BY <1>1, <1>5, <1>6, <1>8, <2>2
  <2>3. CASE j = i + 1
    BY <1>1, <1>5, <1>6, <1>8, <2>3
  <2> QED BY <1>8, <2>1, <2>2, <2>3
<1> QED BY <1>6, <1>9 DEF InsertAfter, n, l, r

LEMMA NewBoardIs ==
  ASSUME BoardsInv, scenario \in Scenarios, NEW id \in Nat
  PROVE  /\ NewBoard(id) \in BoardType /\ NewBoard(id).id = id /\ NewBoard(id).game = NewGame
         /\ NewBoard(id).version = FreshVersion /\ NewBoard(id).figures = NoFigures /\ Game(NewGame)
<1>1. Game(NewGame)
  BY ActiveIs, GamesKept
<1>2. NewGame \in GameType /\ FreshVersion \in Nat /\ NoFigures \in FiguresType
  BY <1>1, NewNames, NothingShown DEF Game
<1> QED BY <1>1, <1>2 DEF NewBoard, BoardType

LEMMA DuplicateKeeps ==
  ASSUME PlayInv, MsgDuplicate
  PROVE  Kept
<1>1. PICK i \in DOMAIN boards : boards' = InsertAfter(i, [boards[i] EXCEPT !.id = FreshId])
  BY DEF MsgDuplicate
<1> DEFINE b == [boards[i] EXCEPT !.id = FreshId]
           n == Len(boards)
<1>2. /\ Boards /\ Rearm(task) /\ scenario' = scenario /\ playersEpoch' = playersEpoch
      /\ n < MAX_BOARDS /\ SwitchTo(FreshId)
  BY DEF MsgDuplicate, Boards, rest
<1>3. /\ BoardsInv /\ FreshId \in Nat /\ FreshId \notin HeldIds /\ n \in Nat /\ i \in 1 .. n
      /\ MAX_BOARDS \in Nat
  BY ThePlay, NewNames, BoardLimitAssumption DEF BoardsInv
<1>4. /\ b \in BoardType /\ b.id = FreshId /\ b.game = boards[i].game /\ Game(b.game)
      /\ b.version = boards[i].version /\ b.figures = boards[i].figures
  <2>1. boards[i] \in BoardType /\ Game(boards[i].game)
    BY <1>3, BoardAt
  <2> QED BY <1>3, <2>1 DEF BoardType
<1>5. boards' = InsertAfter(i, b)
  BY <1>1
<1> HIDE DEF b
<1>6. /\ boards' \in Seq(BoardType) /\ Len(boards') = n + 1 /\ DOMAIN boards' = 1 .. n + 1
      /\ \A j \in 1 .. n + 1 :
           boards'[j] = IF j <= i THEN boards[j] ELSE IF j = i + 1 THEN b ELSE boards[j - 1]
  <2>1. i \in DOMAIN boards
    BY <1>3
  <2> DEFINE s == InsertAfter(i, b)
  <2>2. /\ s \in Seq(BoardType) /\ Len(s) = n + 1
        /\ \A j \in 1 .. n + 1 :
             s[j] = IF j <= i THEN boards[j] ELSE IF j = i + 1 THEN b ELSE boards[j - 1]
    BY <1>3, <1>4, <2>1, InsertIs
  <2> HIDE DEF s
  <2>3. DOMAIN s = 1 .. n + 1
    BY <2>2
  <2>4. boards' = s
    BY <1>5 DEF s
  <2> QED BY <2>2, <2>3, <2>4
<1>7. \A j \in 1 .. n : boards[j].id # FreshId
  BY <1>3 DEF BoardsInv, HeldIds
<1>8. \A j, k \in 1 .. n : boards[j].id = boards[k].id => j = k
  BY <1>3 DEF BoardsInv
<1>9. \A j \in 1 .. n + 1 : \/ j = i + 1 /\ boards'[j] = b
                            \/ j <= i /\ j \in 1 .. n /\ boards'[j] = boards[j]
                            \/ j > i + 1 /\ j - 1 \in 1 .. n /\ boards'[j] = boards[j - 1]
  <2> HIDE DEF n
  <2> QED BY <1>3, <1>6
<1>10. ASSUME NEW j \in 1 .. n + 1, NEW k \in 1 .. n + 1, boards'[j].id = boards'[k].id PROVE j = k
  <2> HIDE DEF n
  <2>1. CASE j = i + 1 \/ k = i + 1
    BY <1>3, <1>4, <1>7, <1>9, <1>10, <2>1
  <2>2. CASE j # i + 1 /\ k # i + 1
    <3>1. PICK p \in 1 .. n : boards'[j] = boards[p] /\ p = IF j <= i THEN j ELSE j - 1
      BY <1>3, <1>9, <2>2
    <3>2. PICK q \in 1 .. n : boards'[k] = boards[q] /\ q = IF k <= i THEN k ELSE k - 1
      BY <1>3, <1>9, <2>2
    <3>3. p = q
      BY <1>8, <1>10, <3>1, <3>2
    <3> QED BY <1>3, <2>2, <3>1, <3>2, <3>3
  <2> QED BY <2>1, <2>2
<1>11. i + 1 \in 1 .. n + 1 /\ boards'[i + 1].id = active' /\ n + 1 \in 1 .. MAX_BOARDS
  <2>1. i + 1 \in 1 .. n + 1 /\ n + 1 \in 1 .. MAX_BOARDS /\ ~(i + 1 <= i)
    BY <1>2, <1>3
  <2> QED BY <1>2, <1>4, <1>6, <2>1 DEF SwitchTo
<1>12. \A j \in 1 .. n + 1 : boards'[j] = b \/ \E k \in 1 .. n : boards'[j] = boards[k]
  BY <1>9
<1>13. BoardsInv'
  BY <1>2, <1>3, <1>4, <1>6, <1>10, <1>11, <1>12, RearrangedStep
<1>14. EpochsMove
  BY <1>2 DEF SwitchTo, EpochsMove
<1>15. BoardStep(FreshId, FreshVersion, NewGame)
  <2>1. DOMAIN boards = 1 .. n
    BY <1>3 DEF BoardsInv
  <2> SUFFICES ASSUME NEW j \in 1 .. n + 1
               PROVE  /\ \E k \in 1 .. n : /\ boards'[j].version = boards[k].version
                                          /\ boards'[j].game = boards[k].game
                                          /\ boards'[j].id \in {boards[k].id, FreshId}
                      /\ \/ boards'[j].figures = NoFigures
                         \/ <<boards'[j].figures.version, boards'[j].figures.line>> \in Claims
    BY <1>6, <2>1 DEF BoardStep
  <2>2. CASE boards'[j] = b
    BY <1>3, <1>4, <2>1, <2>2, ClaimsAre
  <2>3. CASE \E k \in 1 .. n : boards'[j] = boards[k]
    BY <2>1, <2>3, ClaimsAre
  <2> QED BY <1>12, <2>2, <2>3
<1> QED BY <1>2, <1>13, <1>14, <1>15, BoardsKeep

LEMMA NewKeeps ==
  ASSUME PlayInv, MsgNew
  PROVE  Kept
<1> DEFINE b == NewBoard(FreshId)
           n == Len(boards)
<1>1. /\ Boards /\ Rearm(task) /\ scenario' = scenario /\ playersEpoch' = playersEpoch
      /\ n < MAX_BOARDS /\ SwitchTo(FreshId) /\ boards' = Append(boards, b)
  BY DEF MsgNew, Boards, rest
<1>2. /\ BoardsInv /\ FreshId \in Nat /\ FreshId \notin HeldIds /\ n \in Nat /\ boards \in Seq(BoardType)
      /\ MAX_BOARDS \in Nat /\ scenario \in Scenarios
  BY ThePlay, NewNames, BoardLimitAssumption DEF BoardsInv
<1>3. /\ b \in BoardType /\ b.id = FreshId /\ b.game = NewGame /\ Game(b.game)
      /\ b.version = FreshVersion /\ b.figures = NoFigures
  BY <1>2, NewBoardIs
<1> HIDE DEF b
<1>4. /\ boards' \in Seq(BoardType) /\ Len(boards') = n + 1 /\ DOMAIN boards' = 1 .. n + 1
      /\ boards'[n + 1] = b /\ \A j \in 1 .. n : boards'[j] = boards[j]
  BY <1>1, <1>2, <1>3
<1>5. \A j \in 1 .. n : boards[j].id # FreshId
  BY <1>2 DEF BoardsInv, HeldIds
<1>6. \A j, k \in 1 .. n : boards[j].id = boards[k].id => j = k
  BY <1>2 DEF BoardsInv
<1>7. /\ \A j \in 1 .. n + 1 : j = n + 1 \/ j \in 1 .. n
      /\ n + 1 \in 1 .. n + 1 /\ n + 1 \in 1 .. MAX_BOARDS
  <2> HIDE DEF n
  <2> QED BY <1>1, <1>2
<1>8. \A j \in 1 .. n + 1 : boards'[j] = b \/ \E k \in 1 .. n : boards'[j] = boards[k]
  BY <1>4, <1>7
<1>9. \A j, k \in 1 .. n + 1 : boards'[j].id = boards'[k].id => j = k
  BY <1>3, <1>4, <1>5, <1>6, <1>7
<1>10. BoardsInv'
  BY <1>1, <1>2, <1>3, <1>4, <1>7, <1>8, <1>9, RearrangedStep DEF SwitchTo
<1>11. EpochsMove
  BY <1>1 DEF SwitchTo, EpochsMove
<1>12. BoardStep(FreshId, FreshVersion, NewGame)
  <2>1. DOMAIN boards = 1 .. n
    BY <1>2 DEF BoardsInv
  <2> SUFFICES ASSUME NEW j \in 1 .. n + 1
               PROVE  /\ \/ boards'[j].version = FreshVersion /\ boards'[j].game = NewGame
                         \/ \E k \in 1 .. n : /\ boards'[j].version = boards[k].version
                                             /\ boards'[j].game = boards[k].game
                                             /\ boards'[j].id \in {boards[k].id, FreshId}
                      /\ \/ boards'[j].figures = NoFigures
                         \/ <<boards'[j].figures.version, boards'[j].figures.line>> \in Claims
    BY <1>4, <2>1 DEF BoardStep
  <2>2. CASE boards'[j] = b
    BY <1>3, <2>2
  <2>3. CASE \E k \in 1 .. n : boards'[j] = boards[k]
    BY <2>1, <2>3, ClaimsAre
  <2> QED BY <1>8, <2>2, <2>3
<1> QED BY <1>1, <1>10, <1>11, <1>12, BoardsKeep

LEMMA WithoutIs ==
  ASSUME BoardsInv, NEW i \in DOMAIN boards
  PROVE  /\ Without(i) \in Seq(BoardType) /\ Len(Without(i)) = Len(boards) - 1
         /\ \A j \in 1 .. Len(boards) - 1 : Without(i)[j] = IF j < i THEN boards[j] ELSE boards[j + 1]
<1> DEFINE n == Len(boards)
           l == SubSeq(boards, 1, i - 1)
           r == SubSeq(boards, i + 1, n)
<1>1. boards \in Seq(BoardType) /\ n \in Nat /\ i \in 1 .. n /\ i \in Nat
  BY DEF BoardsInv
<1>2. l \in Seq(BoardType) /\ Len(l) = i - 1 /\ \A j \in 1 .. i - 1 : l[j] = boards[j]
  BY <1>1
<1>3. r \in Seq(BoardType) /\ Len(r) = n - i /\ \A j \in 1 .. n - i : r[j] = boards[i + j]
  <2>1. /\ r \in Seq(BoardType) /\ Len(r) = IF i + 1 <= n THEN n - (i + 1) + 1 ELSE 0
        /\ \A j \in 1 .. n - (i + 1) + 1 : r[j] = boards[(i + 1) + j - 1]
    BY <1>1, SubSeqProperties
  <2> HIDE DEF n, r
  <2>2. /\ n - (i + 1) + 1 = n - i /\ (i + 1 <= n \/ n - i = 0)
        /\ \A j \in 1 .. n - i : (i + 1) + j - 1 = i + j
    BY <1>1
  <2>3. Len(r) = n - i
    BY <2>1, <2>2
  <2> QED BY <2>1, <2>2, <2>3
<1> HIDE DEF n, l, r
<1>4. /\ l \o r \in Seq(BoardType) /\ Len(l \o r) = n - 1
      /\ \A j \in 1 .. n - 1 : (l \o r)[j] = IF j <= i - 1 THEN l[j] ELSE r[j - (i - 1)]
  <2>1. /\ l \o r \in Seq(BoardType) /\ Len(l \o r) = Len(l) + Len(r)
        /\ \A j \in 1 .. Len(l) + Len(r) : (l \o r)[j] = IF j <= Len(l) THEN l[j] ELSE r[j - Len(l)]
    BY <1>2, <1>3, ConcatProperties
  <2>2. Len(l) + Len(r) = n - 1
    BY <1>1, <1>2, <1>3
  <2> QED BY <1>2, <2>1, <2>2
<1>5. ASSUME NEW j \in 1 .. n - 1
      PROVE  (l \o r)[j] = IF j < i THEN boards[j] ELSE boards[j + 1]
  <2>1. CASE j < i
    <3>1. j <= i - 1 /\ j \in 1 .. i - 1
      BY <1>1, <2>1
    <3> QED BY <1>2, <1>4, <2>1, <3>1
  <2>2. CASE ~(j < i)
    <3>1. ~(j <= i - 1) /\ j - (i - 1) \in 1 .. n - i /\ i + (j - (i - 1)) = j + 1
      BY <1>1, <2>2
    <3> QED BY <1>3, <1>4, <2>2, <3>1
  <2> QED BY <2>1, <2>2
<1> QED BY <1>4, <1>5 DEF Without, n, l, r

LEMMA ResetKeeps ==
  ASSUME PlayInv, Boards, Len(boards) = 1, ResetLast, SwitchTo(active), Rearm(task)
  PROVE  Kept
<1> DEFINE b == NewBoard(boards[1].id)
<1>1. scenario' = scenario /\ playersEpoch' = playersEpoch /\ boards' = <<b>>
  BY DEF Boards, rest, ResetLast
<1>2. /\ BoardsInv /\ scenario \in Scenarios /\ boards[1].id \in Nat /\ 1 \in 1 .. MAX_BOARDS
      /\ DOMAIN boards = {1}
  <2>1. BoardsInv /\ DOMAIN boards = {1}
    BY ThePlay DEF BoardsInv
  <2> QED BY <2>1, ThePlay, BoardAt, BoardLimitAssumption
<1>3. /\ b \in BoardType /\ b.id = boards[1].id /\ b.game = NewGame /\ Game(b.game)
      /\ b.version = FreshVersion /\ b.figures = NoFigures
  BY <1>2, NewBoardIs
<1>4. active' = boards[1].id
  BY <1>2 DEF BoardsInv, Exists, SwitchTo
<1> HIDE DEF b
<1>5. /\ boards' \in Seq(BoardType) /\ Len(boards') = 1 /\ boards'[1] = b /\ DOMAIN boards' = 1 .. 1
  BY <1>1, <1>3
<1>6. \A j \in 1 .. 1 : j = 1
  OBVIOUS
<1>7. /\ \A j \in 1 .. Len(boards') : boards'[j] = b
      /\ \A j, k \in 1 .. Len(boards') : boards'[j].id = boards'[k].id => j = k
      /\ \E j \in 1 .. Len(boards') : boards'[j].id = active'
  BY <1>3, <1>4, <1>5, <1>6
<1>8. BoardsInv'
  BY <1>1, <1>2, <1>3, <1>5, <1>7, RearrangedStep
<1>9. EpochsMove
  BY <1>1 DEF SwitchTo, EpochsMove
<1>10. BoardStep(FreshId, FreshVersion, NewGame)
  BY <1>3, <1>5, <1>7 DEF BoardStep
<1> QED BY <1>8, <1>9, <1>10, BoardsKeep

LEMMA RemovalStep ==
  ASSUME PlayInv, scenario' = scenario, NEW i \in DOMAIN boards, Len(boards) > 1, boards' = Without(i),
         \E j \in 1 .. Len(boards') : boards'[j].id = active'
  PROVE  BoardsInv' /\ BoardStep(FreshId, FreshVersion, NewGame)
<1> DEFINE n == Len(boards)
<1>1. /\ BoardsInv /\ n \in 2 .. MAX_BOARDS /\ n \in Nat /\ i \in 1 .. n /\ DOMAIN boards = 1 .. n
      /\ MAX_BOARDS \in Nat
  BY ThePlay, BoardLimitAssumption DEF BoardsInv
<1>2. /\ boards' \in Seq(BoardType) /\ Len(boards') = n - 1
      /\ \A j \in 1 .. n - 1 : boards'[j] = IF j < i THEN boards[j] ELSE boards[j + 1]
  <2> DEFINE s == Without(i)
  <2>1. /\ s \in Seq(BoardType) /\ Len(s) = n - 1
        /\ \A j \in 1 .. n - 1 : s[j] = IF j < i THEN boards[j] ELSE boards[j + 1]
    BY <1>1, WithoutIs
  <2> HIDE DEF s
  <2>2. boards' = s
    BY DEF s
  <2> QED BY <2>1, <2>2
<1>3. \A j, k \in 1 .. n : boards[j].id = boards[k].id => j = k
  BY <1>1 DEF BoardsInv
<1> HIDE DEF n
<1>4. \A j \in 1 .. n - 1 : \E p \in 1 .. n :
        p = (IF j < i THEN j ELSE j + 1) /\ boards'[j] = boards[p]
  <2> SUFFICES ASSUME NEW j \in 1 .. n - 1
               PROVE  \E p \in 1 .. n : p = (IF j < i THEN j ELSE j + 1) /\ boards'[j] = boards[p]
    OBVIOUS
  <2>1. j \in 1 .. n /\ j + 1 \in 1 .. n
    BY <1>1
  <2> QED BY <1>2, <2>1
<1>5. ASSUME NEW j \in 1 .. n - 1, NEW k \in 1 .. n - 1, boards'[j].id = boards'[k].id PROVE j = k
  <2>1. PICK p \in 1 .. n : p = (IF j < i THEN j ELSE j + 1) /\ boards'[j] = boards[p]
    BY <1>4
  <2>2. PICK q \in 1 .. n : q = (IF k < i THEN k ELSE k + 1) /\ boards'[k] = boards[q]
    BY <1>4
  <2>3. p = q
    BY <1>3, <1>5, <2>1, <2>2
  <2> QED BY <1>1, <2>1, <2>2, <2>3
<1>6. n - 1 \in 1 .. MAX_BOARDS /\ 1 \in 1 .. n
  BY <1>1
<1>7. boards[1] \in BoardType /\ Game(boards[1].game)
  BY <1>1, <1>6, BoardAt
<1>8. \A j \in 1 .. n - 1 : \E k \in 1 .. n : boards'[j] = boards[k]
  BY <1>4
<1>9. BoardsInv'
  BY SMTT(30), <1>1, <1>2, <1>5, <1>6, <1>7, <1>8, RearrangedStep DEF n
<1>10. DOMAIN boards' = 1 .. n - 1
  BY <1>2
<1>11. BoardStep(FreshId, FreshVersion, NewGame)
  <2> SUFFICES ASSUME NEW j \in 1 .. n - 1
               PROVE  /\ \E k \in 1 .. n : /\ boards'[j].version = boards[k].version
                                          /\ boards'[j].game = boards[k].game
                                          /\ boards'[j].id \in {boards[k].id, FreshId}
                      /\ \/ boards'[j].figures = NoFigures
                         \/ <<boards'[j].figures.version, boards'[j].figures.line>> \in Claims
    BY <1>1, <1>10 DEF BoardStep
  <2>1. PICK k \in 1 .. n : boards'[j] = boards[k]
    BY <1>8
  <2> QED BY <1>1, <2>1, ClaimsAre
<1> QED BY <1>9, <1>11

LEMMA DeleteKeeps ==
  ASSUME PlayInv, MsgDelete
  PROVE  Kept
<1>1. Boards /\ scenario' = scenario /\ playersEpoch' = playersEpoch
  BY DEF MsgDelete, Boards, rest
<1>2. BoardsInv /\ Exists(active)
  BY ThePlay
<1>3. PICK i \in DOMAIN boards :
        \/ Len(boards) = 1 /\ ResetLast /\ SwitchTo(active) /\ Rearm(task)
        \/ /\ Len(boards) > 1 /\ boards[i].id = active /\ boards' = Without(i)
           /\ SwitchTo(boards'[IF i > Len(boards') THEN Len(boards') ELSE i].id)
           /\ Rearm(task)
        \/ /\ Len(boards) > 1 /\ boards[i].id # active /\ boards' = Without(i)
           /\ epoch' = NextEpoch /\ Since("boards") /\ UNCHANGED <<active, halted, wanted, task>>
  BY Zenon DEF MsgDelete
<1> DEFINE n == Len(boards)
<1>4. n \in Nat /\ i \in 1 .. n /\ DOMAIN boards = 1 .. n
  BY <1>2 DEF BoardsInv
<1>5. CASE Len(boards) = 1 /\ ResetLast /\ SwitchTo(active) /\ Rearm(task)
  BY <1>1, <1>5, ResetKeeps
<1>6. CASE /\ Len(boards) > 1 /\ boards[i].id = active /\ boards' = Without(i)
           /\ SwitchTo(boards'[IF i > Len(boards') THEN Len(boards') ELSE i].id)
           /\ Rearm(task)
  <2>1. Len(boards') = n - 1
    <3>1. Len(Without(i)) = n - 1
      BY <1>2, WithoutIs
    <3> QED BY <1>6, <3>1
  <2> DEFINE k == IF i > Len(boards') THEN Len(boards') ELSE i
  <2>2. k \in 1 .. Len(boards')
    BY <1>4, <1>6, <2>1
  <2>3. SwitchTo(boards'[k].id)
    BY <1>6
  <2> HIDE DEF k
  <2>4. BoardsInv' /\ BoardStep(FreshId, FreshVersion, NewGame)
    <3>1. \E j \in 1 .. Len(boards') : boards'[j].id = active'
      BY <2>2, <2>3 DEF SwitchTo
    <3> QED BY <1>1, <1>6, <3>1, RemovalStep
  <2>5. EpochsMove
    BY <1>1, <2>3 DEF SwitchTo, EpochsMove
  <2> QED BY <1>1, <1>6, <2>4, <2>5, BoardsKeep
<1>7. CASE /\ Len(boards) > 1 /\ boards[i].id # active /\ boards' = Without(i)
           /\ epoch' = NextEpoch /\ Since("boards") /\ UNCHANGED <<active, halted, wanted, task>>
  <2>1. PICK p \in 1 .. n : boards[p].id = active
    BY <1>2, <1>4 DEF Exists
  <2>2. p # i
    BY <1>7, <2>1
  <2>3. /\ Len(Without(i)) = n - 1
        /\ \A j \in 1 .. n - 1 : Without(i)[j] = IF j < i THEN boards[j] ELSE boards[j + 1]
    BY <1>2, WithoutIs
  <2>4. \E j \in 1 .. n - 1 : Without(i)[j] = boards[p]
    <3>1. CASE p < i
      <4>1. p \in 1 .. n - 1
        BY <1>4, <3>1
      <4> QED BY <2>3, <3>1, <4>1
    <3>2. CASE ~(p < i)
      <4>1. p - 1 \in 1 .. n - 1 /\ ~(p - 1 < i) /\ (p - 1) + 1 = p
        BY <1>4, <2>2, <3>2
      <4> QED BY <2>3, <4>1
    <3> QED BY <3>1, <3>2
  <2>5. \E j \in 1 .. Len(boards') : boards'[j].id = active'
    BY <1>7, <2>1, <2>3, <2>4
  <2>6. BoardsInv' /\ BoardStep(FreshId, FreshVersion, NewGame)
    BY <1>1, <1>7, <2>5, RemovalStep
  <2>7. EpochsMove
    BY <1>1, <1>7 DEF EpochsMove
  <2> QED BY <1>1, <1>7, <2>6, <2>7, BoardsKeep
<1> QED BY <1>3, <1>5, <1>6, <1>7

-----------------------------------------------------------------------------
(* The engine comes and goes.                                              *)

LEMMA EngineKeeps ==
  ASSUME PlayInv, EngineUp \/ EngineReleased \/ EngineGone \/ Aclose
  PROVE  Kept
<1>1. BoardsInv /\ FlagsInv /\ TasksInv /\ scenario \in Scenarios /\ Exists(active)
  BY ThePlay
<1>2. None \in Nat
  BY DEF None
<1>3. CASE EngineUp
  <2>1. /\ UNCHANGED <<boards, active, players, analysisOn, settings, thinking, epoch, playersEpoch,
                       lock, work, search, failed, crashed, closed, scenario>>
        /\ engine' \in Nat /\ Rearm(task)
    BY <1>1, <1>3, NewNames DEF EngineUp, content, epochs, rest
  <2>2. EpochsMove
    BY <2>1 DEF EpochsMove
  <2> QED BY <1>1, <2>1, <2>2, SettingKeeps DEF FlagsInv
<1>4. CASE EngineReleased
  <2>1. /\ UNCHANGED <<boards, active, players, analysisOn, settings, epoch, playersEpoch, halted, wanted,
                       task, lock, work, search, failed, crashed, closed, scenario>>
        /\ engine' = None /\ thinking' = FALSE
    BY <1>4 DEF EngineReleased, Detach, content, epochs, tasks, rest
  <2>2. EpochsMove /\ Spawns(task)
    BY <1>1, <2>1, SameTasks DEF EpochsMove
  <2> QED BY <1>1, <1>2, <2>1, <2>2, SettingKeeps DEF FlagsInv
<1>5. CASE Aclose
  <2>1. /\ UNCHANGED <<boards, active, players, analysisOn, settings, thinking, epoch, playersEpoch, halted,
                       wanted, task, lock, work, search, failed, crashed, scenario>>
        /\ engine' = None /\ closed' = TRUE
    BY <1>5 DEF Aclose, Close, content, epochs, tasks
  <2>2. EpochsMove /\ Spawns(task)
    BY <1>1, <2>1, SameTasks DEF EpochsMove
  <2> QED BY <1>1, <1>2, <2>1, <2>2, SettingKeeps DEF FlagsInv
<1>6. CASE EngineGone
  <2>1. /\ UNCHANGED <<active, settings, epoch, halted, wanted, task, lock, search, failed, crashed, closed,
                       scenario>>
        /\ engine' = None /\ thinking' = FALSE /\ players' = {} /\ analysisOn' = FALSE
        /\ boards' = [i \in DOMAIN boards |-> [boards[i] EXCEPT !.figures = NoFigures]]
        /\ \/ playersEpoch' = playersEpoch /\ work' = work
           \/ playersEpoch' = NextPlayersEpoch /\ Since("players")
    BY <1>6 DEF EngineGone, Detach, rest
  <2>2. EpochsMove /\ Spawns(task)
    BY <1>1, <2>1, SameTasks DEF EpochsMove
  <2>3. /\ DOMAIN boards = 1 .. Len(boards) /\ Len(boards) \in Nat /\ Len(boards) \in 1 .. MAX_BOARDS
        /\ DOMAIN boards' = DOMAIN boards
    BY <1>1, <2>1 DEF BoardsInv
  <2>4. ASSUME NEW i \in DOMAIN boards
        PROVE  /\ boards'[i] \in BoardType /\ Game(boards'[i].game) /\ boards'[i].id = boards[i].id
               /\ boards'[i].game = boards[i].game /\ boards'[i].version = boards[i].version
               /\ boards'[i].figures = NoFigures
    <3>1. boards[i] \in BoardType /\ Game(boards[i].game) /\ NoFigures \in FiguresType
      BY <1>1, BoardAt, NothingShown
    <3>2. boards'[i] = [boards[i] EXCEPT !.figures = NoFigures]
      BY <2>1
    <3> QED BY <3>1, <3>2 DEF BoardType
  <2>5. boards' \in Seq(BoardType) /\ Len(boards') = Len(boards)
    <3>1. boards' \in [1 .. Len(boards) -> BoardType]
      BY <2>1, <2>3, <2>4
    <3> QED BY <2>3, <3>1, SeqDef, LenProperties
  <2>6. Exists(active)'
    BY <1>1, <2>1, <2>3, <2>4 DEF Exists
  <2>7. BoardsInv'
    <3>1. \A i, j \in DOMAIN boards' : boards'[i].id = boards'[j].id => i = j
      BY <1>1, <2>3, <2>4 DEF BoardsInv
    <3>2. \A i \in DOMAIN boards' : boards'[i].game.cursor <= Len(boards'[i].game.moves)
      BY <2>3, <2>4 DEF Game
    <3> QED BY <2>1, <2>3, <2>5, <2>6, <3>1, <3>2, SameTypes DEF BoardsInv
  <2>8. BoardStep(FreshId, FreshVersion, NewGame)
    BY <2>3, <2>4 DEF BoardStep
  <2>9. players' \subseteq Colours
    BY <2>1
  <2> QED BY <1>1, <1>2, <2>1, <2>2, <2>7, <2>8, <2>9, NewNames, MessageKeeps DEF FlagsInv
<1> QED BY <1>3, <1>4, <1>5, <1>6

-----------------------------------------------------------------------------
(* A task starts, gets the lock and asks the engine.                       *)

\* The part of a step that this property is about.
Discards ==
  /\ EngineMoved => /\ engine = work.engine
                    /\ active = work.id /\ Active.game = work.game
                    /\ "boards" \notin work.since
                    /\ work.task = "auto" => "players" \notin work.since
  /\ work.task = "final_score" /\ work'.task # "final_score" =>
       \A i \in DOMAIN boards :
         boards'[i].game.result # boards[i].game.result
           => boards[i].id = work.id /\ Line(boards[i].game) = Line(work.game)

LEMMA KeptDiscards ==
  ASSUME work'.task = work.task \/ boards' = boards
  PROVE  Discards
BY DEF Discards, EngineMoved

\* Steps that touch neither the boards nor what the epochs say.
LEMMA QuietBoards ==
  ASSUME BoardsInv, UNCHANGED <<boards, active, scenario>>
  PROVE  BoardsInv' /\ LineStep(<<FreshVersion, <<>>>>)
<1>1. Exists(active)'
  BY DEF BoardsInv, Exists
<1>2. LineStep(<<FreshVersion, <<>>>>)
  BY ClaimsAre DEF LineStep
<1> QED BY <1>1, <1>2, SameTypes DEF BoardsInv

LEMMA SameRequest ==
  ASSUME WorkInv, UNCHANGED <<boards, epoch, playersEpoch, work, search, scenario>>
  PROVE  WorkInv'
BY SameTypes DEF WorkInv

LEMMA StartKeeps ==
  ASSUME PlayInv, NEW t \in Task, TaskStart(t)
  PROVE  PlayInv' /\ Discards
<1>1. BoardsInv /\ FlagsInv /\ TasksInv /\ WorkInv /\ VersionsInv
  BY ThePlay
<1>2. UNCHANGED <<boards, active, players, analysisOn, settings, engine, thinking, epoch, playersEpoch,
                  halted, wanted, arg, work, search, failed, crashed, closed, scenario>>
  BY DEF TaskStart, content, epochs, rest
<1>3. BoardsInv' /\ LineStep(<<FreshVersion, <<>>>>)
  BY <1>1, <1>2, QuietBoards
<1>4. VersionsInv'
  BY <1>1, <1>2, <1>3, ClaimsAre, VersionsKept
<1>5. WorkInv'
  BY <1>1, <1>2, SameRequest
<1>6. TasksInv'
  <2>1. CASE task' = [task EXCEPT ![t] = "idle"] /\ lock' = lock
    <3>1. \A i \in 1 .. Len(lock) : lock[i] \in Task
      BY <1>1 DEF TasksInv
    <3>2. /\ task' \in [Task -> States] /\ task'[t] = "idle" /\ task[t] = "spawned"
          /\ \A u \in Task : u # t => task'[u] = task[u]
      BY <1>1, <2>1 DEF TaskStart, TasksInv, States
    <3>3. \A u \in Task : /\ task'[u] \in {"waiting", "asking"} <=> task[u] \in {"waiting", "asking"}
                          /\ task'[u] = "asking" <=> task[u] = "asking"
      BY <3>2
    <3> QED BY <1>1, <1>2, <2>1, <3>1, <3>2, <3>3 DEF TasksInv, States
  <2>2. CASE task' = [task EXCEPT ![t] = "waiting"] /\ lock' = Append(lock, t)
    BY <1>1, <1>2, <2>2, TasksQueue DEF TaskStart
  <2> QED BY <2>1, <2>2 DEF TaskStart
<1>7. FlagsInv'
  BY <1>1, <1>2 DEF FlagsInv
<1> QED BY <1>2, <1>3, <1>4, <1>5, <1>6, <1>7, KeptDiscards DEF PlayInv

LEMMA BeginKeeps ==
  ASSUME PlayInv, NEW t \in Task, Begin(t)
  PROVE  PlayInv' /\ Discards
<1>1. BoardsInv /\ FlagsInv /\ TasksInv /\ WorkInv /\ VersionsInv /\ scenario \in Scenarios
  BY ThePlay
<1>2. /\ UNCHANGED <<boards, active, players, analysisOn, settings, engine, epoch, playersEpoch,
                     halted, search, failed, crashed, closed, scenario>>
      /\ Holds(t) /\ task[t] = "waiting" /\ wanted' \in BOOLEAN
  BY <1>1 DEF Begin, content, epochs, rest, FlagsInv
<1>3. BoardsInv' /\ LineStep(<<FreshVersion, <<>>>>)
  BY <1>1, <1>2, QuietBoards
<1>4. Discards
  BY <1>2, KeptDiscards
<1>5. CASE Declines(t)
  <2>1. /\ task' = [task EXCEPT ![t] = "idle"] /\ lock' = Tail(lock)
        /\ work' = work /\ thinking' = thinking
    BY <1>5 DEF Begin
  <2>2. VersionsInv' /\ WorkInv' /\ FlagsInv'
    BY <1>1, <1>2, <1>3, <2>1, ClaimsAre, VersionsKept, SameRequest DEF FlagsInv
  <2>3. work'.task = "none"
    <3>1. \A u \in Task : task[u] # "asking"
      BY <1>1, <1>2, HeadAlone
    <3>2. work.task \in Task \cup {"none"}
      BY <1>1 DEF WorkInv, WorkType
    <3> QED BY <1>1, <2>1, <3>1, <3>2 DEF TasksInv
  <2>4. Spawns([task EXCEPT ![t] = "idle"])
    BY <1>1, <2>1 DEF Spawns, TasksInv, States
  <2>5. TasksInv'
    BY <1>1, <1>2, <2>1, <2>3, <2>4, TasksRelease DEF Holds
  <2> QED BY <1>3, <1>4, <2>2, <2>5 DEF PlayInv
<1>6. CASE ~Declines(t)
  <2>1. /\ task' = [task EXCEPT ![t] = "asking"] /\ lock' = lock
        /\ work' = [Asked(t) EXCEPT !.analyse = IF t = "refresh" THEN WantsAnalysis ELSE @]
        /\ thinking' = (thinking \/ t \in Moving)
    BY <1>6 DEF Begin
  <2>2. FlagsInv'
    BY <1>1, <1>2, <2>1 DEF FlagsInv
  <2>3. /\ Index(active) \in DOMAIN boards /\ Active = boards[Index(active)]
        /\ Active.id = active /\ Game(Active.game) /\ Active.version \in Nat /\ active \in Nat
    BY <1>1, ActiveIs, BoardAt
  <2>4. ToPlay(Active.game) \in Colours
    BY DEF ToPlay, Other, Colours
  <2>5. WantsAnalysis \in BOOLEAN
    BY DEF WantsAnalysis
  <2>6. /\ Asked(t) \in WorkType /\ Asked(t).task = t /\ Asked(t).since = {} /\ Asked(t).id = active
        /\ Asked(t).version = Active.version /\ Asked(t).game = Active.game
        /\ Asked(t).mover = ToPlay(Active.game)
    BY <1>1, <2>3, <2>4 DEF Asked, WorkType, FlagsInv, Game
  <2>7. /\ work' \in WorkType /\ work'.task = t /\ work'.since = {} /\ work'.id = active
        /\ work'.version = Active.version /\ work'.game = Active.game
        /\ work'.mover = ToPlay(Active.game)
    BY <2>1, <2>5, <2>6 DEF WorkType
  <2>8. work' # NoWork /\ work'.task # "none"
    BY <2>7 DEF NoWork, Task, OnDemand
  <2>9. WorkInv'
    <3>1. \A i \in DOMAIN boards : boards[i].id = active => boards[i] = Active
      BY <1>1, <2>3 DEF BoardsInv
    <3>2. work'.mover # "none" /\ work'.game.cursor <= Len(work'.game.moves)
      BY <2>3, <2>4, <2>7 DEF Colours, Game
    <3>3. \A i \in DOMAIN boards' :
            boards'[i].id = work'.id /\ boards'[i].version = work'.version => boards'[i].game = work'.game
      BY <1>2, <2>7, <3>1
    <3> QED BY <1>1, <1>2, <2>7, <2>8, <3>2, <3>3, SameTypes DEF WorkInv
  <2>10. VersionsInv'
    <3>1. <<work'.version, Line(work'.game)>> \in Claims
      BY <2>3, <2>7, ClaimsAre
    <3> QED BY <1>1, <1>2, <1>3, <3>1, ClaimsAre, VersionsKept
  <2>11. TasksInv'
    BY <1>1, <1>2, <2>1, <2>7, TasksAsk
  <2> QED BY <1>3, <1>4, <2>2, <2>9, <2>10, <2>11 DEF PlayInv
<1> QED BY <1>5, <1>6

-----------------------------------------------------------------------------
(* The engine's answers.                                                   *)

\* Task t lets the lock go, and is done or asks for it again.
Goes(t) ==
  \/ Release(t) /\ Spawns(Ended(t))
  \/ Again(t) /\ Spawns([task EXCEPT ![t] = "waiting"])

LEMMA AnswerKeeps ==
  ASSUME PlayInv, NEW t \in Task, task[t] = "asking", work' = NoWork, Goes(t), BoardsInv',
         NEW l, LineStep(<<FreshVersion, l>>), scenario' = scenario,
         search' \in SearchType, search' = NoSearch \/ <<search'.version, search'.line>> \in Claims,
         UNCHANGED <<players, analysisOn, settings, engine, epoch, playersEpoch, closed>>,
         halted' \in BOOLEAN, wanted' \in BOOLEAN, thinking' \in BOOLEAN, failed' \in BOOLEAN,
         crashed' \in BOOLEAN
  PROVE  PlayInv'
<1>1. BoardsInv /\ FlagsInv /\ TasksInv /\ WorkInv /\ VersionsInv /\ scenario \in Scenarios
  BY ThePlay
<1>2. WorkInv' /\ VersionsInv'
  BY <1>1, RequestOver
<1>3. FlagsInv'
  BY <1>1 DEF FlagsInv
<1>4. Holds(t) /\ work'.task = "none"
  BY <1>1, Asking DEF NoWork
<1>5. TasksInv'
  <2>1. CASE Release(t) /\ Spawns(Ended(t))
    BY <1>1, <1>4, <2>1, TasksRelease DEF Release, Ended, Holds
  <2>2. CASE Again(t) /\ Spawns([task EXCEPT ![t] = "waiting"])
    BY <1>1, <1>4, <2>2, TasksAgain DEF Again, Holds
  <2> QED BY <2>1, <2>2 DEF Goes
<1> QED BY <1>2, <1>3, <1>5 DEF PlayInv

LEMMA EndedIs ==
  ASSUME TasksInv, NEW t \in Task
  PROVE  /\ Ended(t) \in [Task -> States] /\ [task EXCEPT ![t] = "waiting"] \in [Task -> States]
         /\ task' = Ended(t) => Spawns(Ended(t))
         /\ task' = [task EXCEPT ![t] = "waiting"] => Spawns([task EXCEPT ![t] = "waiting"])
<1>1. Ended(t) \in [Task -> States] /\ [task EXCEPT ![t] = "waiting"] \in [Task -> States]
  BY DEF TasksInv, Ended, States
<1> QED BY <1>1 DEF Spawns

LEMMA MoveEndsIs ==
  ASSUME FlagsInv, TasksInv, NEW t \in Task, NEW r \in BOOLEAN, MoveEnds(t, r)
  PROVE  Goes(t) /\ wanted' \in BOOLEAN /\ halted' \in BOOLEAN
<1> DEFINE again == t = "auto" /\ LoopsAuto
           after == [task EXCEPT ![t] = IF again THEN "waiting" ELSE "idle"]
<1>1. /\ IF again THEN Again(t) ELSE Release(t)
      /\ UNCHANGED halted
      /\ IF r THEN RequestAnalysis(after) ELSE task' = after /\ UNCHANGED wanted
  BY DEF MoveEnds
<1>2. after = IF again THEN [task EXCEPT ![t] = "waiting"] ELSE Ended(t)
  BY DEF Ended
<1> HIDE DEF again, after
<1>3. after \in [Task -> States]
  BY <1>2, EndedIs
<1>4. Spawns(after) /\ wanted' \in BOOLEAN /\ halted' \in BOOLEAN
  <2>1. CASE r
    BY <1>1, <1>3, <2>1, Arms
  <2>2. CASE ~r
    BY <1>1, <1>3, <2>2 DEF Spawns, FlagsInv
  <2> QED BY <2>1, <2>2
<1> QED BY <1>1, <1>2, <1>4 DEF Goes

LEMMA SearchedIs ==
  ASSUME PlayInv, Searched
  PROVE  search' \in SearchType /\ (search' = NoSearch \/ <<search'.version, search'.line>> \in Claims)
<1>1. search \in SearchType /\ NoSearch \in SearchType
  BY ThePlay, NoSearchIs DEF WorkInv
<1> QED BY <1>1, ClaimsAre DEF Searched

\* The answers that change no board.
LEMMA NoMoveKeeps ==
  ASSUME PlayInv, NEW t \in Task, MoveOfOldEngine(t) \/ MoveFailed(t) \/ MoveStale(t)
  PROVE  PlayInv' /\ Discards
<1>1. BoardsInv /\ FlagsInv /\ TasksInv /\ WorkInv /\ VersionsInv /\ scenario \in Scenarios
  BY ThePlay
<1>2. /\ task[t] = "asking" /\ work' = NoWork /\ thinking' = FALSE /\ Searched
      /\ UNCHANGED <<boards, active, players, analysisOn, settings, engine, epoch, playersEpoch, failed,
                     crashed, closed, scenario>>
  BY DEF MoveOfOldEngine, MoveFailed, MoveStale, MoveAnswered, epochs, rest
<1>3. Goes(t) /\ wanted' \in BOOLEAN /\ halted' \in BOOLEAN
  <2>1. CASE MoveOfOldEngine(t)
    BY <1>1, <2>1, MoveEndsIs DEF MoveOfOldEngine
  <2>2. CASE MoveFailed(t)
    <3>1. Release(t) /\ RequestAnalysis(Ended(t)) /\ UNCHANGED halted
      BY <2>2 DEF MoveFailed
    <3>2. Spawns(Ended(t)) /\ wanted' \in BOOLEAN /\ halted' \in BOOLEAN
      BY <1>1, <3>1, EndedIs, Arms
    <3> QED BY <3>1, <3>2 DEF Goes
  <2>3. CASE MoveStale(t)
    BY <1>1, <2>3, MoveEndsIs DEF MoveStale
  <2> QED BY <2>1, <2>2, <2>3
<1>4. BoardsInv' /\ LineStep(<<FreshVersion, <<>>>>)
  BY <1>1, <1>2, QuietBoards
<1>5. search' \in SearchType /\ (search' = NoSearch \/ <<search'.version, search'.line>> \in Claims)
  BY <1>2, SearchedIs
<1>6. thinking' \in BOOLEAN /\ failed' \in BOOLEAN /\ crashed' \in BOOLEAN
  BY <1>1, <1>2 DEF FlagsInv
<1> QED BY <1>2, <1>3, <1>4, <1>5, <1>6, AnswerKeeps, KeptDiscards

LEMMA PlayedKeeps ==
  ASSUME PlayInv, NEW t \in Task, MovePlayed(t)
  PROVE  PlayInv' /\ Discards
<1>1. BoardsInv /\ FlagsInv /\ TasksInv /\ WorkInv /\ VersionsInv /\ scenario \in Scenarios
  BY ThePlay
<1>2. /\ t \in Moving /\ task[t] = "asking" /\ work' = NoWork /\ thinking' = FALSE /\ Searched
      /\ engine = work.engine /\ TokenHolds(t)
      /\ UNCHANGED <<active, players, analysisOn, settings, engine, epoch, playersEpoch, failed,
                     crashed, closed, scenario>>
  BY DEF MovePlayed, MoveAnswered, epochs, rest
<1> DEFINE g == Board(work.id).game
<1>3. /\ Exists(work.id) /\ work.id = active /\ Board(work.id).version = work.version
      /\ epoch = work.epoch /\ (t = "auto" => playersEpoch = work.playersEpoch)
  BY <1>2 DEF TokenHolds
<1>4. /\ Index(work.id) \in DOMAIN boards /\ Board(work.id) = boards[Index(work.id)]
      /\ Board(work.id).id = work.id /\ Game(g)
  BY <1>1, <1>3, IndexIs
<1>5. work.task = t /\ work # NoWork /\ work \in WorkType
  BY <1>1, <1>2, Asking DEF WorkInv
<1>6. g = work.game /\ work.mover \in Colours
  BY <1>1, <1>3, <1>4, <1>5 DEF WorkInv, WorkType
<1>7. PICK h : Game(h) /\ boards' = Changed(work.id, h)
  <2>1. CASE /\ g.cursor < MAX_MOVES
             /\ \E p \in Points : boards' = Changed(work.id, Play(g, [colour |-> work.mover, point |-> p]))
    <3>1. PICK p \in Points : boards' = Changed(work.id, Play(g, [colour |-> work.mover, point |-> p]))
      BY <2>1
    <3>2. [colour |-> work.mover, point |-> p] \in [colour : Colours, point : Points]
      BY <1>6
    <3>3. Game(Play(g, [colour |-> work.mover, point |-> p]))
      BY <1>1, <1>4, <2>1, <3>2, GamesKept DEF Moves
    <3> QED BY <3>1, <3>3
  <2>2. CASE boards' = Changed(work.id, BranchResign(g))
    BY <1>1, <1>4, <2>2, GamesKept
  <2> QED BY <2>1, <2>2 DEF MovePlayed
<1>8. BoardsInv' /\ BoardStep(FreshId, FreshVersion, h)
  BY <1>1, <1>2, <1>3, <1>7, ChangedStep
<1>9. LineStep(<<FreshVersion, Line(h)>>)
  BY <1>8, BoardStepIsLineStep
<1>10. Goes(t) /\ wanted' \in BOOLEAN /\ halted' \in BOOLEAN
  <2>1. CASE t = "genmove"
    <3>1. Release(t) /\ Rearm(Ended(t))
      BY <2>1 DEF MovePlayed
    <3>2. Spawns(Ended(t)) /\ wanted' \in BOOLEAN /\ halted' \in BOOLEAN
      BY <1>1, <3>1, EndedIs, Arms
    <3> QED BY <3>1, <3>2 DEF Goes
  <2>2. CASE t # "genmove"
    BY <1>1, <2>2, MoveEndsIs DEF MovePlayed
  <2> QED BY <2>1, <2>2
<1>11. search' \in SearchType /\ (search' = NoSearch \/ <<search'.version, search'.line>> \in Claims)
  BY <1>2, SearchedIs
<1>12. thinking' \in BOOLEAN /\ failed' \in BOOLEAN /\ crashed' \in BOOLEAN
  BY <1>1, <1>2 DEF FlagsInv
<1>13. PlayInv'
  BY <1>2, <1>8, <1>9, <1>10, <1>11, <1>12, AnswerKeeps
<1>14. Discards
  <2>1. Active.game = work.game
    BY <1>3, <1>6 DEF Active
  <2>2. "boards" \notin work.since /\ (work.task = "auto" => "players" \notin work.since)
    BY <1>1, <1>3, <1>5 DEF WorkInv
  <2>3. work.task # "final_score"
    BY <1>2, <1>5 DEF Moving
  <2> QED BY <1>2, <1>3, <2>1, <2>2, <2>3 DEF Discards
<1> QED BY <1>13, <1>14

LEMMA CommandIs ==
  ASSUME PlayInv, NEW t \in Task, CommandAnswered(t)
  PROVE  /\ task[t] = "asking" /\ work.task = t /\ work # NoWork /\ work' = NoWork /\ Goes(t)
         /\ wanted' \in BOOLEAN /\ halted' \in BOOLEAN /\ thinking' \in BOOLEAN /\ failed' \in BOOLEAN
         /\ crashed' \in BOOLEAN
         /\ search' \in SearchType /\ (search' = NoSearch \/ <<search'.version, search'.line>> \in Claims)
         /\ UNCHANGED <<active, players, analysisOn, settings, engine, epoch, playersEpoch, closed, scenario>>
<1>1. FlagsInv /\ TasksInv /\ WorkInv
  BY ThePlay
<1>2. /\ task[t] = "asking" /\ work' = NoWork /\ Searched /\ Release(t)
      /\ UNCHANGED <<active, players, analysisOn, settings, engine, thinking, epoch, playersEpoch, halted,
                     failed, crashed, closed, scenario>>
  BY DEF CommandAnswered, epochs, rest
<1>3. Spawns(Ended(t)) /\ wanted' \in BOOLEAN
  <2>1. CASE RequestAnalysis(Ended(t))
    BY <1>1, <1>2, <2>1, EndedIs, Arms
  <2>2. CASE task' = Ended(t) /\ UNCHANGED wanted
    BY <1>1, <2>2, EndedIs DEF FlagsInv
  <2> QED BY <2>1, <2>2 DEF CommandAnswered
<1>4. work.task = t /\ work # NoWork
  BY <1>1, <1>2, Asking
<1>5. search' \in SearchType /\ (search' = NoSearch \/ <<search'.version, search'.line>> \in Claims)
  BY <1>2, SearchedIs
<1> QED BY <1>1, <1>2, <1>3, <1>4, <1>5 DEF Goes, FlagsInv

LEMMA RawKeeps ==
  ASSUME PlayInv, RawAnswered
  PROVE  PlayInv' /\ Discards
<1>1. BoardsInv /\ scenario \in Scenarios /\ Exists(active) /\ Game(Active.game) /\ "raw" \in Task
  BY ThePlay DEF Task, OnDemand
<1>2. CommandAnswered("raw")
  BY DEF RawAnswered
<1>3. /\ task["raw"] = "asking" /\ work.task = "raw" /\ work' = NoWork /\ Goes("raw")
      /\ wanted' \in BOOLEAN /\ halted' \in BOOLEAN /\ thinking' \in BOOLEAN /\ failed' \in BOOLEAN
      /\ crashed' \in BOOLEAN
      /\ search' \in SearchType /\ (search' = NoSearch \/ <<search'.version, search'.line>> \in Claims)
      /\ UNCHANGED <<active, players, analysisOn, settings, engine, epoch, playersEpoch, closed, scenario>>
  BY <1>1, <1>2, CommandIs
<1>4. \E l : BoardsInv' /\ LineStep(<<FreshVersion, l>>)
  <2>1. CASE boards' = boards
    BY <1>1, <1>3, <2>1, QuietBoards
  <2>2. CASE boards' = Changed(active, Active.game)
    <3>1. BoardsInv' /\ BoardStep(FreshId, FreshVersion, Active.game)
      BY <1>1, <1>3, <2>2, ChangedStep
    <3>2. LineStep(<<FreshVersion, Line(Active.game)>>)
      BY <3>1, BoardStepIsLineStep
    <3> QED BY <3>1, <3>2
  <2> QED BY <2>1, <2>2 DEF RawAnswered
<1>5. PICK l : BoardsInv' /\ LineStep(<<FreshVersion, l>>)
  BY <1>4
<1>6. PlayInv'
  BY <1>1, <1>3, <1>5, AnswerKeeps
<1>7. Discards
  BY <1>3 DEF Discards, EngineMoved, Moving
<1> QED BY <1>6, <1>7

LEMMA ScoreKeeps ==
  ASSUME PlayInv, ScoreAnswered
  PROVE  PlayInv' /\ Discards
<1>1. BoardsInv /\ WorkInv /\ scenario \in Scenarios /\ "final_score" \in Task
  BY ThePlay DEF Task, OnDemand
<1>2. CommandAnswered("final_score")
  BY DEF ScoreAnswered
<1>3. /\ task["final_score"] = "asking" /\ work.task = "final_score" /\ work # NoWork /\ work' = NoWork
      /\ Goes("final_score")
      /\ wanted' \in BOOLEAN /\ halted' \in BOOLEAN /\ thinking' \in BOOLEAN /\ failed' \in BOOLEAN
      /\ crashed' \in BOOLEAN
      /\ search' \in SearchType /\ (search' = NoSearch \/ <<search'.version, search'.line>> \in Claims)
      /\ UNCHANGED <<active, players, analysisOn, settings, engine, epoch, playersEpoch, closed, scenario>>
  BY <1>1, <1>2, CommandIs
<1>4. CASE boards' = boards
  <2>1. BoardsInv' /\ LineStep(<<FreshVersion, <<>>>>)
    BY <1>1, <1>3, <1>4, QuietBoards
  <2> QED BY <1>1, <1>3, <1>4, <2>1, AnswerKeeps, KeptDiscards
<1>5. CASE MayScore /\ \E r \in {"resigned", "scored"} :
                         boards' = [boards EXCEPT ![Index(work.id)].game.result = r]
  <2>1. PICK r \in {"resigned", "scored"} : boards' = [boards EXCEPT ![Index(work.id)].game.result = r]
    BY <1>5
  <2> DEFINE i == Index(work.id)
             q == [boards[i].game EXCEPT !.result = r]
             b == [boards[i] EXCEPT !.game = q]
  <2>2. Exists(work.id) /\ Board(work.id).version = work.version
    BY <1>5 DEF MayScore
  <2>3. /\ i \in DOMAIN boards /\ boards[i].id = work.id /\ boards[i] \in BoardType
        /\ Game(boards[i].game) /\ boards[i].version = work.version
    BY <1>1, <2>2, IndexIs, BoardAt
  <2>4. boards[i].game = work.game
    BY <1>1, <1>3, <2>3 DEF WorkInv
  <2>5. Game(q) /\ q.moves = boards[i].game.moves /\ q.cursor = boards[i].game.cursor
    <3>1. r \in Result
      BY DEF Result
    <3> QED BY <2>3, <3>1, WithResult DEF Game, GameType
  <2>6. Line(q) = Line(boards[i].game)
    BY <2>5 DEF Line
  <2> HIDE DEF q
  <2>7. /\ b \in BoardType /\ b.id = boards[i].id /\ b.game = q /\ b.version = boards[i].version
        /\ b.figures = boards[i].figures
    BY <2>3, <2>5 DEF BoardType, Game
  <2>8. boards' = [boards EXCEPT ![i] = b]
    BY <2>1 DEF q
  <2> HIDE DEF i, b
  <2>9. /\ BoardsInv' /\ DOMAIN boards' = DOMAIN boards
        /\ boards'[i] = b /\ \A j \in DOMAIN boards : j # i => boards'[j] = boards[j]
    BY <1>1, <1>3, <2>3, <2>5, <2>7, <2>8, ReplaceStep
  <2>10. LineStep(<<FreshVersion, <<>>>>)
    <3> SUFFICES ASSUME NEW j \in DOMAIN boards
                 PROVE  /\ <<boards'[j].version, Line(boards'[j].game)>> \in Claims
                        /\ \/ boards'[j].figures = NoFigures
                           \/ <<boards'[j].figures.version, boards'[j].figures.line>> \in Claims
      BY <2>9 DEF LineStep
    <3> QED BY <2>3, <2>6, <2>7, <2>9, ClaimsAre
  <2>11. PlayInv'
    BY <1>1, <1>3, <2>9, <2>10, AnswerKeeps
  <2>12. Discards
    <3>1. ~EngineMoved
      BY <1>3 DEF EngineMoved, Moving
    <3>2. \A j \in DOMAIN boards : boards'[j].game.result # boards[j].game.result => j = i
      BY <2>9
    <3> QED BY <2>3, <2>4, <3>1, <3>2 DEF Discards
  <2> QED BY <2>11, <2>12
<1> QED BY <1>4, <1>5 DEF ScoreAnswered

LEMMA RefreshKeeps ==
  ASSUME PlayInv, RefreshAnswered
  PROVE  PlayInv' /\ Discards
<1>1. /\ BoardsInv /\ FlagsInv /\ TasksInv /\ WorkInv /\ scenario \in Scenarios /\ "refresh" \in Task
  BY ThePlay DEF Task, OnDemand
<1>2. /\ task["refresh"] = "asking" /\ work' = NoWork /\ RefreshEnds
      /\ UNCHANGED <<boards, active, players, analysisOn, settings, engine, thinking, epoch, playersEpoch,
                     halted, crashed, closed, scenario>>
  BY DEF RefreshAnswered, content, epochs, rest
<1>3. work # NoWork /\ work \in WorkType
  BY <1>1, <1>2, Asking DEF WorkInv
<1>4. BoardsInv' /\ LineStep(<<FreshVersion, <<>>>>)
  BY <1>1, <1>2, QuietBoards
<1>5. /\ search' \in SearchType /\ (search' = NoSearch \/ <<search'.version, search'.line>> \in Claims)
      /\ failed' \in BOOLEAN
  <2>1. CASE /\ search' = [engine |-> work.engine, id |-> work.id, version |-> work.version,
                           line |-> Line(work.game), settings |-> work.settings]
             /\ failed' = FALSE
    <3>1. Line(work.game) \in MoveSeq(Colours)
      <4>1. Game(work.game)
        BY <1>1, <1>3 DEF WorkInv, WorkType, Game
      <4> QED BY <1>1, <4>1, GameFields
    <3>2. search' \in SearchType
      BY <1>3, <2>1, <3>1 DEF SearchType, WorkType
    <3>3. <<search'.version, search'.line>> \in Claims
      BY <1>3, <2>1, ClaimsAre
    <3> QED BY <2>1, <3>2, <3>3
  <2>2. CASE search' = NoSearch /\ failed' = work.analyse
    BY <1>1, <1>3, <2>2, NoSearchIs DEF WorkType
  <2> QED BY <2>1, <2>2 DEF RefreshAnswered
<1>6. Goes("refresh")
  BY <1>1, <1>2, EndedIs DEF RefreshEnds, Goes
<1>7. wanted' \in BOOLEAN /\ halted' \in BOOLEAN /\ thinking' \in BOOLEAN /\ crashed' \in BOOLEAN
  BY <1>1, <1>2 DEF FlagsInv, RefreshEnds
<1> QED BY <1>1, <1>2, <1>4, <1>5, <1>6, <1>7, AnswerKeeps, KeptDiscards

LEMMA CrashKeeps ==
  ASSUME PlayInv, NEW t \in Task, TaskCrashes(t)
  PROVE  PlayInv' /\ Discards
<1>1. BoardsInv /\ FlagsInv /\ TasksInv /\ WorkInv /\ scenario \in Scenarios
  BY ThePlay
<1>2. /\ task[t] = "asking" /\ work' = NoWork /\ search' = NoSearch /\ failed' = TRUE
      /\ Release(t) /\ task' = Ended(t) /\ crashed' = TRUE
      /\ UNCHANGED <<boards, active, players, analysisOn, settings, engine, thinking, epoch, playersEpoch,
                     halted, wanted, closed, scenario>>
  BY DEF TaskCrashes, content, epochs
<1>3. BoardsInv' /\ LineStep(<<FreshVersion, <<>>>>)
  BY <1>1, <1>2, QuietBoards
<1>4. Goes(t) /\ search' \in SearchType
  BY <1>1, <1>2, EndedIs, NoSearchIs DEF Goes
<1>5. wanted' \in BOOLEAN /\ halted' \in BOOLEAN /\ thinking' \in BOOLEAN /\ crashed' \in BOOLEAN
      /\ failed' \in BOOLEAN
  BY <1>1, <1>2 DEF FlagsInv
<1> QED BY <1>2, <1>3, <1>4, <1>5, AnswerKeeps, KeptDiscards

LEMMA CutShortKeeps ==
  ASSUME PlayInv, CutShort
  PROVE  PlayInv' /\ Discards
<1>1. BoardsInv /\ FlagsInv /\ TasksInv /\ WorkInv /\ VersionsInv /\ scenario \in Scenarios
  BY ThePlay
<1>2. /\ task' = [t \in Task |-> "idle"] /\ lock' = <<>> /\ work' = NoWork /\ thinking' = FALSE
      /\ UNCHANGED <<boards, active, players, analysisOn, settings, engine, epoch, playersEpoch,
                     halted, wanted, search, failed, crashed, closed, scenario>>
  BY DEF CutShort, content, epochs, rest
<1>3. BoardsInv' /\ LineStep(<<FreshVersion, <<>>>>)
  BY <1>1, <1>2, QuietBoards
<1>4. WorkInv' /\ VersionsInv'
  <2>1. search' \in SearchType /\ (search' = NoSearch \/ <<search'.version, search'.line>> \in Claims)
    BY <1>1, <1>2, ClaimsAre DEF WorkInv
  <2> QED BY <1>1, <1>2, <1>3, <2>1, RequestOver
<1>5. TasksInv'
  <2>1. lock' \in Seq(Task) /\ Len(lock') = 0
    BY <1>2, EmptySeq
  <2>2. \A i \in 1 .. Len(lock') : FALSE
    BY <2>1
  <2>3. \A u \in Task : task'[u] = "idle"
    BY <1>2
  <2>4. work'.task \notin Task
    BY <1>2 DEF NoWork, Task, OnDemand
  <2>5. task' \in [Task -> {"idle", "spawned", "waiting", "asking"}]
    BY <1>2
  <2> QED BY <2>1, <2>2, <2>3, <2>4, <2>5 DEF TasksInv
<1>6. FlagsInv'
  BY <1>1, <1>2 DEF FlagsInv
<1> QED BY <1>2, <1>3, <1>4, <1>5, <1>6, KeptDiscards DEF PlayInv

LEMMA UnexpectedKeeps ==
  ASSUME PlayInv, Unexpected
  PROVE  PlayInv' /\ Discards
<1>1. BoardsInv /\ FlagsInv /\ TasksInv /\ WorkInv /\ VersionsInv /\ scenario \in Scenarios
  BY ThePlay
<1>2. /\ UNCHANGED <<boards, active, players, analysisOn, settings, engine, epoch, playersEpoch,
                     wanted, task, lock, work, search, failed, closed, scenario>>
      /\ crashed' = FALSE /\ thinking' \in BOOLEAN /\ halted' \in BOOLEAN
  BY <1>1 DEF Unexpected, content, epochs, tasks, FlagsInv
<1>3. BoardsInv' /\ LineStep(<<FreshVersion, <<>>>>)
  BY <1>1, <1>2, QuietBoards
<1>4. WorkInv' /\ VersionsInv'
  BY <1>1, <1>2, <1>3, ClaimsAre, VersionsKept, SameRequest
<1>5. TasksInv' /\ FlagsInv'
  BY ZenonT(40), <1>1, <1>2 DEF TasksInv, FlagsInv
<1> QED BY <1>2, <1>3, <1>4, <1>5, KeptDiscards DEF PlayInv

\* A report gives a board figures of the line that a version is said to be the version of.
LEMMA ReportKeeps ==
  ASSUME PlayInv, Report
  PROVE  Kept
<1>1. BoardsInv /\ FlagsInv /\ TasksInv /\ WorkInv /\ scenario \in Scenarios
  BY ThePlay
<1>2. PICK s, l : /\ Reported(s, l) /\ s \in {search, work}
                  /\ <<s.version, l>> \in Claims /\ l \in MoveSeq(Colours) /\ s.version \in Nat
  <2>1. CASE search # NoSearch /\ Reported(search, search.line)
    <3>1. search \in SearchType
      BY <1>1 DEF WorkInv
    <3> QED BY <2>1, <3>1, ClaimsAre DEF SearchType
  <2>2. CASE work.task \in Moving /\ work.analyse /\ Reported(work, Line(work.game))
    <3>1. work # NoWork /\ work \in WorkType
      BY <1>1, <2>2 DEF WorkInv, NoWork, Moving
    <3>2. Game(work.game)
      BY <1>1, <3>1 DEF WorkInv, WorkType, Game
    <3>3. Line(work.game) \in MoveSeq(Colours) /\ work.version \in Nat
      BY <1>1, <3>1, <3>2, GameFields DEF WorkType
    <3> QED BY <2>2, <3>1, <3>3, ClaimsAre
  <2> QED BY <2>1, <2>2 DEF Report
<1> DEFINE f == [line |-> l, version |-> s.version]
<1>3. /\ Exists(s.id) /\ boards' = [boards EXCEPT ![Index(s.id)].figures = f]
      /\ UNCHANGED <<active, players, analysisOn, settings, engine, thinking, epoch, playersEpoch,
                     halted, wanted, task, lock, work, search, failed, crashed, closed, scenario>>
  BY <1>2 DEF Reported, SinkAccepts, epochs, tasks, rest
<1>4. f \in FiguresType /\ <<f.version, f.line>> \in Claims
  BY <1>2 DEF FiguresType
<1> HIDE DEF f
<1>5. Index(s.id) \in DOMAIN boards
  BY <1>1, <1>3, IndexIs
<1>6. BoardsInv' /\ BoardStep(FreshId, FreshVersion, NewGame)
  BY <1>1, <1>3, <1>4, <1>5, FiguresStep
<1>7. EpochsMove /\ Spawns(task)
  BY <1>1, <1>3, SameTasks DEF EpochsMove
<1> QED BY <1>1, <1>3, <1>6, <1>7, NewNames, MessageKeeps DEF FlagsInv

-----------------------------------------------------------------------------
(* The theorems.                                                           *)

LEMMA InitPlay == Init => PlayInv
<1> SUFFICES ASSUME Init PROVE PlayInv
  OBVIOUS
<1>1. scenario \in Scenarios /\ MAX_BOARDS \in Nat /\ MAX_BOARDS # 0
  BY BoardLimitAssumption DEF Init
<1> DEFINE b == [id |-> 1, game |-> NewGame, version |-> 1, figures |-> NoFigures]
<1>2. Game(NewGame)
  <2>1. <<>> \in Seq(Moves(Colours)) /\ Len(<<>>) = 0 /\ MAX_MOVES \in Nat /\ "unknown" \in Result
    BY <1>1, Limits, EmptySeq DEF Result
  <2>2. Len(<<>>) <= MAX_MOVES /\ 0 \in Nat /\ 0 <= Len(<<>>)
    BY <2>1
  <2>3. Game([moves |-> <<>>, cursor |-> 0, result |-> "unknown"])
    BY <1>1, <2>1, <2>2, MakesGame
  <2> QED BY <2>3 DEF NewGame
<1>3. b \in BoardType
  <2>1. NewGame \in GameType /\ NoFigures \in FiguresType
    BY <1>1, <1>2, NothingShown DEF Game
  <2> QED BY <2>1 DEF BoardType
<1>4. b.id = 1 /\ b.game = NewGame /\ b.version = 1 /\ b.figures = NoFigures
  OBVIOUS
<1>5. boards = <<b>> /\ active = 1
  BY DEF Init
<1> HIDE DEF b
<1>6. boards \in Seq(BoardType) /\ Len(boards) = 1 /\ boards[1] = b
  BY <1>3, <1>5
<1>7. DOMAIN boards = {1}
  BY <1>6
<1>8. BoardsInv
  <2>1. Len(boards) \in 1 .. MAX_BOARDS
    BY <1>1, <1>6
  <2>2. Exists(active)
    BY <1>4, <1>5, <1>6, <1>7 DEF Exists
  <2> QED BY <1>2, <1>4, <1>6, <1>7, <2>1, <2>2 DEF BoardsInv, Game
<1>9. FlagsInv
  BY DEF Init, FlagsInv, None
<1>10. TasksInv
  <2>1. lock \in Seq(Task) /\ Len(lock) = 0
    BY EmptySeq DEF Init
  <2>2. \A i \in 1 .. Len(lock) : FALSE
    BY <2>1
  <2>3. work.task \notin Task /\ task \in [Task -> {"idle", "spawned", "waiting", "asking"}]
        /\ \A u \in Task : task[u] = "idle"
    BY DEF Init, NoWork, Task, OnDemand
  <2> QED BY <2>1, <2>2, <2>3 DEF TasksInv
<1>11. NoWork \in WorkType
  BY <1>2 DEF NoWork, WorkType, None, Game
<1>12. WorkInv
  BY <1>1, <1>11, NoSearchIs DEF Init, WorkInv, NoWork
<1>13. Claims = {<<1, Line(NewGame)>>}
  <2>1. boards[1].figures = NoFigures /\ work = NoWork /\ search = NoSearch
    BY <1>4, <1>6 DEF Init
  <2> QED BY <1>4, <1>6, <1>7, <2>1 DEF Claims
<1>14. VersionsInv
  BY <1>13 DEF VersionsInv
<1> QED BY <1>8, <1>9, <1>10, <1>12, <1>14 DEF PlayInv

LEMMA StepPlay == PlayInv /\ [Next]_vars => PlayInv' /\ (Discards \/ UNCHANGED vars)
<1> SUFFICES ASSUME PlayInv, [Next]_vars PROVE PlayInv' /\ (Discards \/ UNCHANGED vars)
  OBVIOUS
<1>1. CASE Message
  <2>1. Kept
    BY <1>1, PlayKeeps, LoadKeeps, SettingsKeep, SelectKeeps, DuplicateKeeps, NewKeeps, DeleteKeeps,
       DemandsKeep DEF Message
  <2> QED BY <2>1, KeptDiscards DEF Kept
<1>2. CASE EngineEvent
  <2>1. CASE EngineUp \/ EngineReleased \/ EngineGone \/ Aclose
    BY <2>1, EngineKeeps, KeptDiscards DEF Kept
  <2>2. CASE CutShort
    BY <2>2, CutShortKeeps
  <2> QED BY <1>2, <2>1, <2>2 DEF EngineEvent
<1>3. CASE \E t \in Task : TaskStart(t) \/ Begin(t) \/ Answer(t)
  BY <1>3, StartKeeps, BeginKeeps, NoMoveKeeps, PlayedKeeps DEF Answer
<1>4. CASE CommandDone
  BY <1>4, RawKeeps, ScoreKeeps, RefreshKeeps DEF CommandDone
<1>5. CASE \E t \in Task : TaskCrashes(t)
  BY <1>5, CrashKeeps
<1>6. CASE Unexpected
  BY <1>6, UnexpectedKeeps
<1>7. CASE Report
  BY <1>7, ReportKeeps, KeptDiscards DEF Kept
<1>8. CASE UNCHANGED vars
  <2>1. BoardsInv /\ FlagsInv /\ TasksInv /\ WorkInv /\ VersionsInv
    BY ThePlay
  <2>2. UNCHANGED <<boards, active, players, analysisOn, settings, engine, thinking, epoch, playersEpoch,
                    halted, wanted, task, arg, lock, work, search, failed, crashed, closed, scenario>>
    BY <1>8 DEF vars, content, epochs, tasks, rest
  <2>3. BoardsInv' /\ WorkInv'
    BY <2>1, <2>2, QuietBoards, SameRequest
  <2>4. FlagsInv' /\ TasksInv'
    BY <2>1, <2>2 DEF FlagsInv, TasksInv
  <2>5. VersionsInv'
    BY <2>1, <2>2, QuietBoards, ClaimsAre, VersionsKept
  <2> QED BY <1>8, <2>3, <2>4, <2>5 DEF PlayInv
<1> QED BY <1>1, <1>2, <1>3, <1>4, <1>5, <1>6, <1>7, <1>8 DEF Next

LEMMA PlayHolds == Spec => []PlayInv
BY InitPlay, StepPlay, PTL DEF Spec

LEMMA PlayTypes == PlayInv => TypeOK
<1> SUFFICES ASSUME PlayInv PROVE TypeOK
  OBVIOUS
<1>1. BoardsInv /\ FlagsInv /\ TasksInv /\ WorkInv
  BY ThePlay
<1>2. DOMAIN lock = 1 .. Len(lock)
  BY <1>1 DEF TasksInv
<1>3. {lock[i] : i \in DOMAIN lock} = {t \in Task : task[t] \in {"waiting", "asking"}}
  <2>1. \A i \in 1 .. Len(lock) : lock[i] \in Task
    BY <1>1 DEF TasksInv
  <2> QED BY <1>1, <1>2, <2>1 DEF TasksInv
<1>4. work # NoWork => Holds(work.task)
  <2> SUFFICES ASSUME work # NoWork PROVE Holds(work.task)
    OBVIOUS
  <2>1. work.task \in Task
    BY <1>1 DEF WorkInv, WorkType
  <2>2. task[work.task] = "asking"
    BY <1>1, <2>1 DEF TasksInv
  <2> QED BY <1>1, <2>1, <2>2, Asking
<1>5. /\ boards \in Seq(BoardType) /\ Len(boards) \in 1 .. MAX_BOARDS
      /\ \A i, j \in DOMAIN boards : boards[i].id = boards[j].id => i = j
      /\ \A i \in DOMAIN boards : boards[i].game.cursor <= Len(boards[i].game.moves)
      /\ Exists(active)
  BY <1>1 DEF BoardsInv
<1>6. /\ players \subseteq Colours
      /\ {analysisOn, settings, thinking, halted, wanted, failed, crashed, closed} \subseteq BOOLEAN
      /\ {engine, epoch, playersEpoch} \subseteq Nat
  BY <1>1 DEF FlagsInv
<1>7. /\ task \in [Task -> {"idle", "spawned", "waiting", "asking"}]
      /\ \A i, j \in DOMAIN lock : lock[i] = lock[j] => i = j
      /\ \A t \in Task : task[t] = "asking" <=> work.task = t
  BY <1>1, <1>2 DEF TasksInv
<1> QED BY <1>3, <1>4, <1>5, <1>6, <1>7 DEF TypeOK

\* The types of the session's state, a lock whose queue is the tasks that wait for it or have it,
\* each once, and one request to the engine at a time, made by the holder: no task, board, move or
\* setting that the messages bring breaks them, for any number of boards and any move limit.
THEOREM TypesHold == Spec => []TypeOK
BY PlayHolds, PlayTypes, PTL

\* The figures that a board shows are of a search of the position on it (analysis_version of a
\* board slot and the sink of _analysis_sink): a version names one position for as long as a board,
\* its figures, the request in flight or the running search refers to it.
THEOREM FiguresTrue == Spec => []FiguresDescribeBoard
<1>1. PlayInv => FiguresDescribeBoard
  <2> SUFFICES ASSUME PlayInv, NEW i \in DOMAIN boards, Shown(boards[i])
               PROVE  boards[i].figures.line = Line(boards[i].game)
    BY DEF FiguresDescribeBoard
  <2> DEFINE c == <<boards[i].version, Line(boards[i].game)>>
             d == <<boards[i].figures.version, boards[i].figures.line>>
  <2>1. c \in Claims /\ d \in Claims /\ c[1] = d[1]
    BY ClaimsAre DEF Shown
  <2>2. c[2] = d[2]
    <3> HIDE DEF c, d
    <3> QED BY <2>1 DEF PlayInv, VersionsInv
  <2> QED BY <2>2
<1> QED BY <1>1, PlayHolds, PTL

\* Stale work is discarded (the checks of _engine_move and _final_score): what the engine answers
\* changes a game only while the board, the game, the engine, the boards' order of things and, for
\* an automatic move, the players are those it was asked for.
THEOREM StaleDiscarded == Spec => StaleWorkDiscarded
<1>1. PlayInv /\ [Next]_vars => (Discards \/ UNCHANGED vars)
  BY StepPlay
<1>2. PlayInv /\ [Next]_vars =>
        [/\ EngineMoved => /\ engine = work.engine
                           /\ active = work.id /\ Active.game = work.game
                           /\ "boards" \notin work.since
                           /\ work.task = "auto" => "players" \notin work.since
         /\ work.task = "final_score" /\ work'.task # "final_score" =>
              \A i \in DOMAIN boards :
                boards'[i].game.result # boards[i].game.result
                  => boards[i].id = work.id /\ Line(boards[i].game) = Line(work.game)]_vars
  BY <1>1 DEF Discards
<1> QED BY <1>2, PlayHolds, PTL DEF Spec, StaleWorkDiscarded

-----------------------------------------------------------------------------
(* No request for analysis is lost.                                        *)

\* The engine searches what the space wants.
SearchMatches ==
  IF WantsAnalysis
    THEN search = [engine |-> engine, id |-> active, version |-> Active.version,
                   line |-> Line(Active.game), settings |-> settings]
    ELSE search.engine # engine

\* The pass under way asked for what the space wants.
WorkMatches ==
  /\ work.analyse <=> WantsAnalysis
  /\ WantsAnalysis => /\ work.engine = engine /\ work.id = active
                      /\ work.version = Active.version /\ work.settings = settings

\* A pass that will read the request is coming, or the pass under way is the right one, or the
\* search is.
MatchInv ==
  engine # None /\ ~closed /\ ~halted /\ ~crashed =>
    \/ wanted /\ task["refresh"] # "idle"
    \/ task["refresh"] = "asking" /\ WorkMatches
    \/ task["refresh"] # "asking" /\ (failed \/ SearchMatches)

ActiveIsThere == \A i \in DOMAIN boards : boards[i].id = active => Active = boards[i]

LEMMA ActiveAt == BoardsInv => ActiveIsThere
<1> SUFFICES ASSUME BoardsInv, NEW i \in DOMAIN boards, boards[i].id = active PROVE Active = boards[i]
  BY DEF ActiveIsThere
<1>1. Index(active) \in DOMAIN boards /\ boards[Index(active)].id = active /\ Active = boards[Index(active)]
  BY ActiveIs
<1> QED BY <1>1 DEF BoardsInv

LEMMA ActiveAtNext ==
  BoardsInv' => \A i \in DOMAIN boards' : boards'[i].id = active' => Active' = boards'[i]
<1>1. BoardsInv' => ActiveIsThere'
  BY ActiveAt, PTL
<1> QED BY <1>1 DEF ActiveIsThere

\* A step that leaves the active board's position, the engine and the settings.
SamePlace ==
  /\ UNCHANGED <<engine, closed, active, players, analysisOn, settings, scenario>>
  /\ Active'.game = Active.game /\ Active'.version = Active.version

LEMMA SameBoards ==
  ASSUME UNCHANGED <<boards, engine, closed, active, players, analysisOn, settings, scenario>>
  PROVE  SamePlace
BY DEF SamePlace, Active, Board, Index

LEMMA SameWants ==
  ASSUME SamePlace, (task'["auto"] = "idle" <=> task["auto"] = "idle") \/ ~ShouldMove \/ ~ShouldMove'
  PROVE  (ShouldMove' <=> ShouldMove) /\ (WantsAnalysis' <=> WantsAnalysis)
<1>1. ShouldMove' <=> ShouldMove
  BY DEF SamePlace, ShouldMove, MAX_MOVES
<1> QED BY <1>1 DEF SamePlace, WantsAnalysis, AutoRunning

\* Whatever ends in a request.
LEMMA RequestMatches ==
  ASSUME NEW tk \in [Task -> States], closed' = closed,
         Rearm(tk) \/ Refresh(tk) \/ RequestAnalysis(tk)
  PROVE  MatchInv'
<1>1. "refresh" \in Task /\ "auto" \in Task
  BY DEF Task, OnDemand
<1>2. PICK k \in [Task -> States] : RequestAnalysis(k)
  <2>1. CASE Rearm(tk)
    <3>1. Spawned(tk, "auto") \in [Task -> States]
      BY <1>1 DEF Spawned, States
    <3> QED BY <2>1, <3>1 DEF Rearm
  <2> QED BY <2>1 DEF Refresh
<1>3. CASE engine' # None /\ ~closed
  <2>1. wanted' = TRUE /\ task' = Spawned(k, "refresh")
    BY <1>2, <1>3 DEF RequestAnalysis
  <2>2. task'["refresh"] # "idle"
    BY <1>1, <2>1 DEF Spawned
  <2> QED BY <2>1, <2>2 DEF MatchInv
<1>4. CASE ~(engine' # None /\ ~closed)
  BY <1>4 DEF MatchInv
<1> QED BY <1>3, <1>4

\* Whatever leaves what is wanted and what is searched.
LEMMA StillMatches ==
  ASSUME MatchInv, SamePlace, wanted' = wanted, crashed' = crashed, halted' = halted, failed' = failed,
         task'["refresh"] = "asking" <=> task["refresh"] = "asking",
         wanted /\ task["refresh"] # "idle" => task'["refresh"] # "idle",
         (task'["auto"] = "idle" <=> task["auto"] = "idle") \/ ~ShouldMove \/ ~ShouldMove' \/ halted,
         task["refresh"] = "asking" =>
           /\ work'.analyse = work.analyse /\ work'.engine = work.engine /\ work'.id = work.id
           /\ work'.version = work.version /\ work'.settings = work.settings,
         search' = search \/ (search' = NoSearch /\ (engine = None \/ search.engine # engine))
  PROVE  MatchInv'
<1> SUFFICES ASSUME engine # None, ~closed, ~halted, ~crashed PROVE MatchInv'
  BY DEF MatchInv, SamePlace
<1>1. (WantsAnalysis' <=> WantsAnalysis)
  BY SameWants
<1>2. task["refresh"] = "asking" /\ WorkMatches => WorkMatches'
  BY <1>1 DEF WorkMatches, SamePlace
<1>3. SearchMatches => SearchMatches'
  <2>1. CASE search' = search
    BY <1>1, <2>1 DEF SearchMatches, SamePlace
  <2>2. CASE search' = NoSearch /\ search.engine # engine
    BY <1>1, <2>2 DEF SearchMatches, SamePlace, NoSearch
  <2> QED BY <2>1, <2>2
<1> QED BY <1>2, <1>3 DEF MatchInv, SamePlace

LEMMA MessagesMatch ==
  ASSUME PlayInv, MatchInv, Message
  PROVE  MatchInv'
<1>1. /\ BoardsInv /\ FlagsInv /\ TasksInv /\ WorkInv /\ task \in [Task -> States]
      /\ "refresh" \in Task /\ "auto" \in Task
  BY ThePlay DEF TasksInv, States, Task, OnDemand
<1>2. CASE MsgPlay \/ MsgResign \/ MsgUndo \/ MsgNavigate
  <2>1. closed' = closed /\ (Rearm(task) \/ Refresh(task))
    BY <1>2 DEF MsgPlay, MsgResign, MsgUndo, MsgNavigate, Position, rest
  <2> QED BY <1>1, <2>1, RequestMatches
<1>3. CASE MsgLoad \/ MsgAnalysis \/ MsgPlayers \/ MsgParams
  <2>1. closed' = closed /\ (Rearm(task) \/ Refresh(task))
    BY <1>3 DEF MsgLoad, MsgAnalysis, MsgPlayers, MsgParams, rest
  <2> QED BY <1>1, <2>1, RequestMatches
<1>4. CASE MsgSelect \/ MsgDuplicate \/ MsgNew
  <2>1. closed' = closed /\ Rearm(task)
    BY <1>4 DEF MsgSelect, MsgDuplicate, MsgNew, Boards, rest
  <2> QED BY <1>1, <2>1, RequestMatches
<1>5. CASE MsgDelete
  <2>1. PICK i \in DOMAIN boards :
          \/ Rearm(task)
          \/ /\ Len(boards) > 1 /\ boards[i].id # active /\ boards' = Without(i)
             /\ epoch' = NextEpoch /\ Since("boards") /\ UNCHANGED <<active, halted, wanted, task>>
    BY <1>5, Zenon DEF MsgDelete
  <2>2. UNCHANGED <<players, analysisOn, settings, engine, playersEpoch, search, failed, crashed, closed,
                    scenario>>
    BY <1>5 DEF MsgDelete, Boards, rest
  <2>3. CASE Rearm(task)
    BY <1>1, <2>2, <2>3, RequestMatches
  <2>4. CASE /\ Len(boards) > 1 /\ boards[i].id # active /\ boards' = Without(i)
             /\ epoch' = NextEpoch /\ Since("boards") /\ UNCHANGED <<active, halted, wanted, task>>
    <3>1. BoardsInv' /\ (boards' = Without(i))
      BY <1>5, <2>4, DeleteKeeps DEF Kept, PlayInv
    <3> DEFINE n == Len(boards)
    <3>2. n \in Nat /\ i \in 1 .. n /\ DOMAIN boards = 1 .. n
      BY <1>1 DEF BoardsInv
    <3>3. /\ Without(i) \in Seq(BoardType) /\ Len(Without(i)) = n - 1
          /\ \A j \in 1 .. n - 1 : Without(i)[j] = IF j < i THEN boards[j] ELSE boards[j + 1]
      BY <1>1, WithoutIs
    <3>4. DOMAIN boards' = 1 .. n - 1
      BY <2>4, <3>3
    <3>5. PICK p \in 1 .. n : boards[p].id = active /\ Active = boards[p]
      BY <1>1, <3>2, ActiveIs
    <3>6. \E j \in 1 .. n - 1 : boards'[j] = boards[p]
      <4>1. p # i
        BY <2>4, <3>5
      <4>2. CASE p < i
        <5>1. p \in 1 .. n - 1
          BY <3>2, <4>2
        <5> QED BY <2>4, <3>3, <4>2, <5>1
      <4>3. CASE ~(p < i)
        <5>1. p - 1 \in 1 .. n - 1 /\ ~(p - 1 < i) /\ (p - 1) + 1 = p
          BY <3>2, <4>1, <4>3
        <5> QED BY <2>4, <3>3, <5>1
      <4> QED BY <4>2, <4>3
    <3>7. Active' = Active
      BY <2>4, <3>1, <3>4, <3>5, <3>6, ActiveAtNext
    <3>8. SamePlace
      BY <2>2, <2>4, <3>7 DEF SamePlace
    <3>9. EpochsMove
      BY <2>2, <2>4 DEF EpochsMove
    <3>10. task["refresh"] = "asking" =>
             /\ work'.analyse = work.analyse /\ work'.engine = work.engine /\ work'.id = work.id
             /\ work'.version = work.version /\ work'.settings = work.settings
      BY <1>1, <3>9, SinceIs, Asking
    <3> QED BY <2>2, <2>4, <3>8, <3>10, StillMatches
  <2> QED BY <2>1, <2>3, <2>4
<1>6. CASE MsgGenmove \/ MsgRaw \/ MsgFinalScore
  <2>1. PICK t \in OnDemand : \E a : Demand(t, a)
    BY <1>6 DEF MsgGenmove, MsgRaw, MsgFinalScore, OnDemand
  <2>2. /\ UNCHANGED <<boards, active, players, analysisOn, settings, engine, halted, wanted, work, search,
                       failed, crashed, closed, scenario>>
        /\ task' = [task EXCEPT ![t] = "spawned"]
    BY <2>1 DEF Demand, content, epochs, rest
  <2>3. task'["refresh"] = task["refresh"] /\ task'["auto"] = task["auto"]
    BY <1>1, <2>2 DEF OnDemand
  <2>4. SamePlace
    BY <2>2, SameBoards
  <2> QED BY <2>2, <2>3, <2>4, StillMatches
<1> QED BY <1>2, <1>3, <1>4, <1>5, <1>6 DEF Message

LEMMA EngineEventsMatch ==
  ASSUME PlayInv, MatchInv, EngineEvent
  PROVE  MatchInv'
<1>1. task \in [Task -> States]
  BY ThePlay DEF TasksInv, States
<1>2. CASE EngineUp
  <2>1. closed' = closed /\ Rearm(task)
    BY <1>2 DEF EngineUp, rest
  <2> QED BY <1>1, <2>1, RequestMatches
<1>3. CASE EngineReleased \/ EngineGone \/ Aclose
  <2>1. engine' = None
    BY <1>3 DEF EngineReleased, EngineGone, Aclose, Detach, Close
  <2> QED BY <2>1 DEF MatchInv
<1>4. CASE CutShort
  <2>1. closed' /\ closed' = closed
    BY <1>4 DEF CutShort, rest
  <2> QED BY <2>1 DEF MatchInv
<1> QED BY <1>2, <1>3, <1>4 DEF EngineEvent

LEMMA StartMatches ==
  ASSUME PlayInv, MatchInv, NEW t \in Task, TaskStart(t)
  PROVE  MatchInv'
<1>1. UNCHANGED <<boards, active, players, analysisOn, settings, engine, halted, wanted, work, search, failed,
                  crashed, closed, scenario>>
  BY DEF TaskStart, content, epochs, rest
<1>2. SamePlace /\ task \in [Task -> States] /\ "refresh" \in Task /\ "auto" \in Task
  BY <1>1, SameBoards, ThePlay DEF TasksInv, States, Task, OnDemand
<1>3. CASE t = "auto" /\ (halted \/ ~ShouldMove) /\ task' = [task EXCEPT ![t] = "idle"]
  <2>1. task'["refresh"] = task["refresh"]
    BY <1>2, <1>3
  <2> QED BY <1>1, <1>2, <1>3, <2>1, StillMatches
<1>4. CASE task' = [task EXCEPT ![t] = "waiting"]
  <2>1. /\ task'["refresh"] = "asking" <=> task["refresh"] = "asking"
        /\ task["refresh"] # "idle" => task'["refresh"] # "idle"
        /\ task'["auto"] = "idle" <=> task["auto"] = "idle"
    BY <1>2, <1>4 DEF TaskStart
  <2> QED BY <1>1, <1>2, <2>1, StillMatches
<1> QED BY <1>3, <1>4 DEF TaskStart

LEMMA BeginMatches ==
  ASSUME PlayInv, MatchInv, NEW t \in Task, Begin(t)
  PROVE  MatchInv'
<1>1. /\ BoardsInv /\ FlagsInv /\ TasksInv /\ WorkInv
      /\ task \in [Task -> States] /\ "refresh" \in Task /\ "auto" \in Task
  BY ThePlay DEF TasksInv, States, Task, OnDemand
<1>2. /\ UNCHANGED <<boards, active, players, analysisOn, settings, engine, halted, search, failed,
                     crashed, closed, scenario>>
      /\ Holds(t) /\ task[t] = "waiting" /\ wanted' = (wanted /\ t # "refresh")
  BY DEF Begin, content, epochs, rest
<1>3. SamePlace
  BY <1>2, SameBoards
<1>4. task["refresh"] # "asking"
  BY <1>1, <1>2, HeadAlone
<1>5. CASE t # "refresh"
  <2>1. wanted' = wanted
    BY <1>1, <1>2, <1>5 DEF FlagsInv
  <2>2. /\ \A u \in Task : u # t => task'[u] = task[u]
        /\ \/ Declines(t) /\ task'[t] = "idle"
           \/ ~Declines(t) /\ task'[t] = "asking"
    BY <1>1 DEF Begin
  <2>3. task'["refresh"] = task["refresh"]
    BY <1>1, <1>5, <2>2
  <2>4. (task'["auto"] = "idle" <=> task["auto"] = "idle") \/ ~ShouldMove \/ halted
    <3>1. CASE t = "auto" /\ Declines(t)
      <4>1. engine = None \/ closed \/ halted \/ ~ShouldMove
        BY <3>1 DEF Declines
      <4> QED BY <4>1 DEF ShouldMove
    <3>2. CASE ~(t = "auto" /\ Declines(t))
      BY <1>1, <1>2, <2>2, <3>2
    <3> QED BY <3>1, <3>2
  <2> QED BY <1>2, <1>3, <1>4, <2>1, <2>3, <2>4, StillMatches
<1>6. CASE t = "refresh" /\ Declines(t)
  <2>1. ~wanted \/ engine = None \/ closed
    BY <1>6 DEF Declines
  <2>2. task' = [task EXCEPT ![t] = "idle"]
    BY <1>6 DEF Begin
  <2>3. task'["refresh"] = "idle" /\ task'["auto"] = task["auto"]
    BY <1>1, <1>6, <2>2
  <2>4. CASE ~wanted
    <3>1. wanted' = wanted
      BY <1>1, <1>2, <2>4 DEF FlagsInv
    <3> QED BY <1>2, <1>3, <1>4, <2>3, <2>4, <3>1, StillMatches
  <2>5. CASE engine = None \/ closed
    BY <1>2, <2>5 DEF MatchInv
  <2> QED BY <2>1, <2>4, <2>5
<1>7. CASE t = "refresh" /\ ~Declines(t)
  <2>1. /\ task' = [task EXCEPT ![t] = "asking"]
        /\ work' = [Asked(t) EXCEPT !.analyse = WantsAnalysis]
    BY <1>7 DEF Begin
  <2>2. task'["refresh"] = "asking" /\ task'["auto"] = task["auto"]
    BY <1>1, <1>7, <2>1
  <2>3. /\ work'.analyse = WantsAnalysis /\ work'.engine = engine /\ work'.id = active
        /\ work'.version = Active.version /\ work'.settings = settings
    BY <2>1 DEF Asked
  <2>4. WantsAnalysis' <=> WantsAnalysis
    BY <1>3, <2>2, SameWants
  <2>5. WorkMatches'
    BY <1>2, <1>3, <2>3, <2>4 DEF WorkMatches, SamePlace
  <2> QED BY <2>2, <2>5 DEF MatchInv
<1> QED BY <1>5, <1>6, <1>7

\* An answer of an engine that is no longer the space's.
LEMMA OldAnswerMatches ==
  ASSUME PlayInv, MatchInv, NEW t \in Task, t # "refresh", task[t] = "asking",
         UNCHANGED <<boards, active, players, analysisOn, settings, engine, halted, wanted, failed, crashed,
                     closed, scenario>>,
         engine # work.engine, Searched, task' \in [Task -> States],
         \A u \in Task : u # t => task'[u] = task[u],
         t = "auto" /\ task'[t] = "idle" => halted \/ ~ShouldMove'
  PROVE  MatchInv'
<1>1. BoardsInv /\ FlagsInv /\ TasksInv /\ WorkInv /\ "refresh" \in Task /\ "auto" \in Task
  BY ThePlay DEF Task, OnDemand
<1>2. SamePlace
  BY SameBoards
<1>3. task["refresh"] # "asking" /\ task'["refresh"] = task["refresh"]
  BY <1>1, Asking, HeadAlone
<1>4. search' = search \/ (search' = NoSearch /\ search.engine # engine)
  BY DEF Searched
<1>5. (task'["auto"] = "idle" <=> task["auto"] = "idle") \/ ~ShouldMove' \/ halted
  BY <1>1
<1> QED BY <1>2, <1>3, <1>4, <1>5, StillMatches

LEMMA AnswersMatch ==
  ASSUME PlayInv, MatchInv, NEW t \in Task, Answer(t)
  PROVE  MatchInv'
<1>1. /\ BoardsInv /\ FlagsInv /\ TasksInv /\ WorkInv /\ task \in [Task -> States]
      /\ Ended(t) \in [Task -> States] /\ [task EXCEPT ![t] = "waiting"] \in [Task -> States]
  BY ThePlay, EndedIs DEF TasksInv, States
<1> DEFINE again == t = "auto" /\ LoopsAuto
           after == [task EXCEPT ![t] = IF again THEN "waiting" ELSE "idle"]
<1>2. after \in [Task -> States]
  <2>1. after = IF again THEN [task EXCEPT ![t] = "waiting"] ELSE Ended(t)
    BY DEF Ended
  <2> HIDE DEF after
  <2> QED BY <1>1, <2>1
<1>3. closed' = closed
  BY DEF Answer, MoveOfOldEngine, MoveFailed, MoveStale, MovePlayed, MoveAnswered, rest
<1>4. CASE MoveOfOldEngine(t)
  <2>1. /\ t \in Moving /\ task[t] = "asking" /\ Searched /\ engine # work.engine
        /\ UNCHANGED <<boards, active, players, analysisOn, settings, engine, failed, crashed, closed,
                       scenario>>
        /\ halted' = halted /\ wanted' = wanted /\ task' = after
    BY <1>4 DEF MoveOfOldEngine, MoveAnswered, MoveEnds, rest
  <2>2. \A u \in Task : u # t => task'[u] = task[u]
    BY <1>1, <2>1
  <2>3. t = "auto" /\ task'[t] = "idle" => halted \/ ~ShouldMove'
    <3>1. task'[t] = IF again THEN "waiting" ELSE "idle"
      BY <1>1, <2>1
    <3> QED BY <3>1 DEF LoopsAuto
  <2>4. t # "refresh"
    BY <2>1 DEF Moving
  <2> HIDE DEF after
  <2> QED BY <1>2, <2>1, <2>2, <2>3, <2>4, OldAnswerMatches
<1>5. CASE MoveFailed(t) \/ MoveStale(t) \/ MovePlayed(t)
  <2>1. \/ RequestAnalysis(Ended(t)) \/ Rearm(Ended(t)) \/ RequestAnalysis(after)
    BY <1>5 DEF MoveFailed, MoveStale, MovePlayed, MoveEnds
  <2> HIDE DEF after
  <2> QED BY <1>1, <1>2, <1>3, <2>1, RequestMatches
<1> QED BY <1>4, <1>5 DEF Answer

LEMMA CommandsMatch ==
  ASSUME PlayInv, MatchInv, RawAnswered \/ ScoreAnswered
  PROVE  MatchInv'
<1>1. PICK t \in {"raw", "final_score"} : CommandAnswered(t)
  BY DEF RawAnswered, ScoreAnswered
<1>2. t \in Task /\ t # "refresh" /\ t # "auto"
  BY DEF Task, OnDemand
<1>3. BoardsInv /\ TasksInv /\ Ended(t) \in [Task -> States] /\ task \in [Task -> States]
  BY <1>2, ThePlay, EndedIs DEF TasksInv, States
<1>4. /\ task[t] = "asking" /\ Searched
      /\ UNCHANGED <<active, players, analysisOn, settings, engine, halted, failed, crashed, closed,
                     scenario>>
  BY <1>1 DEF CommandAnswered, rest
<1>5. CASE engine = work.engine
  <2>1. RequestAnalysis(Ended(t))
    BY <1>1, <1>5 DEF CommandAnswered
  <2> QED BY <1>3, <1>4, <2>1, RequestMatches
<1>6. CASE engine # work.engine
  <2>1. task' = Ended(t) /\ wanted' = wanted
    BY <1>1, <1>6 DEF CommandAnswered
  <2>2. boards' = boards
    BY <1>6 DEF RawAnswered, ScoreAnswered, MayScore
  <2>3. \A u \in Task : u # t => task'[u] = task[u]
    BY <1>3, <2>1 DEF Ended
  <2> QED BY <1>2, <1>3, <1>4, <1>6, <2>1, <2>2, <2>3, OldAnswerMatches
<1> QED BY <1>5, <1>6

LEMMA RefreshMatches ==
  ASSUME PlayInv, MatchInv, RefreshAnswered
  PROVE  MatchInv'
<1>1. /\ BoardsInv /\ TasksInv /\ WorkInv /\ "refresh" \in Task /\ "auto" \in Task
      /\ task \in [Task -> States]
  BY ThePlay DEF TasksInv, States, Task, OnDemand
<1>2. /\ task["refresh"] = "asking" /\ RefreshEnds /\ wanted' = wanted
      /\ UNCHANGED <<boards, active, players, analysisOn, settings, engine, halted, crashed, closed, scenario>>
  BY DEF RefreshAnswered, RefreshEnds, content, epochs, rest
<1>3. SamePlace
  BY <1>2, SameBoards
<1>4. work # NoWork
  BY <1>1, <1>2, Asking
<1>5. CASE wanted
  <2>1. task' = [task EXCEPT !["refresh"] = "waiting"]
    BY <1>2, <1>5 DEF RefreshEnds
  <2>2. task'["refresh"] # "idle"
    BY <1>1, <2>1
  <2> QED BY <1>2, <1>5, <2>2 DEF MatchInv
<1>6. CASE ~wanted
  <2> SUFFICES ASSUME engine # None, ~closed, ~halted, ~crashed PROVE MatchInv'
    BY <1>2 DEF MatchInv
  <2>1. task' = Ended("refresh")
    BY <1>2, <1>6 DEF RefreshEnds
  <2>2. task'["refresh"] = "idle" /\ task'["auto"] = task["auto"]
    BY <1>1, <2>1 DEF Ended
  <2>3. WorkMatches
    BY <1>2, <1>6 DEF MatchInv
  <2>4. WantsAnalysis' <=> WantsAnalysis
    BY <1>3, <2>2, SameWants
  <2>5. CASE WantsAnalysis
    <3>1. /\ work.analyse /\ work.engine = engine /\ work.id = active
          /\ work.version = Active.version /\ work.settings = settings
      BY <2>3, <2>5 DEF WorkMatches
    <3>2. work.game = Active.game
      <4>1. Index(active) \in DOMAIN boards /\ Active = boards[Index(active)] /\ Active.id = active
        BY <1>1, ActiveIs
      <4> QED BY <1>1, <1>4, <3>1, <4>1 DEF WorkInv
    <3>3. \/ search' = [engine |-> engine, id |-> active, version |-> Active.version,
                        line |-> Line(Active.game), settings |-> settings]
          \/ failed'
      BY <3>1, <3>2 DEF RefreshAnswered
    <3>4. failed' \/ SearchMatches'
      BY <1>2, <1>3, <2>4, <2>5, <3>3 DEF SearchMatches, SamePlace
    <3> QED BY <2>2, <3>4 DEF MatchInv
  <2>6. CASE ~WantsAnalysis
    <3>1. search' = NoSearch
      BY <2>3, <2>6 DEF RefreshAnswered, WorkMatches
    <3>2. SearchMatches'
      BY <1>2, <2>4, <2>6, <3>1 DEF SearchMatches, NoSearch
    <3> QED BY <2>2, <3>2 DEF MatchInv
  <2> QED BY <2>5, <2>6
<1> QED BY <1>5, <1>6

LEMMA RestMatches ==
  ASSUME PlayInv, MatchInv,
         \/ \E t \in Task : TaskCrashes(t)
         \/ Unexpected \/ Report \/ UNCHANGED vars
  PROVE  MatchInv'
<1>1. BoardsInv /\ FlagsInv /\ TasksInv /\ WorkInv
  BY ThePlay
<1>2. CASE \E t \in Task : TaskCrashes(t)
  <2>1. crashed'
    BY <1>2 DEF TaskCrashes
  <2> QED BY <2>1 DEF MatchInv
<1>3. CASE Unexpected
  <2>1. closed' = closed /\ (closed \/ halted')
    BY <1>3 DEF Unexpected
  <2> QED BY <2>1 DEF MatchInv
<1>4. CASE Report
  <2>1. PICK s, l : Reported(s, l)
    BY <1>4 DEF Report
  <2>2. /\ UNCHANGED <<active, players, analysisOn, settings, engine, halted, wanted, task, work, search,
                       failed, crashed, closed, scenario>>
        /\ Exists(s.id) /\ boards' = [boards EXCEPT ![Index(s.id)].figures = [line |-> l, version |-> s.version]]
    BY <2>1 DEF Reported, SinkAccepts, tasks, rest
  <2>3. BoardsInv'
    BY <1>4, ReportKeeps DEF Kept, PlayInv
  <2>4. Active'.game = Active.game /\ Active'.version = Active.version
    <3>1. Index(active) \in DOMAIN boards /\ Active = boards[Index(active)] /\ Active.id = active
      BY <1>1, ActiveIs
    <3> DEFINE i == Index(active)
    <3>2. boards[i] \in BoardType
      BY <1>1, <3>1, BoardAt
    <3> HIDE DEF i
    <3>3. DOMAIN boards' = DOMAIN boards
      BY <2>2
    <3>4. /\ boards'[i].game = boards[i].game /\ boards'[i].version = boards[i].version
          /\ boards'[i].id = boards[i].id
      <4>1. CASE i = Index(s.id)
        <5>1. boards'[i] = [boards[i] EXCEPT !.figures = [line |-> l, version |-> s.version]]
          BY <2>2, <3>1, <4>1 DEF i
        <5> QED BY <3>2, <5>1 DEF BoardType
      <4>2. CASE i # Index(s.id)
        BY <2>2, <3>1, <4>2 DEF i
      <4> QED BY <4>1, <4>2
    <3>5. Active' = boards'[i]
      BY <2>2, <2>3, <3>1, <3>3, <3>4, ActiveAtNext DEF i
    <3> QED BY <3>1, <3>4, <3>5 DEF i
  <2>5. SamePlace
    BY <2>2, <2>4 DEF SamePlace
  <2> QED BY <2>2, <2>5, StillMatches
<1>5. CASE UNCHANGED vars
  <2>1. UNCHANGED <<boards, active, players, analysisOn, settings, engine, halted, wanted, task, work, search,
                    failed, crashed, closed, scenario>>
    BY <1>5 DEF vars, content, epochs, tasks, rest
  <2>2. SamePlace
    BY <2>1, SameBoards
  <2> QED BY <2>1, <2>2, StillMatches
<1> QED BY <1>2, <1>3, <1>4, <1>5

\* No request for analysis is lost (_request_analysis, _refresh_analysis): when no task is left to
\* run, the engine searches the active board's position with the latest parameters, or nothing,
\* just as the space wants, however messages, moves, lost engines and passes interleaved.
THEOREM AnalysisFollows == Spec => []AnalysisMatches
<1>1. Init => MatchInv
  BY DEF Init, MatchInv
<1>2. PlayInv /\ MatchInv /\ [Next]_vars => MatchInv'
  <2> SUFFICES ASSUME PlayInv, MatchInv, [Next]_vars PROVE MatchInv'
    OBVIOUS
  <2>1. CASE CommandDone
    BY <2>1, CommandsMatch, RefreshMatches DEF CommandDone
  <2> QED BY <2>1, MessagesMatch, EngineEventsMatch, StartMatches, BeginMatches, AnswersMatch, RestMatches
          DEF Next
<1>3. MatchInv => AnalysisMatches
  BY DEF MatchInv, AnalysisMatches, Quiet, SearchMatches, Task, OnDemand
<1> QED BY <1>1, <1>2, <1>3, PlayHolds, PTL DEF Spec
=============================================================================
