----------------------------- MODULE EnginePlay -----------------------------
(***************************************************************************)
(* Engine moves and analysis in one space (session.py): the messages that  *)
(* change a board, the players or the engine, and the five kinds of task   *)
(* that do engine work behind the session lock.  The engine connection is  *)
(* only the slot of EngineLifecycle: it comes, is released, or is gone.    *)
(*                                                                         *)
(* A step is what the event loop runs between two awaits.  Everything the  *)
(* code only compares for equality (position versions, board ids, epochs,  *)
(* engines) is named by a number that no live reference holds, so the      *)
(* state space is finite without a bound on the behaviour.                 *)
(***************************************************************************)
EXTENDS Naturals, Sequences, FiniteSets

CONSTANTS
  MAX_BOARDS,  \* session.py's bound on the boards of a space
  Points,      \* where a move can be: a subset of {"stone", "pass"}
  Sides,       \* the colours that messages and files name
  Scenarios    \* [messages, moves]: the messages and events that a behaviour draws on,
               \* and the move limit its games have

ASSUME ScenariosAssumption  == \A s \in Scenarios : s.moves \in Nat \ {0}
ASSUME BoardLimitAssumption == MAX_BOARDS \in Nat \ {0}
ASSUME PointsAssumption     == Points \subseteq {"stone", "pass"}
ASSUME SidesAssumption      == Sides \subseteq {"B", "W"}

Colours == {"B", "W"}
Other(c) == IF c = "B" THEN "W" ELSE "B"
Moves(cs) == [colour : cs, point : Points]

\* What game.result says: nothing, a resignation, or a score.
Result == {"unknown", "resigned", "scored"}

OnDemand == {"genmove", "raw", "final_score"}
Task     == OnDemand \cup {"auto", "refresh"}
Moving   == {"auto", "genmove"}
None     == 0

VARIABLES
  boards,        \* a sequence of [id, game, version, figures]
  active,        \* active_board: an id
  players,       \* the colours set to engine
  analysisOn,    \* analysisEnabled
  settings,      \* the engine parameters a search is started with
  engine,        \* None, or a number that names the connection
  thinking,      \* shown to the tabs
  epoch,         \* _epoch
  playersEpoch,  \* _players_epoch
  halted,        \* _auto_halted
  wanted,        \* _analysis_wanted
  task,          \* [Task -> "idle", "spawned", "waiting" (for the lock), "asking"]
  arg,           \* what an on-demand task was given: a colour, or its engine
  lock,          \* _lock: the tasks in the order they asked for it; the head holds it
  work,          \* what the head asked the engine, and when (see Asked)
  search,        \* the analysis the engine last started: the binding of its sink
  failed,        \* the last analysis pass ended in an error
  crashed,       \* a task died unexpectedly; its done callback is to run
  closed,        \* _closed
  scenario       \* which of Scenarios this behaviour draws on

content == <<boards, active, players, analysisOn, settings>>
epochs  == <<epoch, playersEpoch>>
tasks   == <<task, arg, lock, work>>
rest    == <<crashed, closed, scenario>>
vars    == <<content, engine, thinking, epochs, halted, wanted, tasks, search, failed,
             rest>>

messages    == scenario.messages
MAX_MOVES   == scenario.moves  \* game.py's limit
MoveSeq(cs) == UNION {[1 .. n -> Moves(cs)] : n \in 0 .. MAX_MOVES}

NewGame   == [moves |-> <<>>, cursor |-> 0, result |-> "unknown"]
NoFigures == [line |-> <<>>, version |-> 0]
NoSearch  == [engine |-> None, id |-> 0, version |-> 0, line |-> <<>>, settings |-> FALSE]
NoWork    == [task |-> "none", engine |-> None, id |-> 0, version |-> 0, epoch |-> 0,
              playersEpoch |-> 0, mover |-> "none", game |-> NewGame, since |-> {},
              analyse |-> FALSE, settings |-> FALSE]
NoArg     == [genmove |-> "any", raw |-> None, final_score |-> None]

-----------------------------------------------------------------------------
(* Games (game.py).                                                        *)

Line(g)     == SubSeq(g.moves, 1, g.cursor)
AtEnd(g)    == g.cursor = Len(g.moves)
Truncate(g) == [g EXCEPT !.moves = Line(g)]

\* to_play: black plays first, then whoever did not play the last move
ToPlay(g) == IF g.cursor = 0 THEN "B" ELSE Other(g.moves[g.cursor].colour)

\* is_game_over: two passes before the cursor, or resigned with the cursor at the end
IsOver(g) ==
  \/ g.cursor >= 2 /\ \A i \in {g.cursor - 1, g.cursor} : g.moves[i].point = "pass"
  \/ AtEnd(g) /\ g.result = "resigned"

\* play, for a legal move
Play(g, m) == [moves |-> Append(Line(g), m), cursor |-> g.cursor + 1, result |-> "unknown"]

\* bug: undo at the start of the game
Undo_FromStart(g) ==
  [moves |-> SubSeq(g.moves, 1, g.cursor - 1), cursor |-> g.cursor - 1, result |-> "unknown"]

\* undo: the move before the cursor goes, and everything after it
Undo(g) == IF g.cursor = 0 THEN [g EXCEPT !.result = "unknown"]
           ELSE [moves |-> SubSeq(g.moves, 1, g.cursor - 1), cursor |-> g.cursor - 1,
                 result |-> "unknown"]

\* branch() and resign(), as an engine's resignation does
BranchResign(g) == [Truncate(g) EXCEPT !.result = "resigned"]

-----------------------------------------------------------------------------
(* Boards, versions and names.                                             *)

\* A number none of the finite set S of numbers holds.
Fresh(S) == CHOOSE n \in 1 .. Cardinality(S) + 1 : n \notin S

Index(id)  == CHOOSE i \in DOMAIN boards : boards[i].id = id
Exists(id) == \E i \in DOMAIN boards : boards[i].id = id
Board(id)  == boards[Index(id)]
Active     == Board(active)

\* every reference to a version, a board id, and an engine
HeldVersions == (UNION {{boards[i].version, boards[i].figures.version} : i \in DOMAIN boards})
                  \cup {work.version, search.version}
HeldIds      == {boards[i].id : i \in DOMAIN boards} \cup {work.id, search.id}
HeldEngines  == {engine, work.engine, search.engine, arg["raw"], arg["final_score"]}

\* next(_versions), _fresh_id and the next value of an epoch
FreshVersion   == Fresh(HeldVersions)
FreshId        == Fresh(HeldIds)
NextEpoch      == Fresh({work.epoch})
NextPlayersEpoch == Fresh({work.playersEpoch})

\* board id gets game g and a fresh version (BoardSlot.changed)
Changed(id, g) ==
  [boards EXCEPT ![Index(id)] = [@ EXCEPT !.game = g, !.version = FreshVersion]]

NewBoard(id) == [id |-> id, game |-> NewGame, version |-> FreshVersion, figures |-> NoFigures]

\* current_analysis
Shown(b) == b.figures # NoFigures /\ b.figures.version = b.version

-----------------------------------------------------------------------------
(* Arming the tasks.                                                       *)

\* _engine_should_move, for an engine that can generate moves
ShouldMove ==
  /\ engine # None /\ ~closed
  /\ AtEnd(Active.game) /\ ~IsOver(Active.game) /\ Active.game.cursor < MAX_MOVES
  /\ ToPlay(Active.game) \in players

AutoRunning == task["auto"] # "idle"

\* _wants_analysis
WantsAnalysis ==
  analysisOn /\ ~IsOver(Active.game) /\ ~(AutoRunning /\ ShouldMove)

\* the arguments once on-demand task t, if it is one, is over
Forget(t) == IF t \in OnDemand THEN [arg EXCEPT ![t] = NoArg[t]] ELSE arg

Spawned(tk, t) == IF tk[t] = "idle" THEN [tk EXCEPT ![t] = "spawned"] ELSE tk

\* _request_analysis, on the tasks tk
RequestAnalysis(tk) ==
  IF engine' # None /\ ~closed
    THEN wanted' = TRUE /\ task' = Spawned(tk, "refresh")
    ELSE wanted' = wanted /\ task' = tk

\* _request_analysis alone, after a handler that does not re-arm
Refresh(tk) == RequestAnalysis(tk) /\ UNCHANGED halted

\* _maybe_engine_move and then _request_analysis
Rearm(tk) ==
  /\ halted' = (halted /\ ~ShouldMove')
  /\ RequestAnalysis(IF ShouldMove' THEN Spawned(tk, "auto") ELSE tk)

\* The in-flight request remembers which epochs a message moved on (a history
\* field: no code reads it).
Since(what) ==
  work' = IF work = NoWork THEN work ELSE [work EXCEPT !.since = @ \cup {what}]

-----------------------------------------------------------------------------
(* The browser's messages.                                                 *)

\* bug: a handler that changes the game and keeps the token
ChangeGame_KeepsVersion(g) ==
  boards' = [boards EXCEPT ![Index(active)] = [@ EXCEPT !.game = g]]

\* the active board gets game g: slot.changed() of _position_changed
ChangeGame(g) == boards' = Changed(active, g)

Position(g) ==
  /\ ~closed
  /\ ChangeGame(g)
  /\ UNCHANGED <<active, players, analysisOn, settings, engine, thinking, epochs, arg,
                 lock, work, search, failed, rest>>

\* _msg_play and _msg_pass
MsgPlay == /\ Active.game.cursor < MAX_MOVES
           /\ \E m \in Moves(Sides) : Position(Play(Active.game, m))
           /\ Rearm(task)

MsgResign == Position([Active.game EXCEPT !.result = "resigned"]) /\ Rearm(task)

\* undo never re-arms the engine
MsgUndo == Position(Undo(Active.game)) /\ Refresh(task)

MsgNavigate ==
  /\ \E c \in 0 .. Len(Active.game.moves) : Position([Active.game EXCEPT !.cursor = c])
  /\ Rearm(task)

\* _msg_new_game, load_sgf and load_game: the stored analysis goes with the game
MsgLoad ==
  /\ ~closed
  /\ \E m \in MoveSeq(Sides), r \in Result :
       LET loaded == [moves |-> m, cursor |-> Len(m), result |-> r]
       IN  boards' = [boards EXCEPT ![Index(active)] =
                        [@ EXCEPT !.game = loaded, !.version = FreshVersion,
                                  !.figures = NoFigures]]
  /\ UNCHANGED <<active, players, analysisOn, settings, engine, thinking, epochs, arg,
                 lock, work, search, failed, rest>>
  /\ Rearm(task)

MsgAnalysis ==
  /\ ~closed
  /\ analysisOn' = ~analysisOn
  /\ boards' = IF analysisOn THEN [boards EXCEPT ![Index(active)].figures = NoFigures]
               ELSE boards
  /\ UNCHANGED <<active, players, settings, engine, thinking, epochs, arg, lock, work,
                 search, failed, rest>>
  /\ Refresh(task)

\* bug: only the new setting is asked when the answer arrives
ChangePlayers_NoEpoch(p) == players' = p /\ Since("players") /\ UNCHANGED playersEpoch

\* _msg_players's own part: a change of the players makes an automatic move stale
ChangePlayers(p) ==
  /\ players' = p
  /\ IF p = players THEN UNCHANGED <<playersEpoch, work>>
     ELSE playersEpoch' = NextPlayersEpoch /\ Since("players")

MsgPlayers ==
  /\ ~closed
  /\ \E p \in SUBSET Sides : ChangePlayers(p)
  /\ UNCHANGED <<boards, active, analysisOn, settings, engine, thinking, epoch, arg,
                 lock, search, failed, rest>>
  /\ Rearm(task)

\* _msg_engine_params and _msg_human_params
MsgParams ==
  /\ ~closed
  /\ settings' = ~settings
  /\ UNCHANGED <<boards, active, players, analysisOn, engine, thinking, epochs, arg,
                 lock, work, search, failed, rest>>
  /\ Refresh(task)

\* bug: a switch that leaves the move epoch alone
SwitchTo_NoEpoch(id) == active' = id /\ Since("boards") /\ UNCHANGED epoch

\* _switch_to's own part: an engine move still searching belongs to the board left
SwitchTo(id) == active' = id /\ Since("boards") /\ epoch' = NextEpoch

Boards ==
  /\ ~closed
  /\ UNCHANGED <<players, analysisOn, settings, engine, thinking, playersEpoch, arg,
                 lock, search, failed, rest>>

MsgSelect ==
  /\ Boards
  /\ \E i \in DOMAIN boards : SwitchTo(boards[i].id)
  /\ UNCHANGED boards
  /\ Rearm(task)

InsertAfter(i, b) == SubSeq(boards, 1, i) \o <<b>> \o SubSeq(boards, i + 1, Len(boards))

\* the copy keeps the version and the analysis of its source
MsgDuplicate ==
  /\ Boards
  /\ Len(boards) < MAX_BOARDS
  /\ \E i \in DOMAIN boards : boards' = InsertAfter(i, [boards[i] EXCEPT !.id = FreshId])
  /\ SwitchTo(FreshId)
  /\ Rearm(task)

MsgNew ==
  /\ Boards
  /\ Len(boards) < MAX_BOARDS
  /\ boards' = Append(boards, NewBoard(FreshId))
  /\ SwitchTo(FreshId)
  /\ Rearm(task)

\* bug: the last board keeps its version when it is reset in place
ResetLast_KeepsVersion ==
  boards' = [boards EXCEPT ![1] = [NewBoard(boards[1].id) EXCEPT !.version = boards[1].version]]

\* the last board is reset in place and keeps its id
ResetLast == boards' = <<NewBoard(boards[1].id)>>

Without(i) == SubSeq(boards, 1, i - 1) \o SubSeq(boards, i + 1, Len(boards))

\* deleting the active board switches to its neighbour; any other only moves the epoch
MsgDelete ==
  /\ Boards
  /\ \E i \in DOMAIN boards :
       \/ /\ Len(boards) = 1
          /\ ResetLast
          /\ SwitchTo(active)
          /\ Rearm(task)
       \/ /\ Len(boards) > 1 /\ boards[i].id = active
          /\ boards' = Without(i)
          /\ SwitchTo(boards'[IF i > Len(boards') THEN Len(boards') ELSE i].id)
          /\ Rearm(task)
       \/ /\ Len(boards) > 1 /\ boards[i].id # active
          /\ boards' = Without(i)
          /\ epoch' = NextEpoch
          /\ Since("boards")
          /\ UNCHANGED <<active, halted, wanted, task>>

\* _on_demand: one pending command per kind
Demand(t, a) ==
  /\ ~closed /\ engine # None
  /\ task[t] = "idle"
  /\ task' = [task EXCEPT ![t] = "spawned"]
  /\ arg' = [arg EXCEPT ![t] = a]
  /\ UNCHANGED <<content, engine, thinking, epochs, halted, wanted, lock, work, search,
                 failed, rest>>

\* with a colour, which must then be the side to move, or without
MsgGenmove == /\ Active.game.cursor < MAX_MOVES
              /\ \E c \in {"any", ToPlay(Active.game)} : Demand("genmove", c)
MsgRaw        == Demand("raw", engine)
MsgFinalScore == Demand("final_score", engine)

-----------------------------------------------------------------------------
(* The engine comes and goes (EngineLifecycle's steps, as this module sees *)
(* them).                                                                  *)

\* the end of _connect: adopted
EngineUp ==
  /\ ~closed /\ engine = None
  /\ engine' = Fresh(HeldEngines)
  /\ UNCHANGED <<content, thinking, epochs, arg, lock, work, search, failed, rest>>
  /\ Rearm(task)

\* _detach_engine, and the same part of _engine_lost
Detach == engine' = None /\ thinking' = FALSE

\* a connect releases the engine and keeps the settings for the next one
EngineReleased ==
  /\ ~closed /\ engine # None
  /\ Detach
  /\ UNCHANGED <<content, epochs, halted, wanted, tasks, search, failed, rest>>

\* a disconnect, a lost connection, a failed connect: _without_engine
EngineGone ==
  /\ ~closed
  /\ Detach
  /\ IF players = {} THEN UNCHANGED <<playersEpoch, work>>
     ELSE playersEpoch' = NextPlayersEpoch /\ Since("players")
  /\ players' = {}
  /\ analysisOn' = FALSE
  /\ boards' = [i \in DOMAIN boards |-> [boards[i] EXCEPT !.figures = NoFigures]]
  /\ UNCHANGED <<active, settings, epoch, halted, wanted, task, arg, lock, search,
                 failed, rest>>

\* aclose(): the session is closed and has no engine; its tasks may still run
Close == closed' = TRUE /\ engine' = None

Aclose ==
  /\ ~closed
  /\ Close
  /\ UNCHANGED <<content, thinking, epochs, halted, wanted, tasks, search, failed,
                 crashed, scenario>>

\* what still runs after two seconds is cancelled
CutShort ==
  /\ closed
  /\ \E t \in Task : task[t] # "idle"
  /\ task' = [t \in Task |-> "idle"]
  /\ lock' = <<>> /\ work' = NoWork
  /\ thinking' = FALSE
  /\ arg' = NoArg
  /\ UNCHANGED <<content, engine, epochs, halted, wanted, search, failed, rest>>

-----------------------------------------------------------------------------
(* A task asks for the lock, gets it, and asks the engine.                 *)

\* The first step of a spawned task.  Automatic play looks first whether it is
\* still wanted; the others wait for the lock at once.
TaskStart(t) ==
  /\ task[t] = "spawned"
  /\ IF t = "auto" /\ (halted \/ ~ShouldMove)
       THEN task' = [task EXCEPT ![t] = "idle"] /\ UNCHANGED lock
       ELSE task' = [task EXCEPT ![t] = "waiting"] /\ lock' = Append(lock, t)
  /\ UNCHANGED <<content, engine, thinking, epochs, halted, wanted, arg, work, search,
                 failed, rest>>

Holds(t) == lock # <<>> /\ Head(lock) = t

\* what is asked of the engine for task t: the position, and the token
Asked(t) ==
  [task |-> t, engine |-> engine, id |-> active, version |-> Active.version, epoch |-> epoch,
   playersEpoch |-> playersEpoch, mover |-> ToPlay(Active.game), game |-> Active.game,
   since |-> {}, analyse |-> analysisOn, settings |-> settings]

\* the task gives up before it asks the engine anything
Declines(t) ==
  CASE t = "auto"                   -> engine = None \/ closed \/ halted \/ ~ShouldMove
    [] t = "genmove"                -> \/ engine = None \/ closed
                                       \/ arg[t] \notin {"any", ToPlay(Active.game)}
    [] t \in {"raw", "final_score"} -> engine # arg[t]
    [] t = "refresh"                -> ~wanted \/ engine = None \/ closed

Begin(t) ==
  /\ Holds(t) /\ task[t] = "waiting"
  /\ wanted' = (wanted /\ t # "refresh")
  /\ IF Declines(t)
       THEN /\ task' = [task EXCEPT ![t] = "idle"]
            /\ lock' = Tail(lock)
            /\ arg' = Forget(t)
            /\ UNCHANGED <<work, thinking>>
       ELSE /\ task' = [task EXCEPT ![t] = "asking"]
            /\ work' = [Asked(t) EXCEPT !.analyse = IF t = "refresh" THEN WantsAnalysis ELSE @]
            /\ thinking' = (thinking \/ t \in Moving)
            /\ UNCHANGED <<lock, arg>>
  /\ UNCHANGED <<content, engine, epochs, halted, search, failed, rest>>

-----------------------------------------------------------------------------
(* The engine's answer: the lock is released and the answer takes effect.  *)

\* task t is done, or (automatic play, an analysis pass) goes round its loop
Ended(t) == [task EXCEPT ![t] = "idle"]
Release(t) == lock' = Tail(lock)

\* bug: a loop inside `async with', which keeps the lock from pass to pass
Again_KeepsLock(t) == UNCHANGED lock

\* asyncio.Lock wakes its waiters in the order they came: who asks again is last
Again(t) == lock' = Append(Tail(lock), t)

\* Automatic play after an answer: it looks again at once.
LoopsAuto == ~halted /\ ShouldMove'

\* _engine_move's check of its token: the move is still the one asked for
TokenHolds(t) ==
  /\ Exists(work.id) /\ work.id = active
  /\ Board(work.id).version = work.version
  /\ epoch = work.epoch
  /\ t = "auto" => playersEpoch = work.playersEpoch /\ work.mover \in players

\* The part every answer to an engine move shares: the task's own next step.
\* `requests' says whether the answer ends in _request_analysis.
MoveEnds(t, requests) ==
  LET again == t = "auto" /\ LoopsAuto
      after == [task EXCEPT ![t] = IF again THEN "waiting" ELSE "idle"]
  IN  /\ IF again THEN Again(t) ELSE Release(t)
      /\ UNCHANGED halted
      /\ IF requests THEN RequestAnalysis(after) ELSE task' = after /\ UNCHANGED wanted

\* The engine stopped its analysis before it looked for a move.
Searched == search' = IF search.engine = work.engine THEN NoSearch ELSE search

MoveAnswered(t) ==
  /\ t \in Moving /\ task[t] = "asking"
  /\ work' = NoWork /\ thinking' = FALSE
  /\ Searched
  /\ arg' = Forget(t)
  /\ UNCHANGED <<active, players, analysisOn, settings, engine, epochs, failed, rest>>

\* superseded or lost: neither a move nor a failure of that engine is news
MoveOfOldEngine(t) ==
  /\ MoveAnswered(t)
  /\ engine # work.engine
  /\ UNCHANGED boards
  /\ MoveEnds(t, FALSE)

\* the engine failed, or answered what cannot be played
MoveFailed(t) ==
  /\ MoveAnswered(t)
  /\ engine = work.engine
  /\ UNCHANGED <<boards, halted>>
  /\ Release(t)
  /\ RequestAnalysis(Ended(t))

MoveStale(t) ==
  /\ MoveAnswered(t)
  /\ engine = work.engine
  /\ ~TokenHolds(t)
  /\ UNCHANGED boards
  /\ MoveEnds(t, TRUE)

\* A move that was asked for re-arms automatic play; an automatic one goes on.
MovePlayed(t) ==
  /\ MoveAnswered(t)
  /\ engine = work.engine
  /\ TokenHolds(t)
  /\ LET g == Board(work.id).game
     IN  \/ g.cursor < MAX_MOVES
            /\ \E p \in Points :
                 boards' = Changed(work.id, Play(g, [colour |-> work.mover, point |-> p]))
         \/ boards' = Changed(work.id, BranchResign(g))
  /\ IF t = "genmove"
       THEN Release(t) /\ Rearm(Ended(t))
       ELSE MoveEnds(t, TRUE)

\* raw and final_score: the command went to the engine the message named
CommandAnswered(t) ==
  /\ t \in {"raw", "final_score"} /\ task[t] = "asking"
  /\ work' = NoWork
  /\ Searched
  /\ Release(t)
  /\ arg' = Forget(t)
  /\ UNCHANGED <<active, players, analysisOn, settings, engine, thinking, epochs,
                 halted, failed, rest>>
  /\ IF engine = work.engine THEN RequestAnalysis(Ended(t))
     ELSE task' = Ended(t) /\ UNCHANGED wanted

\* the console may have moved the engine's board: the active board's token changes
RawAnswered ==
  /\ CommandAnswered("raw")
  /\ boards' = IF engine = work.engine THEN Changed(active, Active.game) ELSE boards

\* bug: the score is recorded on whatever the board shows by now
MayScore_AnyPosition == engine = work.engine /\ Exists(work.id)

\* the same board at the same position
MayScore == /\ engine = work.engine
            /\ Exists(work.id) /\ Board(work.id).version = work.version

ScoreAnswered ==
  /\ CommandAnswered("final_score")
  /\ \/ /\ MayScore
        /\ \E r \in {"resigned", "scored"} :
             boards' = [boards EXCEPT ![Index(work.id)].game.result = r]
     \/ UNCHANGED boards  \* failed, no result, or stale

\* bug: the flag is cleared by the pass that just ran, and a request during it is lost
RefreshEnds_Forgets ==
  /\ wanted' = FALSE
  /\ Release("refresh")
  /\ task' = Ended("refresh")

\* the loop of _refresh_analysis: another pass if one was asked for meanwhile
RefreshEnds ==
  /\ UNCHANGED wanted
  /\ IF wanted THEN Again("refresh") /\ task' = [task EXCEPT !["refresh"] = "waiting"]
     ELSE Release("refresh") /\ task' = Ended("refresh")

RefreshAnswered ==
  /\ task["refresh"] = "asking"
  /\ work' = NoWork
  /\ \/ /\ work.analyse
        /\ search' = [engine |-> work.engine, id |-> work.id, version |-> work.version,
                      line |-> Line(work.game), settings |-> work.settings]
        /\ failed' = FALSE
     \/ search' = NoSearch /\ failed' = work.analyse  \* stopped, or the engine refused
  /\ RefreshEnds
  /\ UNCHANGED <<content, engine, thinking, epochs, halted, arg, rest>>

\* A task dies of an exception it does not expect; the lock is released.
TaskCrashes(t) ==
  /\ t \in {"refresh", "raw", "final_score"} /\ task[t] = "asking"
  /\ work' = NoWork
  /\ search' = NoSearch /\ failed' = TRUE
  /\ Release(t)
  /\ task' = Ended(t)
  /\ crashed' = TRUE
  /\ arg' = Forget(t)
  /\ UNCHANGED <<content, engine, thinking, epochs, halted, wanted, closed, scenario>>

\* _task_done and _unexpected
Unexpected ==
  /\ crashed
  /\ crashed' = FALSE
  /\ IF closed THEN UNCHANGED <<thinking, halted>> ELSE thinking' = FALSE /\ halted' = TRUE
  /\ UNCHANGED <<content, engine, epochs, wanted, tasks, search, failed, closed,
                 scenario>>

-----------------------------------------------------------------------------
(* Analysis reports: the sink of _analysis_sink, called by the engine's    *)
(* reader at any time.                                                     *)

SinkAccepts(s) ==
  /\ Exists(s.id) /\ Board(s.id).version = s.version
  /\ engine = s.engine /\ analysisOn /\ ~closed

Reported(s, line) ==
  /\ SinkAccepts(s)
  /\ boards' = [boards EXCEPT ![Index(s.id)].figures =
                  [line |-> line, version |-> s.version]]
  /\ UNCHANGED <<active, players, analysisOn, settings, engine, thinking, epochs,
                 halted, wanted, tasks, search, failed, rest>>

\* the running search, or a genmove that reports while it searches
Report == \/ search # NoSearch /\ Reported(search, search.line)
          \/ work.task \in Moving /\ work.analyse /\ Reported(work, Line(work.game))

-----------------------------------------------------------------------------

Init ==
  /\ boards = <<[id |-> 1, game |-> NewGame, version |-> 1, figures |-> NoFigures]>>
  /\ active = 1
  /\ players = {} /\ analysisOn = FALSE /\ settings = FALSE
  /\ engine = None /\ thinking = FALSE
  /\ epoch = 0 /\ playersEpoch = 0
  /\ halted = FALSE /\ wanted = FALSE
  /\ task = [t \in Task |-> "idle"]
  /\ arg = NoArg
  /\ lock = <<>> /\ work = NoWork
  /\ search = NoSearch /\ failed = FALSE /\ crashed = FALSE /\ closed = FALSE
  /\ scenario \in Scenarios

Message ==
  \/ "play" \in messages /\ MsgPlay
  \/ "resign" \in messages /\ MsgResign
  \/ "undo" \in messages /\ MsgUndo
  \/ "navigate" \in messages /\ MsgNavigate
  \/ "load" \in messages /\ MsgLoad
  \/ "analysis" \in messages /\ MsgAnalysis
  \/ "players" \in messages /\ MsgPlayers
  \/ "params" \in messages /\ MsgParams
  \/ "select" \in messages /\ MsgSelect
  \/ "duplicate" \in messages /\ MsgDuplicate
  \/ "new" \in messages /\ MsgNew
  \/ "delete" \in messages /\ MsgDelete
  \/ "genmove" \in messages /\ MsgGenmove
  \/ "raw" \in messages /\ MsgRaw
  \/ "final_score" \in messages /\ MsgFinalScore

EngineEvent ==
  \/ EngineUp
  \/ "release" \in messages /\ EngineReleased
  \/ "gone" \in messages /\ EngineGone
  \/ "close" \in messages /\ (Aclose \/ CutShort)

Answer(t) == MoveOfOldEngine(t) \/ MoveFailed(t) \/ MoveStale(t) \/ MovePlayed(t)

CommandDone == RawAnswered \/ ScoreAnswered \/ RefreshAnswered

Next ==
  \/ Message \/ EngineEvent
  \/ \E t \in Task : TaskStart(t) \/ Begin(t) \/ Answer(t)
  \/ CommandDone
  \/ "crash" \in messages /\ \E t \in Task : TaskCrashes(t)
  \/ Unexpected \/ Report

Spec == Init /\ [][Next]_vars

(***************************************************************************)
(* The loop runs what is ready, a waiter of the lock gets it in its turn,  *)
(* and an engine call answers or fails in bounded time (every read has a   *)
(* timeout).  No message, report or lost engine is forced.                 *)
(***************************************************************************)
FairSpec == /\ Spec
            /\ \A t \in Task : WF_vars(TaskStart(t)) /\ WF_vars(Begin(t)) /\ WF_vars(Answer(t))
            /\ WF_vars(CommandDone)

-----------------------------------------------------------------------------

GameType    == [moves : MoveSeq(Colours), cursor : 0 .. MAX_MOVES, result : Result]
FiguresType == [line : MoveSeq(Colours), version : Nat]
BoardType   == [id : Nat, game : GameType, version : Nat, figures : FiguresType]

TypeOK ==
  /\ boards \in Seq(BoardType) /\ Len(boards) \in 1 .. MAX_BOARDS
  /\ \A i, j \in DOMAIN boards : boards[i].id = boards[j].id => i = j
  /\ \A i \in DOMAIN boards : boards[i].game.cursor <= Len(boards[i].game.moves)
  /\ Exists(active)
  /\ players \subseteq Colours
  /\ {analysisOn, settings, thinking, halted, wanted, failed, crashed, closed} \subseteq BOOLEAN
  /\ {engine, epoch, playersEpoch} \subseteq Nat
  /\ task \in [Task -> {"idle", "spawned", "waiting", "asking"}]
  /\ {lock[i] : i \in DOMAIN lock} = {t \in Task : task[t] \in {"waiting", "asking"}}
  /\ \A i, j \in DOMAIN lock : lock[i] = lock[j] => i = j
  /\ \A t \in Task : task[t] = "asking" <=> work.task = t
  /\ work # NoWork => Holds(work.task)

(* Safety.                                                                 *)

\* A step in which the answer of an engine move changed a game.
EngineMoved == /\ work.task \in Moving /\ work'.task # work.task
               /\ \E i \in DOMAIN boards : boards'[i].game # boards[i].game

\* SPEC 3.2 "Stale work is discarded": an engine's move is played only by the engine
\* that searched, on the board and the very game it searched, with no board
\* switched to, duplicated or deleted meanwhile; an automatic one only if nobody
\* changed the players meanwhile; and a score is recorded only on the game scored.
StaleWorkDiscarded ==
  [][/\ EngineMoved => /\ engine = work.engine
                       /\ active = work.id /\ Active.game = work.game
                       /\ "boards" \notin work.since
                       /\ work.task = "auto" => "players" \notin work.since
     /\ work.task = "final_score" /\ work'.task # "final_score" =>
          \A i \in DOMAIN boards :
            boards'[i].game.result # boards[i].game.result
              => boards[i].id = work.id /\ Line(boards[i].game) = Line(work.game)]_vars

\* The figures that a board shows, its tile or an attaching tab, are of a search of
\* the position on that board: a version names one position, whatever boards are
\* duplicated, reset, loaded or deleted under a running search.
FiguresDescribeBoard ==
  \A i \in DOMAIN boards : Shown(boards[i]) => boards[i].figures.line = Line(boards[i].game)

Quiet == \A t \in Task : task[t] = "idle"

\* No request for analysis is lost, however requests, moves and passes interleave:
\* with no task left to run, the engine searches exactly what the space wants, the
\* active board's position with the latest parameters, or nothing.
AnalysisMatches ==
  Quiet /\ engine # None /\ ~closed /\ ~halted /\ ~crashed /\ ~failed
    => IF WantsAnalysis
         THEN search = [engine |-> engine, id |-> active, version |-> Active.version,
                        line |-> Line(Active.game), settings |-> settings]
         ELSE search.engine # engine

-----------------------------------------------------------------------------
(* Liveness.                                                               *)

\* Every command that was accepted ends, and every request for analysis is read by a
\* pass, even while the engine plays on and the users never stop changing the
\* position under it.
CommandsEnd ==
  /\ \A t \in OnDemand : task[t] # "idle" ~> task[t] = "idle"
  /\ wanted /\ engine # None ~> ~wanted \/ engine = None
=============================================================================
