------------------------------ MODULE GtpClient ------------------------------
(***************************************************************************)
(* The GTP client (engine/gtp.py): numbered commands answered one at a     *)
(* time under a lock, an analysis stream that any command first stops, and *)
(* a mirror of the engine's board that says which commands bring it to a   *)
(* position.                                                               *)
(*                                                                         *)
(* A reply is one line here, and so are the commands "name" and "version", *)
(* and "boardsize", "clear_board" and "komi", which are treated alike.     *)
(* Which options an analyze command asks for is left out: an attempt that  *)
(* is rejected is followed by another, as long as there is one, or by none *)
(* (fewer options were asked for, or are known to be missing).             *)
(***************************************************************************)
EXTENDS EngineClient, SequencesExt

CONSTANTS
  Keys,       \* what sync compares first: size, komi, rules and setup stones
  Positions,  \* what the session asks about: [key, moves]
  Vertices,   \* the moves
  Skills,     \* the command lists engines answer with
  Attempts,   \* how often an analyze command is tried with fewer options (4)
  MaxUndo,    \* sync undoes up to this many moves (3), then resets
  QueueLines, \* _QUEUE_LINES (16): what the reader queues ahead of whoever reads
  MaxGame     \* bound: moves on the engine's board

ASSUME PositionsAssumption == Positions \subseteq [key : Keys, moves : Seq(Vertices)]
ASSUME MaxUndoAssumption   == MaxUndo \in Nat
ASSUME QueueAssumption     == QueueLines \in Nat \ {0}

Callers == {"caller", "closer"}
NoKey   == "noKey"
NoBoard == [key |-> NoKey, moves |-> <<>>]
NoJob   == [op |-> "none", phase |-> "none", pos |-> NoBoard, tried |-> 0]
Ops     == {"genmove", "genmove_analyze", "start", "stop", "raw", "final_score"}

\* no setting is the empty mirror's, and no vertex is another word of an engine's answer
ASSUME KeysAssumption     == NoKey \notin Keys
ASSUME VerticesAssumption == {"resign", "junk", "none"} \cap Vertices = {}

VARIABLES
  skills,    \* _commands
  mirror,    \* _state and _moves
  job,       \* the session's call: [op, phase, pos, tried]
  lock,      \* _lock: who holds it
  stopLock,  \* _stop_lock: who holds it
  stream,    \* the stream task: "none", "reading", "ended"
  slot,      \* _stream_task refers to it
  lines,     \* the lines that came and are not read: [kind, ok, word, fresh]; one more than
             \* the queue holds is the one that the reader has in hand
  outbox,    \* the commands the engine has not read: [word, move, fresh]
  board,     \* the engine's board
  engine,    \* the engine: "idle", "analysing", "searching"
  strayed    \* the engine answered a request for a move with something else

gtpVars == <<skills, mirror, job, lock, stopLock, stream, slot, lines, outbox,
             board, engine, strayed>>
locks   == <<lock, stopLock>>
stops   == <<stopLock, stream, slot>>
theirs  == <<lines, outbox, board, engine, strayed>>

GtpInit ==
  /\ skills \in Skills
  /\ mirror = NoBoard
  /\ job = [NoJob EXCEPT !.op = "connect", !.phase = "name"]
  /\ lock = "none"
  /\ stopLock = "none"
  /\ stream = "none"
  /\ slot = FALSE
  /\ lines = <<>>
  /\ outbox = <<>>
  /\ board \in {[key |-> k, moves |-> <<>>] : k \in Keys}
  /\ engine = "idle"
  /\ strayed = FALSE

\* Where a caller is.  A caller has the lock while it asks or reads a search.
At(p)      == IF p = "caller" THEN at ELSE closer
GoTo(p, s) == IF p = "caller" THEN at' = s /\ UNCHANGED closer
                              ELSE closer' = s /\ UNCHANGED at

-----------------------------------------------------------------------------
(* Synchronising the board.                                                *)

Shared(a, b)  == Len(LongestCommonPrefix({a, b}))
Extra(m, pos) == Len(m.moves) - Shared(m.moves, pos.moves)

\* bug: a new setup with the same moves is taken for the board the engine has
NeedsReset_SameMoves(m, pos) ==
  \/ m.key = NoKey
  \/ Extra(m, pos) > MaxUndo
  \/ Extra(m, pos) > 0 /\ "undo" \notin skills

\* sync: another size, komi, rules or setup, or more to take back than it undoes
NeedsReset(m, pos) ==
  \/ m.key # pos.key
  \/ Extra(m, pos) > MaxUndo
  \/ Extra(m, pos) > 0 /\ "undo" \notin skills

\* A command, as [word, move, phase]: the phase of the call it is sent in.
Cmd(w, v, ph) == [word |-> w, move |-> v, phase |-> ph]

\* sync and _reset: the next command that brings the engine's board to the position
SyncCommand ==
  IF NeedsReset(mirror, job.pos) THEN Cmd("clear", "none", "clear")
  ELSE IF Extra(mirror, job.pos) > 0 THEN Cmd("undo", "none", "sync")
  ELSE Cmd("play", job.pos.moves[Len(mirror.moves) + 1], "sync")

Synced == /\ ~NeedsReset(mirror, job.pos)
          /\ Extra(mirror, job.pos) <= 0
          /\ Len(mirror.moves) >= Len(job.pos.moves)

Syncing == job.phase \in {"sync", "clear", "rules", "setup"}

NextCommand(p) ==
  IF p = "closer" THEN Cmd("quit", "none", "main")
  ELSE CASE job.phase \in {"name", "list", "param", "rules"} ->
              Cmd(job.phase, "none", job.phase)
         [] job.phase = "clear" -> Cmd("clear", "none", "clear")
         [] job.phase = "setup" -> Cmd("setup", job.pos.key, "setup")
         [] job.phase = "sync" /\ ~Synced -> SyncCommand
         [] OTHER -> Cmd(job.op, "none", "main")

\* The phase after an answered command.
NextPhase(c) ==
  CASE c.phase = "name"  -> "list"
    [] c.phase = "clear" -> IF "rules" \in skills THEN "rules" ELSE "setup"
    [] c.phase = "rules" -> "setup"
    [] OTHER             -> "sync"

\* The mirror after it: an undo, a play and the last command of a reset are recorded.
Recorded(c) ==
  CASE c.word = "setup" -> [key |-> c.move, moves |-> <<>>]
    [] c.word = "undo"  -> [mirror EXCEPT !.moves = Front(@)]
    [] c.word = "play"  -> [mirror EXCEPT !.moves = Append(@, c.move)]
    [] OTHER            -> mirror

\* bug: a resignation is recorded as a move
Played_Resign(v) == IF mirror.key = NoKey THEN mirror
                    ELSE [mirror EXCEPT !.moves = Append(@, v)]

\* _played
Played(v) == IF v = "resign" \/ mirror.key = NoKey THEN mirror
             ELSE [mirror EXCEPT !.moves = Append(@, v)]

-----------------------------------------------------------------------------
(* Calls.                                                                  *)

FirstPhase(op) ==
  CASE op \in {"genmove", "genmove_analyze", "start"} ->
         IF "param" \in skills THEN "param" ELSE "sync"
    [] op = "final_score" -> "sync"
    [] OTHER -> "main"

\* The session, holding its lock, makes a call; raw drops the mirror first.  An engine that
\* cannot stream a move is asked plainly; one that cannot analyse is only made to stop.
Begin ==
  /\ at = "idle"
  /\ \E op \in Ops, pos \in Positions :
       LET how == CASE op = "genmove_analyze" /\ op \notin skills -> "genmove"
                    [] op = "start" /\ "analyze" \notin skills -> "stop"
                    [] OTHER -> op
       IN /\ op \in {"stop", "raw"} => pos = CHOOSE q \in Positions : TRUE
          /\ job' = [op |-> how, phase |-> FirstPhase(how), pos |-> pos, tried |-> 0]
          /\ at' = "ready"
          /\ mirror' = IF op = "raw" THEN NoBoard ELSE mirror
  /\ UNCHANGED <<skills, locks, stream, slot, theirs, setting, conn, wire, closer, heard>>

\* What is left of the mirror when a call fails, and when raw ends.
Forgotten == IF Syncing \/ job.op = "raw" THEN NoBoard ELSE mirror

Unlock(p) == /\ lock' = IF lock = p THEN "none" ELSE lock
             /\ stopLock' = IF stopLock = p THEN "none" ELSE stopLock

\* The caller's call ends, with its result or an error.  A failed connect tears itself down.
CallEnds == /\ at' = "idle" /\ job' = NoJob /\ UNCHANGED closer

\* bug: a command that fails keeps the lock
Fails_Locked(p) ==
  /\ UNCHANGED locks
  /\ IF p = "caller"
     THEN CallEnds /\ mirror' = Forgotten
     ELSE closer' = "tearing" /\ UNCHANGED <<at, job, mirror>>

\* A caller's command fails: a call ends with the error, a close goes on to the teardown.
Fails(p) ==
  /\ Unlock(p)
  /\ IF p = "caller"
     THEN CallEnds /\ mirror' = Forgotten
     ELSE closer' = "tearing" /\ UNCHANGED <<at, job, mirror>>

\* What becomes of the connection: a connect that fails tears it down itself.
Leaves(p, becomes) ==
  IF p = "caller" /\ job.op = "connect" THEN TornDown ELSE becomes

Kept == UNCHANGED <<setting, heard, skills>>

-----------------------------------------------------------------------------
(* Stopping the stream: stop_analysis, before a call, a command or a close. *)

\* A stream that ended, or a connection that failed, is only forgotten; else the interrupt
\* is sent and the stop waits, with the stop lock.  What cannot be sent ends the stream.
Stop(p) ==
  /\ At(p) = "ready" /\ slot /\ stopLock = "none"
  /\ slot' = FALSE
  /\ \/ /\ stream = "ended" \/ failure # "none"
        /\ stream' = "none"
        /\ UNCHANGED <<at, closer, stopLock, outbox, conn, wire>>
     \/ /\ stream = "reading" /\ CanSend
        /\ outbox' = Append(outbox, [word |-> "interrupt", move |-> "none", fresh |-> TRUE])
        /\ stopLock' = p
        /\ GoTo(p, "stopping")
        /\ UNCHANGED <<stream, conn, wire>>
     \/ /\ stream = "reading" /\ failure = "none" /\ SendFails
        /\ stream' = "none"
        /\ UNCHANGED <<at, closer, stopLock, outbox>>
  /\ Kept /\ UNCHANGED <<mirror, job, lock, lines, board, engine, strayed>>

\* bug: past its bound the stop returns while the stream still reads
StopEnds_Abandoned(p) ==
  /\ At(p) = "stopping"
  /\ stopLock' = "none"
  /\ GoTo(p, "ready")
  /\ UNCHANGED <<stream, conn, wire>>
  /\ Kept /\ UNCHANGED <<mirror, job, lock, slot, theirs>>

\* The stream ended, or the bound is past: then it is cancelled and the client unusable.
StopEnds(p) ==
  /\ At(p) = "stopping"
  /\ stopLock' = "none"
  /\ GoTo(p, "ready")
  /\ stream' = "none"
  /\ \/ stream = "ended" /\ UNCHANGED <<conn, wire>>
     \/ stream = "reading" /\ Unusable /\ UNCHANGED wire
  /\ Kept /\ UNCHANGED <<mirror, job, lock, slot, theirs>>

\* stop_analysis was the whole call
StopReturns ==
  /\ at = "ready" /\ job.op = "stop" /\ ~slot /\ stopLock = "none"
  /\ CallEnds
  /\ Kept /\ UNCHANGED <<mirror, locks, stream, slot, theirs, conn, wire>>

-----------------------------------------------------------------------------
(* Commands.                                                               *)

Stale(s) == [i \in DOMAIN s |-> [s[i] EXCEPT !.fresh = FALSE]]

\* bug: a command is sent while a stream may still be running
Ready_Streaming(p) ==
  /\ At(p) = "ready" /\ lock = "none"
  /\ IF p = "caller" THEN job.op # "stop" ELSE CanSend

\* A caller may send: the stream is stopped and the lock free; quit needs a connection.
Ready(p) == /\ At(p) = "ready" /\ ~slot /\ stopLock = "none" /\ lock = "none"
            /\ IF p = "caller" THEN job.op # "stop" ELSE CanSend

Sends(c) ==
  /\ outbox' = Append(Stale(outbox), [word |-> c.word, move |-> c.move, fresh |-> TRUE])
  /\ lines' = Stale(lines)
  /\ UNCHANGED <<conn, wire>>

\* _command: the stream is stopped, the lock taken, the command written; _reset drops the
\* mirror first.
Command(p) ==
  /\ Ready(p)
  /\ LET c == NextCommand(p) IN
       \/ /\ CanSend
          /\ Sends(c)
          /\ lock' = p
          /\ GoTo(p, "asking")
          /\ mirror' = IF c.word = "clear" THEN NoBoard ELSE mirror
          /\ job' = IF p = "caller" THEN [job EXCEPT !.phase = c.phase] ELSE job
          /\ UNCHANGED stopLock
       \/ /\ Leaves(p, SendFails) /\ Fails(p) /\ UNCHANGED <<outbox, lines>>
  /\ Kept /\ UNCHANGED <<stream, slot, board, engine, strayed>>

Asking(p) == At(p) = "asking"

\* _head skips what is not the head of a reply.
Skip(p) ==
  /\ Asking(p) /\ lines # <<>> /\ Head(lines).kind \notin {"reply", "alien"}
  /\ lines' = Tail(lines)
  /\ Kept
  /\ UNCHANGED <<mirror, job, at, locks, stream, slot, outbox, board, engine, strayed,
                 conn, wire, closer>>

\* A reply with another id, or in JSON.
Mismatch(p) ==
  /\ Asking(p) /\ lines # <<>> /\ Head(lines).kind = "alien"
  /\ lines' = Tail(lines)
  /\ Leaves(p, Unusable /\ UNCHANGED wire)
  /\ Fails(p)
  /\ Kept /\ UNCHANGED <<stream, slot, outbox, board, engine, strayed>>

Reply(p) == Asking(p) /\ lines # <<>> /\ Head(lines).kind = "reply"

\* The caller's command in flight: nothing it depends on changes before the reply.
InFlight == NextCommand("caller")

\* The commands whose "?" the client takes for an answer.
Optional == {"name", "param", "rules"}

\* An answered command of a call that has more to do.
GoesOn ==
  /\ Reply("caller") /\ job.phase \notin {"list", "main"}
  /\ Head(lines).ok \/ job.phase \in Optional
  /\ lines' = Tail(lines)
  /\ mirror' = Recorded(InFlight)
  /\ job' = [job EXCEPT !.phase = NextPhase(InFlight)]
  /\ lock' = "none"
  /\ at' = "ready"
  /\ Kept
  /\ UNCHANGED <<stopLock, stream, slot, outbox, board, engine, strayed, conn, wire,
                 closer>>

\* A rejected command that the call, or the close, cannot do without.
Rejected(p) ==
  /\ Reply(p) /\ ~Head(lines).ok
  /\ IF p = "caller" THEN job.phase \notin Optional \cup {"list"} ELSE TRUE
  /\ lines' = Tail(lines)
  /\ Fails(p)
  /\ Kept
  /\ UNCHANGED <<stream, slot, outbox, board, engine, strayed, conn, wire>>

\* _open_stream: the next attempt, with fewer options
Retries ==
  /\ Reply("caller") /\ ~Head(lines).ok
  /\ job.phase = "main" /\ job.op \in {"start", "genmove_analyze"}
  /\ CanSend /\ job.tried + 1 < Attempts
  /\ job' = [job EXCEPT !.tried = @ + 1]
  /\ outbox' = Append(Stale(outbox), [word |-> InFlight.word, move |-> "none", fresh |-> TRUE])
  /\ lines' = Stale(Tail(lines))
  /\ Kept
  /\ UNCHANGED <<mirror, at, locks, stream, slot, board, engine, strayed, conn,
                 wire, closer>>

\* connect, at the reply to list_commands: without commands it tears itself down
Connected ==
  /\ Reply("caller") /\ job.phase = "list"
  /\ lines' = Tail(lines)
  /\ Unlock("caller")
  /\ IF Head(lines).ok THEN UNCHANGED <<conn, wire>> ELSE TornDown
  /\ CallEnds
  /\ Kept /\ UNCHANGED <<mirror, stream, slot, outbox, board, engine, strayed>>

\* The answer of the call's main command: a move, a stream, a search, text.
Answered ==
  /\ Reply("caller") /\ job.phase = "main" /\ Head(lines).ok
  /\ lines' = Tail(lines)
  /\ CASE job.op = "genmove" ->
            /\ Unlock("caller") /\ CallEnds
            /\ mirror' = IF Head(lines).word = "junk" THEN mirror ELSE Played(Head(lines).word)
            /\ UNCHANGED <<stream, slot>>
       [] job.op = "genmove_analyze" ->
            /\ at' = "reading"
            /\ UNCHANGED <<mirror, job, locks, stream, slot, closer>>
       [] job.op = "start" ->
            /\ Unlock("caller") /\ CallEnds
            /\ stream' = "reading"
            /\ slot' = TRUE
            /\ mirror' = mirror
       [] OTHER ->
            /\ Unlock("caller") /\ CallEnds
            /\ mirror' = Forgotten
            /\ UNCHANGED <<stream, slot>>
  /\ Kept /\ UNCHANGED <<outbox, board, engine, strayed, conn, wire>>

\* A line of the search; its last two, the move and the blank line, are one here.
SearchReads ==
  /\ at = "reading" /\ lines # <<>>
  /\ lines' = Tail(lines)
  /\ IF Head(lines).kind \in {"move", "end"}
     THEN /\ mirror' = IF Head(lines).word \in {"junk", "none"} THEN mirror
                       ELSE Played(Head(lines).word)
          /\ Unlock("caller") /\ CallEnds
     ELSE UNCHANGED <<mirror, job, locks, at, closer>>
  /\ Kept /\ UNCHANGED <<stream, slot, outbox, board, engine, strayed, conn, wire>>

\* bug: a command given up leaves the connection usable
TimesOut_Usable(p) ==
  /\ Asking(p) \/ (p = "caller" /\ at = "reading" /\ lines = <<>>)
  /\ Fails(p)
  /\ UNCHANGED <<conn, wire>>
  /\ Kept /\ UNCHANGED <<stream, slot, theirs>>

\* The deadline of the reply, or a search silent for its timeout.
TimesOut(p) ==
  /\ Asking(p) \/ (p = "caller" /\ at = "reading" /\ lines = <<>>)
  /\ Fails(p)
  /\ Leaves(p, Unusable /\ UNCHANGED wire)
  /\ Kept /\ UNCHANGED <<stream, slot, theirs>>

\* The connection failed and nothing is left to read.
Broken(p) ==
  /\ Asking(p) \/ (p = "caller" /\ at = "reading")
  /\ lines = <<>> /\ failure # "none"
  /\ Fails(p)
  /\ Leaves(p, UNCHANGED <<conn, wire>>)
  /\ Kept /\ UNCHANGED <<stream, slot, theirs>>

\* The session cancels its tasks when it shuts down: a command in flight leaves the client
\* unusable, a stop ends the stream.
Cancelled ==
  /\ "cancel" \in trouble /\ at # "idle"
  /\ stream' = IF at = "stopping" THEN "none" ELSE stream
  /\ Fails("caller")
  /\ Leaves("caller", /\ IF at \in {"asking", "reading"} THEN Unusable ELSE UNCHANGED conn
                      /\ UNCHANGED wire)
  /\ Kept /\ UNCHANGED <<slot, theirs>>

-----------------------------------------------------------------------------
(* The stream task and the close.                                          *)

\* _read_stream: a report is delivered; the blank line ends the task
StreamReads ==
  /\ stream = "reading" /\ lines # <<>>
  /\ lines' = Tail(lines)
  /\ stream' = IF Head(lines).kind = "end" THEN "ended" ELSE stream
  /\ heard' = IF Head(lines).kind # "report" THEN heard
              ELSE IF slot \/ stopLock # "none" THEN "current" ELSE "left"
  /\ UNCHANGED <<skills, mirror, job, at, locks, slot, outbox, board, engine, strayed,
                 setting, conn, wire, closer>>

StreamFails ==
  /\ stream = "reading" /\ lines = <<>> /\ failure # "none"
  /\ stream' = "ended"
  /\ UNCHANGED <<skills, mirror, job, locks, slot, theirs, baseVars>>

\* _read_loop waits in lines.put with a line in hand: it reads nothing, not even that the peer
\* hung up, until somebody takes a line.  (A reader that is cancelled drops its line; here the
\* line stays.)
Blocked == Len(lines) > QueueLines

\* The read loop sees the end of the connection.
Reading == ~Blocked /\ ReaderEnds

CloseStarts ==
  /\ "close" \in trouble /\ closer = "idle" /\ job.op # "connect"
  /\ closer' = "ready"
  /\ closing' = TRUE
  /\ Kept
  /\ UNCHANGED <<mirror, job, at, locks, stream, slot, theirs, failure, report, wire>>

\* quit is not sent on a connection that failed, or is given up while it waits for the lock;
\* its reply says nothing.
SkipsQuit ==
  /\ closer = "ready" /\ ~slot /\ stopLock = "none"
  /\ ~CanSend \/ lock # "none"
  /\ UNCHANGED <<lock, lines>>

QuitAnswered ==
  /\ Reply("closer") /\ Head(lines).ok
  /\ lock' = "none"
  /\ lines' = Tail(lines)

Quits ==
  /\ SkipsQuit \/ QuitAnswered
  /\ closer' = "tearing"
  /\ Kept
  /\ UNCHANGED <<mirror, job, at, stopLock, stream, slot, outbox, board, engine,
                 strayed, conn, wire>>

Closes ==
  /\ closer = "tearing"
  /\ closer' = "done"
  /\ TornDown
  /\ Kept /\ UNCHANGED <<mirror, job, at, locks, stream, slot, theirs>>

\* The session's CLOSE_TIMEOUT cancels the close, and aborts: what it was stopping, or the
\* stream it had not yet stopped, is cancelled with the reader.
CloseCutShort ==
  /\ closer \in {"ready", "stopping", "asking", "tearing"}
  /\ closer' = "done"
  /\ stream' = IF slot \/ closer = "stopping" THEN "none" ELSE stream
  /\ slot' = FALSE
  /\ Unlock("closer")
  /\ TornDown
  /\ Kept /\ UNCHANGED <<mirror, job, at, theirs>>

-----------------------------------------------------------------------------
(* The engine: it reads commands in order and answers when it likes.       *)

Line(c, k, ok, w) == [kind |-> k, ok |-> ok, word |-> w, fresh |-> c.fresh]
Arrives(line)     == lines' = Append(lines, line)

\* The engine can write a line that the reader takes (a bound: what it writes while the reader
\* is blocked stays in the socket, unread).
Room == peer /\ reader /\ ~Blocked

\* Boards an accepted command may lead to; a console command may do anything.
Moved(v)  == [board EXCEPT !.moves = Append(@, v)]
Free      == IF Len(board.moves) < MaxGame THEN Vertices ELSE {}
Obeyed(c) ==
  CASE c.word = "clear" -> {NoBoard}
    [] c.word = "setup" -> {[key |-> c.move, moves |-> <<>>]}
    [] c.word = "undo"  -> {[board EXCEPT !.moves = Front(@)]}
    [] c.word = "play"  -> {Moved(c.move)}
    [] c.word = "raw"   -> {board, NoBoard} \cup {Moved(v) : v \in Free}
    [] OTHER            -> {board}

\* Any line ends an analysis.
EngineStops ==
  /\ engine = "analysing" /\ Room /\ outbox # <<>>
  /\ engine' = "idle"
  /\ Arrives(Line([fresh |-> TRUE], "end", TRUE, "none"))
  /\ UNCHANGED <<outbox, board, strayed>>

\* A search ends with the move played, with something that is no move, or without one.
EngineMoves(c, kind) ==
  \/ \E v \in Free : board' = Moved(v) /\ strayed' = strayed /\ Arrives(Line(c, kind, TRUE, v))
  \/ Arrives(Line(c, kind, TRUE, "resign")) /\ UNCHANGED <<board, strayed>>
  \/ /\ "stray" \in trouble
     /\ Arrives(Line(c, kind, TRUE, "junk"))
     /\ board' \in {board} \cup {Moved(v) : v \in Free}
     /\ strayed' = TRUE

EngineAnswers ==
  /\ engine = "idle" /\ Room /\ outbox # <<>>
  /\ outbox' = Tail(outbox)
  /\ LET c == Head(outbox) IN
       IF c.word = "interrupt" THEN UNCHANGED <<lines, board, engine, strayed>>
       ELSE \/ /\ c.word = "genmove" /\ EngineMoves(c, "reply")
               /\ engine' = engine
            \/ /\ c.word # "genmove"
               /\ board' \in Obeyed(c)
               /\ engine' = CASE c.word = "start" -> "analysing"
                              [] c.word = "genmove_analyze" -> "searching"
                              [] OTHER -> engine
               /\ strayed' = strayed
               /\ Arrives(Line(c, "reply", TRUE, "none"))
            \/ /\ \/ Arrives(Line(c, "reply", FALSE, "none"))
                  \/ "stray" \in trouble /\ Arrives(Line(c, "alien", FALSE, "none"))
               /\ UNCHANGED <<board, engine, strayed>>

\* A report, or an end nobody asked for.
EngineStreams ==
  /\ Room
  /\ UNCHANGED outbox
  /\ \/ /\ engine # "idle"
        /\ Arrives(Line([fresh |-> TRUE], "report", TRUE, "none"))
        /\ UNCHANGED <<board, engine, strayed>>
     \/ /\ engine = "analysing"
        /\ engine' = "idle"
        /\ Arrives(Line([fresh |-> TRUE], "end", TRUE, "none"))
        /\ UNCHANGED <<board, strayed>>
     \/ /\ engine = "searching"
        /\ engine' = "idle"
        /\ EngineMoves([fresh |-> TRUE], "move")

Engine ==
  /\ EngineStops \/ EngineAnswers \/ EngineStreams
  /\ UNCHANGED <<skills, mirror, job, locks, stream, slot, baseVars>>

-----------------------------------------------------------------------------
GtpCall(p) ==
  \/ Stop(p) \/ StopEnds(p) \/ Command(p) \/ Skip(p) \/ Mismatch(p) \/ Rejected(p)
  \/ TimesOut(p) \/ Broken(p)

GtpCaller == GtpCall("caller") \/ StopReturns \/ GoesOn \/ Retries \/ Connected \/ Answered
             \/ SearchReads
GtpCloser == GtpCall("closer") \/ Quits \/ Closes
GtpTasks  == StreamReads \/ StreamFails
GtpWorld  == Begin \/ Cancelled \/ CloseStarts \/ CloseCutShort \/ Engine

GtpNext ==
  \/ GtpCaller \/ GtpCloser \/ GtpTasks \/ GtpWorld
  \/ (Report \/ HangsUp \/ Reading) /\ UNCHANGED gtpVars

GtpFair ==
  /\ WF_<<baseVars, gtpVars>>(protocol = "gtp" /\ GtpCaller)
  /\ WF_<<baseVars, gtpVars>>(protocol = "gtp" /\ GtpCloser)
  /\ WF_<<baseVars, gtpVars>>(protocol = "gtp" /\ GtpTasks)
  /\ \A p \in Callers : WF_<<baseVars, gtpVars>>(protocol = "gtp" /\ TimesOut(p))
  /\ WF_<<baseVars, gtpVars>>(protocol = "gtp" /\ (Report \/ Reading) /\ UNCHANGED gtpVars)

-----------------------------------------------------------------------------
GtpType ==
  /\ skills \in Skills
  /\ mirror.key \in Keys \cup {NoKey} /\ mirror.moves \in Seq(Vertices)
  /\ lock \in Callers \cup {"none"}
  /\ stopLock \in Callers \cup {"none"}
  /\ stream \in {"none", "reading", "ended"}
  /\ slot \in BOOLEAN
  /\ engine \in {"idle", "analysing", "searching"}
  /\ strayed \in BOOLEAN

\* While the client trusts its mirror and has no command in flight on a usable connection,
\* the engine's board is the mirror, whatever failed, was undone, rejected, cancelled or
\* typed into the console before; and a move, an analysis or a score is asked for when the
\* engine's board is the position of the call.  An engine that answers a request for a move
\* with something else is the exception (genmove keeps the mirror then).
MirrorIsTrue ==
  (failure = "none" /\ ~strayed) =>
    /\ (mirror.key # NoKey /\ lock = "none") => board = mirror
    /\ (/\ at = "asking" /\ job.phase = "main" /\ outbox # <<>>
        /\ job.op \in {"genmove", "genmove_analyze", "start", "final_score"}) => board = job.pos

\* One reader of the lines: while a command waits for its reply on a usable connection, no
\* stream task takes lines from the same queue (_stop_stream_locked, stop_analysis).
OneReader ==
  (failure = "none" /\ \E p \in Callers : Asking(p)) => stream # "reading"

\* A reply read for a command was made for it: no reply to a command that was given up is
\* ever taken for the next one's (an unusable connection sends nothing more).
OwnReply ==
  (\E p \in Callers : Asking(p)) =>
    \A i \in DOMAIN lines : lines[i].kind = "reply" => lines[i].fresh
=============================================================================
