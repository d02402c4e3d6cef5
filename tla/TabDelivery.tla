---------------------------- MODULE TabDelivery ----------------------------
(***************************************************************************)
(* How one browser tab follows its session (spaces.py, routes.py, app.js): *)
(* the session broadcasts frames, the hub puts them into the tab's bounded *)
(* queue, a sender task paced by the page's acknowledgements writes them   *)
(* to the socket, and the page applies them.  A tab that falls behind has  *)
(* its states superseded and its log lines folded; one that still cannot   *)
(* keep up, or whose socket drops, reconnects and is sent what a new tab   *)
(* is sent.                                                                *)
(*                                                                         *)
(* The session is reduced to what the page draws of it: its boards, each   *)
(* with the position it stands at (its cursor), the active one, and the    *)
(* log lines and errors it has sent, which are numbered.  The order of the *)
(* boards, which every state carries in full, is left out.                 *)
(***************************************************************************)
EXTENDS Naturals, Sequences, SequencesExt

CONSTANTS
  QueueSize,     \* the frames a tab's queue holds
  HistoryLines,  \* ATTACH_LOG_LINES: what a log_history carries
  PageLines,     \* the log lines the page keeps
  StateWindow,   \* STATE_WINDOW
  WireSize,      \* the frames the network holds before a send has to wait
  Workloads,     \* what a session may do (a bound): [edits, lines, errors]
  MaxBoards, MaxCursor, MaxLosses  \* bounds

\* Half a queue holds a state, an analysis and the thumbnails.
ASSUME QueueAssumption   == QueueSize \in Nat /\ QueueSize >= 6
ASSUME HistoryAssumption == HistoryLines \in Nat \ {0} /\ PageLines \in Nat
                            /\ PageLines >= HistoryLines
ASSUME WindowAssumption  == StateWindow \in Nat \ {0} /\ WireSize \in Nat
ASSUME WorkAssumption    == Workloads \subseteq [edits : Nat, lines : Nat, errors : Nat]
ASSUME BoundsAssumption  == {MaxBoards, MaxCursor, MaxLosses} \subseteq Nat /\ MaxBoards >= 1

Coalesced  == {"state", "analysis"}

\* bug: a fold drops errors too
Folded_TakesErrors == {"log", "log_history", "error"}

Folded     == {"log", "log_history"}
Folding    == Coalesced \cup Folded
NoDrawing  == MaxCursor + 1    \* a tile that was never drawn

VARIABLES
  session,   \* [cursor: a function on the boards, active, next: a board id,
             \* lines, errors]
  workload,  \* the changes, log lines and errors still to come (a bound)
  conn,      \* the socket: "closed", "open", or "overflowed" (to be closed)
  queue,     \* the tab's queue
  sender,    \* the sender task: "window", "get", "sending", or "none"
  unacked,   \* states_sent - states_acked
  paced,     \* acknowledging
  wire,      \* the frames sent and not yet applied
  acks,      \* the acknowledgements sent and not yet received
  page,      \* what the page shows: [boards, active, tiles, log, errors]
  losses,    \* the sockets lost so far (a bound)
  superseded,  \* a waiting state was superseded since this tab attached
  outdated,    \* the tiles the page had drawn, and that had changed, when this tab attached
               \* and that no state has drawn since
  errorsBefore \* the errors sent before this tab attached

tab  == <<queue, sender, unacked, paced>>
past == <<superseded, outdated, errorsBefore>>   \* history, for the properties only
vars == <<session, workload, conn, tab, wire, acks, page, losses, past>>

-----------------------------------------------------------------------------
(* The frames.                                                             *)

Boards(s) == DOMAIN s.cursor

\* state_message: every board by name, and the drawing of the active one only.
StateFrame(s) == [type |-> "state", boards |-> Boards(s), active |-> s.active,
                  drawn |-> s.cursor[s.active]]
Thumbnails(s) == [type |-> "thumbnails", drawn |-> s.cursor]
Analysis      == [type |-> "analysis"]
LogLine(n)    == [type |-> "log", line |-> n]
Error(n)      == [type |-> "error", error |-> n]

LastOf(seq, k) == SubSeq(seq, IF Len(seq) > k THEN Len(seq) - k + 1 ELSE 1, Len(seq))
LogHistory(s)  == [type |-> "log_history",
                   lines |-> LastOf([n \in 1 .. s.lines |-> n], HistoryLines)]

-----------------------------------------------------------------------------
(* The tab's queue.                                                        *)

Without(q, types) == LET kept[i \in 0 .. Len(q)] ==
                           IF i = 0 THEN <<>>
                           ELSE IF q[i].type \in types THEN kept[i - 1]
                           ELSE Append(kept[i - 1], q[i])
                     IN kept[Len(q)]
Waiting(q, types) == Len(q) - Len(Without(q, types))

\* bug: a newer frame does not supersede
Supersede_Keeps(q, f) == q

\* The first waiting frame of its type makes room for a newer one.
Supersede(q, f) ==
  IF f.type \in Coalesced THEN RemoveFirstMatch(q, LAMBDA g : g.type = f.type) ELSE q

\* bug: off by one: half a queue of frames that stay refuses the fold
CanFold_Strictly(q, f) == /\ f.type \in Folding
                          /\ Len(Without(q, Folded)) < QueueSize \div 2

\* A full queue takes f by folding its log lines into one history, if f is of a type that folds
\* and no more than half the queue would remain.
CanFold(q, f) == /\ f.type \in Folding
                 /\ Len(Without(q, Folded)) <= QueueSize \div 2

\* bug: the line that is in the history follows it
Fold_AddsLine(q, f) == Append(Append(Without(q, Folded), LogHistory(session')), f)

Fold(q, f)    == LET short == Append(Without(q, Folded), LogHistory(session'))
                 IN IF f.type \in Folded THEN short ELSE Append(short, f)

Accepts(q, f) == LET rest == Supersede(q, f)
                 IN Len(rest) < QueueSize \/ CanFold(rest, f)

\* bug: the frame that waits is kept and the newer one dropped
Put_KeepsOldest(q, f) == IF f.type \in Coalesced /\ Waiting(q, {f.type}) > 0 THEN q
                         ELSE IF Len(q) < QueueSize THEN Append(q, f) ELSE Fold(q, f)

Put(q, f)     == LET rest == Supersede(q, f)
                 IN IF Len(rest) < QueueSize THEN Append(rest, f) ELSE Fold(rest, f)

\* Hub.broadcast: an open tab takes the frame, or is removed: its sender is cancelled and its
\* socket is going to be closed with 1013.
Broadcast(f) ==
  IF conn # "open" THEN UNCHANGED <<tab, conn, superseded, outdated>>
  ELSE IF Accepts(queue, f)
  THEN /\ queue' = Put(queue, f)
       /\ superseded' = (superseded \/ (f.type = "state" /\ Waiting(queue, {"state"}) > 0))
       /\ outdated' = IF f.type = "state" THEN outdated \ {f.active} ELSE outdated
       /\ UNCHANGED <<sender, unacked, paced, conn>>
  ELSE /\ conn' = "overflowed"
       /\ sender' = "none"
       /\ UNCHANGED <<queue, unacked, paced, superseded, outdated>>

-----------------------------------------------------------------------------
(* The session: any message or engine event that changes what is drawn.    *)

SessionSteps == UNCHANGED <<wire, acks, page, losses, errorsBefore>>

Edit(s) == /\ workload.edits > 0
           /\ workload' = [workload EXCEPT !.edits = @ - 1]
           /\ session' = s
           /\ Broadcast(StateFrame(s))
           /\ SessionSteps

\* A move or a step through the game: only the active board can change.
Move == \E c \in 0 .. MaxCursor :
          /\ c # session.cursor[session.active]
          /\ Edit([session EXCEPT !.cursor[session.active] = c])

BoardSelect == \E b \in Boards(session) \ {session.active} :
                 Edit([session EXCEPT !.active = b])

\* A state that changes nothing the model draws (a status, a setting).
Announce == Edit(session)

\* _fresh_id never hands out a number twice.
Open(cursor) == /\ session.next <= MaxBoards
                /\ Edit([session EXCEPT
                           !.cursor = [b \in Boards(session) \cup {session.next} |->
                                         IF b = session.next THEN cursor ELSE @[b]],
                           !.active = session.next,
                           !.next = @ + 1])

BoardNew       == Open(0)
BoardDuplicate == \E b \in Boards(session) : Open(session.cursor[b])

\* Closing the last board empties it in its place; closing the active one makes another active.
BoardDelete ==
  \E b \in Boards(session) :
    LET left == Boards(session) \ {b}
    IN \/ /\ left = {}
          /\ Edit([session EXCEPT !.cursor[b] = 0])
       \/ \E a \in (IF b = session.active THEN left ELSE {session.active}) :
            Edit([session EXCEPT !.cursor = [o \in left |-> @[o]], !.active = a])

\* _record_log: the line enters the log before it is sent.
RecordLog == /\ workload.lines > 0
             /\ workload' = [workload EXCEPT !.lines = @ - 1]
             /\ session' = [session EXCEPT !.lines = @ + 1]
             /\ Broadcast(LogLine(session'.lines))
             /\ SessionSteps

Fail == /\ workload.errors > 0
        /\ workload' = [workload EXCEPT !.errors = @ - 1]
        /\ session' = [session EXCEPT !.errors = @ + 1]
        /\ Broadcast(Error(session'.errors))
        /\ SessionSteps

\* A report of the engine about the active board.
Report == /\ session' = session
          /\ Broadcast(Analysis)
          /\ SessionSteps
          /\ UNCHANGED workload

-----------------------------------------------------------------------------
(* The sender task and the socket.                                         *)

\* bug: off by one in the window
WindowOpen_OneMore == ~paced \/ unacked <= StateWindow

WindowOpen == ~paced \/ unacked < StateWindow

\* _drain writes the oldest frame; the send returns once the network holds few enough.
TakeNext == LET f == Head(queue)
            IN /\ queue' = Tail(queue)
               /\ wire' = Append(wire, f)
               /\ unacked' = IF f.type = "state" THEN unacked + 1 ELSE unacked
               /\ sender' = "sending"

SenderSteps == UNCHANGED <<session, workload, conn, paced, acks, page, losses, past>>

\* Past window(), the task takes a frame at once or waits for one.
PassWindow == /\ sender = "window"
              /\ WindowOpen
              /\ IF queue = <<>>
                 THEN sender' = "get" /\ UNCHANGED <<queue, unacked, wire>>
                 ELSE TakeNext
              /\ SenderSteps

\* queue.get() returns: the window is not looked at again.
TakeWaited == /\ sender = "get"
              /\ queue # <<>>
              /\ TakeNext
              /\ SenderSteps

SendReturns == /\ sender = "sending"
               /\ Len(wire) <= WireSize
               /\ sender' = "window"
               /\ UNCHANGED <<queue, unacked, wire>>
               /\ SenderSteps

\* bug: one acknowledgement counts for every state
Ack_ClearsAll == /\ conn # "closed"
                 /\ acks > 0
                 /\ acks' = acks - 1
                 /\ paced' = TRUE
                 /\ unacked' = 0
                 /\ UNCHANGED <<session, workload, conn, queue, sender, wire, page, losses, past>>

\* ack(): it never counts below the states sent.
Ack == /\ conn # "closed"
       /\ acks > 0
       /\ acks' = acks - 1
       /\ paced' = TRUE
       /\ unacked' = IF unacked > 0 THEN unacked - 1 ELSE 0
       /\ UNCHANGED <<session, workload, conn, queue, sender, wire, page, losses, past>>

\* The socket closes: a tab that overflowed once the page has read what was sent, any other
\* when the network drops it, with what was under way.  The route detaches the tab; until it
\* notices, the old tab goes on filling a queue that nobody reads, which the page cannot see.
SocketEnds == /\ conn' = "closed"
              /\ sender' = "none"
              /\ queue' = <<>>
              /\ wire' = <<>>
              /\ acks' = 0
              /\ UNCHANGED <<session, workload, unacked, paced, page, past>>

CloseOverflow == conn = "overflowed" /\ wire = <<>> /\ SocketEnds /\ UNCHANGED losses
LoseSocket    == conn # "closed" /\ losses < MaxLosses /\ losses' = losses + 1 /\ SocketEnds

\* attach(): the tab is registered and its attach frames queued in one step.  The analysis is
\* among them when the engine has one for the position.
AttachFrames(s) == <<StateFrame(s), Thumbnails(s), LogHistory(s)>>

\* The tiles the page has drawn, and those of them that show an inactive board as it was.
Drawn(tiles) == {b \in DOMAIN tiles : tiles[b] # NoDrawing}
Behind       == {b \in Drawn(page.tiles) \cap (Boards(session) \ {session.active}) :
                   page.tiles[b] # session.cursor[b]}

\* bug: a tab starts with the counts of the one before it
Attach_KeepsCounts == /\ conn = "closed"
                      /\ conn' = "open"
                      /\ \E last \in {<<>>, <<Analysis>>} : queue' = AttachFrames(session) \o last
                      /\ sender' = "window"
                      /\ superseded' = FALSE
                      /\ outdated' = Behind
                      /\ errorsBefore' = session.errors
                      /\ UNCHANGED <<session, workload, unacked, paced, wire, acks, page, losses>>

Attach == /\ conn = "closed"
          /\ conn' = "open"
          /\ \E last \in {<<>>, <<Analysis>>} : queue' = AttachFrames(session) \o last
          /\ sender' = "window"
          /\ unacked' = 0
          /\ paced' = FALSE
          /\ superseded' = FALSE
          /\ outdated' = Behind
          /\ errorsBefore' = session.errors
          /\ UNCHANGED <<session, workload, wire, acks, page, losses>>

-----------------------------------------------------------------------------
(* The page.                                                               *)

\* mergeBoards: a tile keeps the drawing it had until a frame brings another.
Merge(tiles, boards) == [b \in boards |-> IF b \in DOMAIN tiles THEN tiles[b] ELSE NoDrawing]
Draw(tiles, drawn)   == [b \in DOMAIN tiles \cup DOMAIN drawn |->
                           IF b \in DOMAIN drawn THEN drawn[b] ELSE tiles[b]]

\* bug: only a page without boards takes the snapshot
Fill_Ignores(tiles, drawn) == tiles

\* receiveThumbnails, once the page has boards: the snapshot enters the cache first and the
\* entries merged before are laid over it, so what was drawn before stays.
Fill(tiles, drawn) == Draw(drawn, [b \in Drawn(tiles) |-> tiles[b]])

\* What handle() makes of one frame.  An analysis changes nothing that is modelled.
Apply(p, f) ==
  CASE f.type = "state" ->
         [p EXCEPT !.boards = f.boards, !.active = f.active,
                   !.tiles = [Merge(@, f.boards) EXCEPT ![f.active] = f.drawn]]
    [] f.type = "thumbnails" ->
         [p EXCEPT !.tiles = IF p.boards = {} THEN Draw(@, f.drawn)
                             ELSE Merge(Fill(@, f.drawn), p.boards)]
    [] f.type = "log" -> [p EXCEPT !.log = LastOf(Append(@, f.line), PageLines)]
    [] f.type = "log_history" -> [p EXCEPT !.log = LastOf(f.lines, PageLines)]
    [] f.type = "error" -> [p EXCEPT !.errors = Append(@, f.error)]
    [] f.type = "analysis" -> p

\* The page applies the next frame, and acknowledges a state once it has.
Receive == /\ wire # <<>>
           /\ page' = Apply(page, Head(wire))
           /\ wire' = Tail(wire)
           /\ acks' = IF Head(wire).type = "state" THEN acks + 1 ELSE acks
           /\ UNCHANGED <<session, workload, conn, tab, losses, past>>

Init == /\ session = [cursor |-> [b \in {1} |-> 0], active |-> 1, next |-> 2,
                      lines |-> 0, errors |-> 0]
        /\ page = [boards |-> {}, active |-> 0, tiles |-> [b \in {} |-> NoDrawing],
                   log |-> <<>>, errors |-> <<>>]
        /\ workload \in Workloads
        /\ conn = "closed" /\ sender = "none"
        /\ queue = <<>> /\ wire = <<>>
        /\ unacked = 0 /\ acks = 0 /\ losses = 0 /\ errorsBefore = 0
        /\ paced = FALSE /\ superseded = FALSE /\ outdated = {}

SessionNext == \/ Move \/ Announce \/ BoardSelect \/ BoardNew \/ BoardDuplicate \/ BoardDelete
               \/ RecordLog \/ Fail \/ Report
TabNext     == PassWindow \/ TakeWaited \/ SendReturns \/ Ack
PageNext    == Receive
Next        == SessionNext \/ TabNext \/ PageNext \/ CloseOverflow \/ LoseSocket \/ Attach

Spec == Init /\ [][Next]_vars

\* The sender task and the page keep running, a refused socket is closed and a page without one
\* connects again.  A report may come at any time for ever; the session's other steps are
\* bounded.
Fairness == /\ WF_vars(PassWindow) /\ WF_vars(TakeWaited) /\ WF_vars(SendReturns)
            /\ WF_vars(Ack) /\ WF_vars(Receive)
            /\ WF_vars(CloseOverflow) /\ WF_vars(Attach)
FairSpec == Spec /\ Fairness

-----------------------------------------------------------------------------
(* Properties.                                                             *)

\* What the page will show once everything sent to this tab has been applied.
Applied(p, frames) == LET led[k \in 0 .. Len(frames)] ==
                            IF k = 0 THEN p ELSE Apply(led[k - 1], frames[k])
                      IN led[Len(frames)]
Follows == Applied(page, wire \o queue)

Drained == conn = "open" /\ wire = <<>> /\ queue = <<>>

Frame == [type : {"state"}, boards : SUBSET (1 .. MaxBoards), active : 1 .. MaxBoards,
          drawn : 0 .. MaxCursor]
         \cup [type : {"thumbnails"},
               drawn : UNION {[bs -> 0 .. MaxCursor] : bs \in SUBSET (1 .. MaxBoards)}]
         \cup {Analysis}
         \cup {LogLine(n) : n \in 1 .. session.lines}
         \cup {Error(n) : n \in 1 .. session.errors}
         \cup [type : {"log_history"}, lines : Seq(1 .. session.lines)]

\* Types, and the bounds of the queue: it never holds more than its size, nor two frames of a
\* type that a newer one replaces (TabQueue's docstring).
TypeOK ==
  /\ session.active \in Boards(session)
  /\ session.cursor \in [Boards(session) -> 0 .. MaxCursor]
  /\ \A b \in Boards(session) : b < session.next
  /\ conn \in {"closed", "open", "overflowed"}
  /\ sender \in {"window", "get", "sending", "none"}
  /\ (sender = "none") <=> (conn # "open")
  /\ unacked \in Nat /\ acks \in Nat
  /\ queue \in Seq(Frame) /\ wire \in Seq(Frame)
  /\ Len(queue) <= QueueSize
  /\ \A t \in Coalesced \cup {"log_history"} : Waiting(queue, {t}) <= 1

\* The log the page is led to is a run of the session's lines without a gap or a repetition that
\* ends with the newest, and holds at least what a new tab is sent: folding, wherever it falls
\* between lines that are sent and lines that wait, loses nothing ("the page's log stays
\* correct").
LogIsWhole ==
  conn = "open" =>
    LET log == Follows.log
    IN /\ Len(log) >= (IF session.lines < HistoryLines THEN session.lines ELSE HistoryLines)
       /\ log = LastOf([n \in 1 .. session.lines |-> n], Len(log))

\* Whatever is superseded on the way, the page is led to the session's boards, its active board
\* and that board's position.  It is led to the session's drawing of every other board as well, as
\* long as none of the tab's states was superseded, but for the tiles a lost socket left behind:
\* those it had drawn and that changed before it attached again.
PageIsLed ==
  conn = "open" => /\ Follows.boards = Boards(session)
                   /\ Follows.active = session.active
                   /\ \A b \in Boards(session) :
                        b = session.active \/ (~superseded /\ b \notin outdated)
                          => Follows.tiles[b] = session.cursor[b]

\* No error sent while the tab is attached is lost, repeated or overtaken by a later one; and a
\* tab is dropped for being slow only when errors were sent to it: states, analyses and log
\* lines alone never overflow its queue, however slowly it reads ("a tab that reads slowly
\* keeps its socket").
ErrorsArrive ==
  LET sent == session.errors - errorsBefore
  IN  /\ conn = "open" => LastOf(Follows.errors, sent) = [k \in 1 .. sent |-> errorsBefore + k]
      /\ conn = "overflowed" => sent > 0

\* An acknowledging tab is sent nothing while a state it was sent is unapplied, so the page
\* never works through a backlog of stale states.  The one frame excepted is that for which the
\* sender was already waiting when the tab's first acknowledgement came.
Paced ==
  [][Len(wire') > Len(wire) /\ paced /\ sender = "window" =>
       Waiting(wire, {"state"}) + acks < StateWindow]_vars

Agrees == /\ page.boards = Boards(session)
          /\ page.active = session.active
          /\ page.tiles[session.active] = session.cursor[session.active]
          /\ page.log = LastOf([n \in 1 .. session.lines |-> n], Len(page.log))
          /\ session.lines > 0 => page.log # <<>>

\* Once the session is quiet the page shows what it holds: no pacing, folding, overflow or lost
\* socket leaves the page waiting for ever.
CatchesUp == <>[]Agrees

\* SPEC.md: "each repeated state carries only one drawing, while a newly attached tab can still
\* draw every tile" and "the page needs only the newest state": a page that has applied
\* everything draws every board as the session has it.
TilesAreShown == Drained => \A b \in Boards(session) : page.tiles[b] = session.cursor[b]
=============================================================================
