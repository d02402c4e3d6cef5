-------------------------- MODULE EngineLifecycle --------------------------
(***************************************************************************)
(* One space's engine connection: GameSession's connect, disconnect, lost  *)
(* connection, restore's reconnect and shutdown (session.py), with the     *)
(* engine client's part of it: the handshake, and the report of a lost     *)
(* connection (engine/base.py, engine/gtp.py, engine/analysis.py).         *)
(*                                                                         *)
(* Every connect attempt creates one engine, so an attempt and its engine  *)
(* are both named by the lifecycle generation of the attempt.  The session *)
(* runs on one event loop: a step of this specification is what runs       *)
(* between two awaits.  `attempts', `closing', `engine' and `connecting'   *)
(* are the session's own bookkeeping; `phase' and `conn' say where each    *)
(* task and each connection really is.                                     *)
(***************************************************************************)
EXTENDS Naturals, FiniteSets

CONSTANTS
  MaxLifecycle,         \* bounds the generations of a behaviour
  MAX_CONNECT_ATTEMPTS  \* session.py's bound of the same name (2)

ASSUME MaxLifecycleAssumption == MaxLifecycle \in Nat
ASSUME MaxAttemptsAssumption  == MAX_CONNECT_ATTEMPTS \in Nat \ {0}

None       == 0
Generation == 1 .. MaxLifecycle

\* Where the task that owns an engine is.
Phase == {"none",       \* no attempt has this generation
          "queued",     \* run() is spawned and has not taken its first step
          "handshake",  \* in engine.connect()
          "answered",   \* engine.connect() has its last answer; run() is to resume
          "failing",    \* engine.connect() raised; the engine is being closed
          "retiring",   \* connected but superseded; the engine is being closed
          "adopted",    \* run() is over: the session's engine
          "released",   \* detached; its close task has not taken its first step
          "closing",    \* in _close_engine()
          "draining",   \* being closed by aclose() itself
          "over"}

Connecting == {"queued", "handshake", "answered", "failing", "retiring"}
Closing    == {"released", "closing"}

VARIABLES
  lifecycle,     \* _lifecycle
  engine,        \* engine: a generation or None
  connecting,    \* _connecting: a generation or None
  attempts,      \* _attempts
  closing,       \* _closing
  wantConnected, \* _want_connected, the snapshot's `connected'
  playersOn,     \* play_settings: blackIsEngine or whiteIsEngine
  analysisOn,    \* play_settings: analysisEnabled
  figures,       \* whether some board stores an analysis (last_analysis)
  resume,        \* the registry's resume task: "scheduled" or "done"
  shutdown,      \* aclose(): "no", "draining", "waiting", "cancelling", "done"
  phase,         \* [Generation -> Phase]
  conn,          \* the connection: "none", "open", "lost" (by the peer), "closed"
  report         \* the client's loss report: "none", "scheduled", "handled", "ignored"

session == <<wantConnected, playersOn, analysisOn, figures>>
books   == <<lifecycle, engine, connecting, attempts, closing>>
clients == <<phase, conn, report>>
vars    == <<books, session, resume, shutdown, clients>>

closed  == shutdown # "no"

TypeOK ==
  /\ lifecycle \in 0 .. (IF closed THEN MaxLifecycle + 1 ELSE MaxLifecycle)
  /\ engine \in Generation \cup {None}
  /\ connecting \in Generation \cup {None}
  /\ attempts \subseteq Generation
  /\ closing \subseteq Generation
  /\ wantConnected \in BOOLEAN
  /\ playersOn \in BOOLEAN
  /\ analysisOn \in BOOLEAN
  /\ figures \in BOOLEAN
  /\ resume \in {"scheduled", "done"}
  /\ shutdown \in {"no", "draining", "waiting", "cancelling", "done"}
  /\ phase \in [Generation -> Phase]
  /\ conn \in [Generation -> {"none", "open", "lost", "closed"}]
  /\ report \in [Generation -> {"none", "scheduled", "handled", "ignored"}]

-----------------------------------------------------------------------------
(* Helpers of the session.                                                 *)

\* _connect_pending
Pending == connecting # None /\ connecting = lifecycle

\* bug: the engine that the connect is about to release is not counted
AttemptsFull_ForgetsCurrent ==
  Cardinality(attempts) + Cardinality(closing) >= MAX_CONNECT_ATTEMPTS

\* _attempts_full
AttemptsFull ==
  Cardinality(attempts) + Cardinality(closing) + (IF engine = None THEN 0 ELSE 1)
    >= MAX_CONNECT_ATTEMPTS

\* bug: clears the settings and leaves the boards their figures
WithoutEngine_KeepsFigures ==
  playersOn' = FALSE /\ analysisOn' = FALSE /\ UNCHANGED figures

\* _without_engine: nothing that starts engine work stays armed, no figure stays
WithoutEngine ==
  playersOn' = FALSE /\ analysisOn' = FALSE /\ figures' = FALSE

\* bug: an attempt only asks whether the session is still open
Superseded_OnlyByShutdown(g) == closed

\* a connect that is no longer the latest lifecycle, or whose session is closed
Superseded(g) == g # lifecycle \/ closed

\* the phases with the current engine, if any, handed to a close task
Detached == [h \in Generation |-> IF h = engine THEN "released" ELSE phase[h]]

\* bug: a close is spawned whether or not there was an engine
BeginLifecycle_ClosesNone ==
  /\ lifecycle' = lifecycle + 1
  /\ engine' = None
  /\ closing' = closing \cup {engine}

\* _begin_lifecycle: the next generation, and the current engine is released
BeginLifecycle ==
  /\ lifecycle' = lifecycle + 1
  /\ engine' = None
  /\ closing' = closing \cup ({engine} \ {None})

\* _start_connect
StartConnect(g) ==
  /\ g = lifecycle + 1
  /\ BeginLifecycle
  /\ connecting' = g
  /\ attempts' = attempts \cup {g}
  /\ phase' = [Detached EXCEPT ![g] = "queued"]
  /\ UNCHANGED <<session, shutdown, conn, report>>

\* run()'s `finally'
EndAttempt(g) ==
  /\ attempts' = attempts \ {g}
  /\ connecting' = IF connecting = g THEN None ELSE connecting

-----------------------------------------------------------------------------
(* The browser's messages and the registry's resume.                       *)

\* _msg_connect; refused while one is pending or the bound is reached
Connect(g) ==
  /\ ~closed
  /\ ~Pending
  /\ ~AttemptsFull
  /\ StartConnect(g)
  /\ UNCHANGED resume

\* _msg_disconnect; bounded only by the generations of the model
Disconnect ==
  /\ ~closed
  /\ lifecycle < MaxLifecycle
  /\ BeginLifecycle
  /\ phase' = Detached
  /\ wantConnected' = FALSE
  /\ WithoutEngine
  /\ UNCHANGED <<connecting, attempts, resume, shutdown, conn, report>>

\* resume(): replay the stored request, unless there is nothing to replay
\* (first case), or the policy refuses it (second case)
ResumeGuard == /\ ~closed /\ wantConnected /\ engine = None
               /\ ~Pending /\ ~AttemptsFull

Resume ==
  /\ resume = "scheduled"
  /\ resume' = "done"
  /\ \/ /\ ~ResumeGuard
        /\ UNCHANGED <<books, session, shutdown, clients>>
     \/ /\ ResumeGuard
        /\ wantConnected' = FALSE
        /\ WithoutEngine
        /\ UNCHANGED <<books, shutdown, clients>>
     \/ /\ ResumeGuard
        /\ \E g \in Generation : StartConnect(g)

\* _msg_players and _msg_analysis: accepted with or without an engine.  Turning
\* the analysis off drops the active board's figures; others may remain.
SetPlayers ==
  /\ ~closed
  /\ playersOn' = ~playersOn
  /\ UNCHANGED <<books, wantConnected, analysisOn, figures, resume, shutdown, clients>>

SetAnalysis ==
  /\ ~closed
  /\ analysisOn' = ~analysisOn
  /\ figures' \in (IF analysisOn THEN {FALSE, figures} ELSE {figures})
  /\ UNCHANGED <<books, wantConnected, playersOn, resume, shutdown, clients>>

\* _analysis_sink: a search of engine g may still report after g was released
MayReport(g) == engine = g /\ analysisOn /\ ~closed

Report(g) ==
  /\ phase[g] \in {"adopted", "released"}
  /\ MayReport(g)
  /\ figures' = TRUE
  /\ UNCHANGED <<books, wantConnected, playersOn, analysisOn, resume, shutdown, clients>>

-----------------------------------------------------------------------------
(* The connect attempt: the task run() around _connect().  While a task is *)
(* cancelled (shutdown = "cancelling") it takes no step but CutShort.      *)

TaskRuns == shutdown # "cancelling"

\* _connect up to engine.connect(): the engine exists, nothing is open yet
StartAttempt(g) ==
  /\ TaskRuns
  /\ phase[g] = "queued"
  /\ phase' = [phase EXCEPT ![g] = "handshake"]
  /\ UNCHANGED <<books, session, resume, shutdown, conn, report>>

\* LineConnection.connect returned
OpenConnection(g) ==
  /\ TaskRuns
  /\ phase[g] = "handshake"
  /\ conn[g] = "none"
  /\ conn' = [conn EXCEPT ![g] = "open"]
  /\ UNCHANGED <<books, session, resume, shutdown, phase, report>>

\* The answer to the last handshake command is in hand (in the line queue, or
\* set on the waiter's future); run() resumes in a later step of the loop.
Answered(g) ==
  /\ TaskRuns
  /\ phase[g] = "handshake"
  /\ conn[g] = "open"
  /\ phase' = [phase EXCEPT ![g] = "answered"]
  /\ UNCHANGED <<books, session, resume, shutdown, conn, report>>

\* engine.connect() raises: refused, timed out, not this protocol, or lost
HandshakeFails(g) ==
  /\ TaskRuns
  /\ phase[g] = "handshake"
  /\ phase' = [phase EXCEPT ![g] = "failing"]
  /\ UNCHANGED <<books, session, resume, shutdown, conn, report>>

\* The failed attempt's engine is closed: the live one leaves the space without
\* an engine, a superseded one leaves no trace.
AttemptFailed(g) ==
  /\ TaskRuns
  /\ phase[g] = "failing"
  /\ phase' = [phase EXCEPT ![g] = "over"]
  /\ conn' = [conn EXCEPT ![g] = "closed"]
  /\ EndAttempt(g)
  /\ \/ /\ Superseded(g)
        /\ UNCHANGED session
     \/ /\ ~Superseded(g)
        /\ wantConnected' = FALSE
        /\ WithoutEngine
  /\ UNCHANGED <<lifecycle, engine, closing, resume, shutdown, report>>

\* The attempt of the latest lifecycle takes effect.  Nothing here asks whether
\* the connection was lost since the last answer.
Adopt(g) ==
  /\ TaskRuns
  /\ phase[g] = "answered"
  /\ ~Superseded(g)
  /\ engine' = g
  /\ wantConnected' = TRUE
  /\ phase' = [phase EXCEPT ![g] = "adopted"]
  /\ EndAttempt(g)
  /\ UNCHANGED <<lifecycle, closing, playersOn, analysisOn, figures, resume, shutdown,
                 conn, report>>

\* Connected, but superseded: the engine is closed by the attempt itself
Retire(g) ==
  /\ TaskRuns
  /\ phase[g] = "answered"
  /\ Superseded(g)
  /\ phase' = [phase EXCEPT ![g] = "retiring"]
  /\ UNCHANGED <<books, session, resume, shutdown, conn, report>>

Retired(g) ==
  /\ TaskRuns
  /\ phase[g] = "retiring"
  /\ phase' = [phase EXCEPT ![g] = "over"]
  /\ conn' = [conn EXCEPT ![g] = "closed"]
  /\ EndAttempt(g)
  /\ UNCHANGED <<lifecycle, engine, closing, session, resume, shutdown, report>>

-----------------------------------------------------------------------------
(* A released engine's close task: _close_engine.                          *)

CloseStarts(g) ==
  /\ TaskRuns
  /\ phase[g] = "released"
  /\ phase' = [phase EXCEPT ![g] = "closing"]
  /\ UNCHANGED <<books, session, resume, shutdown, conn, report>>

\* bug: the engine's entry in _closing outlives its close
CloseEnds_KeepsEntry(g) ==
  /\ TaskRuns
  /\ phase[g] = "closing"
  /\ phase' = [phase EXCEPT ![g] = "over"]
  /\ conn' = [conn EXCEPT ![g] = "closed"]
  /\ UNCHANGED <<books, session, resume, shutdown, report>>

\* closed in time, or aborted after CLOSE_TIMEOUT
CloseEnds(g) ==
  /\ TaskRuns
  /\ phase[g] = "closing"
  /\ phase' = [phase EXCEPT ![g] = "over"]
  /\ conn' = [conn EXCEPT ![g] = "closed"]
  /\ closing' = closing \ {g}
  /\ UNCHANGED <<lifecycle, engine, connecting, attempts, session, resume, shutdown, report>>

-----------------------------------------------------------------------------
(* The peer closes the connection, and the client's report of it.          *)

\* _lost: marks the connection dead and schedules one report, unless the client
\* is already closing
LoseConnection(g) ==
  /\ conn[g] = "open"
  /\ conn' = [conn EXCEPT ![g] = "lost"]
  /\ report' = [report EXCEPT ![g] =
                  IF phase[g] \in {"handshake", "answered", "adopted", "released"}
                  THEN "scheduled" ELSE @]
  /\ UNCHANGED <<books, session, resume, shutdown, phase>>

\* bug: the space stays as it was and only the engine is dropped
EngineLost_KeepsSettings(g) ==
  /\ engine' = None
  /\ closing' = closing \cup {g}
  /\ phase' = [phase EXCEPT ![g] = "released"]
  /\ UNCHANGED session

\* bug: the loss clears the settings but not the engine
EngineLost_KeepsEngine(g) ==
  /\ wantConnected' = FALSE
  /\ WithoutEngine
  /\ UNCHANGED <<engine, closing, phase>>

\* _engine_lost, past its guard
EngineLost(g) ==
  /\ engine' = None
  /\ closing' = closing \cup {g}
  /\ phase' = [phase EXCEPT ![g] = "released"]
  /\ wantConnected' = FALSE
  /\ WithoutEngine

\* _report_disconnect; ignored when the engine is not the session's (or its
\* callback is already taken off)
DeliverReport(g) ==
  /\ report[g] = "scheduled"
  /\ \/ /\ engine = g /\ ~closed
        /\ EngineLost(g)
        /\ report' = [report EXCEPT ![g] = "handled"]
     \/ /\ engine # g \/ closed
        /\ report' = [report EXCEPT ![g] = "ignored"]
        /\ UNCHANGED <<engine, closing, phase, session>>
  /\ UNCHANGED <<lifecycle, connecting, attempts, resume, shutdown, conn>>

-----------------------------------------------------------------------------
(* Shutdown: aclose().                                                     *)

\* the part of aclose() that both mutants below leave as it is
AcloseBooks ==
  /\ ~closed
  /\ lifecycle' = lifecycle + 1
  /\ engine' = None
  /\ phase' = [h \in Generation |-> IF h = engine THEN "draining" ELSE phase[h]]
  /\ UNCHANGED <<connecting, attempts, closing, resume, conn, report>>

\* bug: shuts down through _without_engine, like a disconnect
Aclose_Disarms ==
  /\ AcloseBooks
  /\ shutdown' = IF engine = None THEN "waiting" ELSE "draining"
  /\ wantConnected' = FALSE
  /\ WithoutEngine

\* bug: awaits the close of an engine it does not have
Aclose_DrainsNone ==
  /\ AcloseBooks
  /\ shutdown' = "draining"
  /\ UNCHANGED session

\* aclose() up to its first await
Aclose ==
  /\ AcloseBooks
  /\ shutdown' = IF engine = None THEN "waiting" ELSE "draining"
  /\ UNCHANGED session

\* aclose()'s own _close_engine returned
DrainEnds(g) ==
  /\ shutdown = "draining"
  /\ phase[g] = "draining"
  /\ phase' = [phase EXCEPT ![g] = "over"]
  /\ conn' = [conn EXCEPT ![g] = "closed"]
  /\ shutdown' = "waiting"
  /\ UNCHANGED <<books, session, resume, report>>

Tasks == {g \in Generation : phase[g] \in Connecting \cup Closing}

\* asyncio.wait gave up after two seconds: what still runs is cancelled
CancelTasks ==
  /\ shutdown = "waiting"
  /\ Tasks # {}
  /\ shutdown' = "cancelling"
  /\ UNCHANGED <<books, session, resume, clients>>

\* bug: a close cut short leaves its connection to the peer
CutShort_LeavesOpen(g) ==
  /\ shutdown = "cancelling"
  /\ g \in Tasks
  /\ phase' = [phase EXCEPT ![g] = "over"]
  /\ UNCHANGED <<books, session, resume, shutdown, conn, report>>

\* A cancelled task takes its last step: the engine's connection is dropped.  A
\* run() that never took its first step never reaches its `finally'.
CutShort(g) ==
  /\ shutdown = "cancelling"
  /\ g \in Tasks
  /\ phase' = [phase EXCEPT ![g] = "over"]
  /\ conn' = [conn EXCEPT ![g] = IF phase[g] = "queued" THEN @ ELSE "closed"]
  /\ IF phase[g] \in Connecting \ {"queued"}
       THEN EndAttempt(g) ELSE UNCHANGED <<attempts, connecting>>
  /\ closing' = closing \ {g}
  /\ UNCHANGED <<lifecycle, engine, session, resume, shutdown, report>>

\* aclose() itself is cancelled: every task is, and every engine being closed is
\* dropped at once
CancelShutdown ==
  /\ shutdown \in {"draining", "waiting"}
  /\ shutdown' = "cancelling"
  /\ phase' = [g \in Generation |-> IF phase[g] = "draining" THEN "over" ELSE phase[g]]
  /\ conn' = [g \in Generation |->
               IF phase[g] = "draining" \/ g \in closing THEN "closed" ELSE conn[g]]
  /\ UNCHANGED <<books, session, resume, report>>

ShutdownEnds ==
  /\ shutdown \in {"waiting", "cancelling"}
  /\ Tasks = {}
  /\ shutdown' = "done"
  /\ UNCHANGED <<books, session, resume, clients>>

-----------------------------------------------------------------------------

\* A fresh session, or one restored: only a snapshot that was connected keeps
\* the settings that start engine work.
Init ==
  /\ lifecycle = 0 /\ engine = None /\ connecting = None
  /\ attempts = {} /\ closing = {}
  /\ wantConnected \in BOOLEAN
  /\ playersOn \in (IF wantConnected THEN BOOLEAN ELSE {FALSE})
  /\ analysisOn \in (IF wantConnected THEN BOOLEAN ELSE {FALSE})
  /\ figures = FALSE
  /\ resume = "scheduled" /\ shutdown = "no"
  /\ phase = [g \in Generation |-> "none"]
  /\ conn = [g \in Generation |-> "none"]
  /\ report = [g \in Generation |-> "none"]

HandshakeEnds(g) == Answered(g) \/ HandshakeFails(g)
ConnectResumes(g) == Adopt(g) \/ Retire(g)

Step(g) ==
  \/ Connect(g) \/ Report(g)
  \/ StartAttempt(g) \/ OpenConnection(g) \/ HandshakeEnds(g)
  \/ AttemptFailed(g) \/ ConnectResumes(g) \/ Retired(g)
  \/ CloseStarts(g) \/ CloseEnds(g)
  \/ LoseConnection(g) \/ DeliverReport(g)
  \/ DrainEnds(g) \/ CutShort(g)

Next ==
  \/ \E g \in Generation : Step(g)
  \/ Disconnect \/ Resume \/ SetPlayers \/ SetAnalysis
  \/ Aclose \/ CancelTasks \/ CancelShutdown \/ ShutdownEnds

(***************************************************************************)
(* Every task the loop has ready runs, and every await of the code has a   *)
(* timeout (connect_timeout, the command timeouts, CLOSE_TIMEOUT), so each *)
(* of these steps comes if it stays possible.  Nothing forces a message of *)
(* the browser, a loss, or a shutdown.                                     *)
(***************************************************************************)
Fairness ==
  /\ \A g \in Generation :
       /\ WF_vars(StartAttempt(g)) /\ WF_vars(HandshakeEnds(g))
       /\ WF_vars(AttemptFailed(g)) /\ WF_vars(ConnectResumes(g)) /\ WF_vars(Retired(g))
       /\ WF_vars(CloseStarts(g)) /\ WF_vars(CloseEnds(g))
       /\ WF_vars(DeliverReport(g))
       /\ WF_vars(DrainEnds(g)) /\ WF_vars(CutShort(g))
  /\ WF_vars(Resume) /\ WF_vars(CancelTasks) /\ WF_vars(ShutdownEnds)

Spec     == Init /\ [][Next]_vars
FairSpec == Spec /\ Fairness

-----------------------------------------------------------------------------
(* Safety.                                                                 *)

\* Engines that are connecting, connected or closing: by where their task is, or
\* by a socket that is still held.
InUse == {g \in Generation : \/ phase[g] \notin {"none", "over"}
                             \/ conn[g] \in {"open", "lost"}}

\* No more than two engines are connecting, connected or closing at once,
\* whatever is superseded, lost or shut down in between (SPEC 3.2 "Latest
\* lifecycle wins"): the counts of _attempts_full miss no engine that still runs.
EnginesBounded == Cardinality(InUse) <= MAX_CONNECT_ATTEMPTS

\* The session's engine is the one of the latest lifecycle, no other engine
\* believes it was adopted, and a session that shuts down has none.
LatestLifecycleWins ==
  /\ engine # None => engine = lifecycle /\ ~closed
  /\ \A g \in Generation : phase[g] = "adopted" <=> engine = g

\* A space that wants an engine it does not have is getting one: a connect is
\* pending or the stored request is still to be replayed.  What a snapshot says
\* of `connected' is never left over from an engine that is gone.
WantHasCause ==
  wantConnected /\ engine = None /\ ~closed => Pending \/ resume = "scheduled"

\* What the space has or wants of an engine.
Engaged == engine # None \/ Pending \/ wantConnected

\* However a space comes to be without the engine it had or wanted (disconnect,
\* lost connection, failed connect, refused replay), that step leaves nothing
\* armed and no figures.  A shutdown is no such path: neither its first step nor
\* a late failure, loss or replay after it changes what the last snapshot says
\* was running.
OnlyLeavingDisarms ==
  [][IF closed' THEN UNCHANGED session
     ELSE Engaged /\ ~Engaged' => ~playersOn' /\ ~analysisOn' /\ ~figures']_vars

\* A finished shutdown leaves no connection open and no task running.
ShutdownLeavesNothing == shutdown = "done" => InUse = {}

-----------------------------------------------------------------------------
(* Liveness and refinement.                                                *)

\* Nothing hangs: an engine that was released is closed in the end, so a refused
\* connect can be tried again; a shutdown comes to an end; and a lost connection
\* that the client reports while its engine is the session's is shown, the space
\* does not keep that engine.
EndsAreReached ==
  /\ \A g \in Generation : g \in closing ~> g \notin closing
  /\ closed ~> shutdown = "done"
  /\ \A g \in Generation : (engine = g /\ report[g] = "scheduled") ~> engine # g

\* SPEC 3.2 "Lost engine": a space whose engine connection is lost shows the
\* engine disconnected.
LostEngineShown ==
  \A g \in Generation : (engine = g /\ conn[g] = "lost") ~> engine # g

\* What the browser tabs see of the engine (state.engine.connected, .connecting).
ShownToTabs == IF closed THEN "closed"
               ELSE IF engine # None THEN "connected"
               ELSE IF Pending THEN "connecting" ELSE "disconnected"

Slot == INSTANCE EngineSlot WITH shown <- ShownToTabs

\* The session implements the one engine slot its tabs are shown: it becomes
\* connected only from a pending connect, and a pending connect always ends.
SlotSpec == Slot!Spec
=============================================================================
