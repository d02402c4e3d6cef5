----------------------- MODULE EngineLifecycleProofs -----------------------
(***************************************************************************)
(* Theorems of EngineLifecycle, for every bound on engines and any number  *)
(* of lifecycles.                                                          *)
(***************************************************************************)
EXTENDS EngineLifecycle, FiniteSetTheorems, TLAPS

-----------------------------------------------------------------------------
(* The inductive invariant: the session's books account for every task.    *)

\* Generations beyond the latest are unused, in the books and in fact.
Fresh ==
  /\ \A g \in Generation : g > lifecycle => phase[g] = "none" /\ conn[g] = "none"
  /\ \A g \in attempts \cup closing : g <= lifecycle
  /\ connecting <= lifecycle

\* Every task that owns an engine is in the books.
BooksCover ==
  \A g \in Generation :
    /\ phase[g] \in Connecting => g \in attempts
    /\ phase[g] \in Closing => g \in closing

\* A socket is held only by an engine that some task or the session owns.
SocketsOwned ==
  \A g \in Generation :
    conn[g] \in {"open", "lost"} => phase[g] \notin {"none", "queued", "over"}

\* aclose() drains at most the one engine it found; it ends after every task.
Draining ==
  /\ \A g \in Generation : phase[g] = "draining" => shutdown = "draining"
  /\ \A g, h \in Generation : phase[g] = "draining" /\ phase[h] = "draining" => g = h
  /\ shutdown = "done" => Tasks = {}

\* Only a session whose first lifecycle is still to come wants an engine with
\* nothing under way.
Wanting ==
  wantConnected /\ engine = None /\ ~closed /\ ~Pending
    => lifecycle = 0 /\ resume = "scheduled"

\* An attempt retires its engine only once it is superseded, and stays so.
Retiring == \A g \in Generation : phase[g] = "retiring" => Superseded(g)

Struct == /\ Fresh /\ BooksCover /\ SocketsOwned /\ Draining /\ Wanting
          /\ LatestLifecycleWins

IInv == TypeOK /\ Retiring /\ Struct /\ EnginesBounded

-----------------------------------------------------------------------------
(* Types.                                                                  *)

LEMMA TypeInit == Init => TypeOK
<1> SUFFICES ASSUME Init PROVE TypeOK
  OBVIOUS
<1>1. lifecycle \in 0 .. MaxLifecycle /\ ~closed
  BY MaxLifecycleAssumption DEF Init, closed
<1>2. phase \in [Generation -> Phase]
  BY DEF Init, Phase
<1> QED BY <1>1, <1>2 DEF Init, TypeOK, None

LEMMA StartConnectType ==
  ASSUME TypeOK, ~closed, NEW g \in Generation, StartConnect(g)
  PROVE  /\ lifecycle' \in 0 .. MaxLifecycle
         /\ engine' \in Generation \cup {None} /\ connecting' \in Generation \cup {None}
         /\ attempts' \subseteq Generation /\ closing' \subseteq Generation
         /\ phase' \in [Generation -> Phase]
  BY MaxLifecycleAssumption
     DEF TypeOK, StartConnect, BeginLifecycle, Detached, Generation, None, Phase, closed

LEMMA TypeStep == TypeOK /\ [Next]_vars => TypeOK'
<1> SUFFICES ASSUME TypeOK, [Next]_vars PROVE TypeOK'
  OBVIOUS
<1> USE MaxLifecycleAssumption DEF closed
<1>1. ASSUME NEW g \in Generation, Connect(g) PROVE TypeOK'
  BY <1>1, StartConnectType DEF Connect, StartConnect, TypeOK, session
<1>2. ASSUME NEW g \in Generation, Step(g), ~Connect(g) PROVE TypeOK'
  <2>1. CASE Report(g)
    BY <2>1 DEF Report, TypeOK, books, clients
  <2>2. CASE StartAttempt(g) \/ OpenConnection(g) \/ HandshakeEnds(g)
    BY <2>2 DEF StartAttempt, OpenConnection, HandshakeEnds, Answered, HandshakeFails,
                TypeOK, books, session, Phase
  <2>3. CASE AttemptFailed(g) \/ Retired(g)
    BY ZenonT(40), <2>3 DEF AttemptFailed, Retired, EndAttempt, WithoutEngine, TypeOK, session, Phase, None
  <2>4. CASE ConnectResumes(g)
    BY ZenonT(40), <2>4 DEF ConnectResumes, Adopt, Retire, EndAttempt, TypeOK, books, session, Phase, None
  <2>5. CASE CloseStarts(g) \/ CloseEnds(g) \/ LoseConnection(g)
    BY <2>5 DEF CloseStarts, CloseEnds, LoseConnection, TypeOK, books, session, Phase
  <2>6. CASE DeliverReport(g)
    BY ZenonT(40), <2>6 DEF DeliverReport, EngineLost, WithoutEngine, TypeOK, session, Phase, None
  <2>7. CASE DrainEnds(g)
    BY <2>7 DEF DrainEnds, TypeOK, books, session, Phase
  <2>8. CASE CutShort(g)
    BY <2>8 DEF CutShort, EndAttempt, TypeOK, session, Phase, None
  <2> QED BY <1>2, <2>1, <2>2, <2>3, <2>4, <2>5, <2>6, <2>7, <2>8 DEF Step
<1>3. CASE Disconnect
  <2>1. lifecycle' \in 0 .. MaxLifecycle /\ ~closed'
    BY <1>3 DEF Disconnect, BeginLifecycle, TypeOK
  <2>2. phase' \in [Generation -> Phase]
    BY <1>3 DEF Disconnect, Detached, TypeOK, Phase
  <2> QED BY <1>3, <2>1, <2>2
             DEF Disconnect, BeginLifecycle, WithoutEngine, TypeOK, None
<1>4. CASE Resume
  <2> USE DEF ResumeGuard
  <2>1. CASE UNCHANGED clients
    BY <1>4, <2>1, StartConnectType
       DEF Resume, StartConnect, WithoutEngine, TypeOK, books, session, clients
  <2>2. ASSUME ~closed, NEW g \in Generation, StartConnect(g) PROVE TypeOK'
    BY <1>4, <2>2, StartConnectType DEF Resume, StartConnect, TypeOK, session
  <2> QED BY <1>4, <2>1, <2>2 DEF Resume
<1>5. CASE SetPlayers \/ SetAnalysis
  BY <1>5 DEF SetPlayers, SetAnalysis, TypeOK, books, clients
<1>6. CASE Aclose
  <2>1. lifecycle' \in 0 .. MaxLifecycle + 1 /\ closed'
    BY <1>6 DEF Aclose, AcloseBooks, TypeOK, closed
  <2> QED BY <1>6, <2>1 DEF Aclose, AcloseBooks, TypeOK, session, Phase, None
<1>7. CASE CancelTasks \/ ShutdownEnds
  BY <1>7 DEF CancelTasks, ShutdownEnds, TypeOK, books, session, clients
<1>8. CASE CancelShutdown
  BY <1>8 DEF CancelShutdown, TypeOK, books, session, Phase
<1>9. CASE UNCHANGED vars
  BY <1>9 DEF TypeOK, vars, books, session, clients
<1> QED BY <1>1, <1>2, <1>3, <1>4, <1>5, <1>6, <1>7, <1>8, <1>9 DEF Next

\* Type correctness of the engine connection's state, for any bounds.
THEOREM TypeCorrect == Spec => []TypeOK
<1> QED BY TypeInit, TypeStep, PTL DEF Spec

-----------------------------------------------------------------------------
(* The books account for every task.                                       *)

LEMMA Numbers ==
  ASSUME TypeOK
  PROVE  /\ lifecycle \in Nat /\ engine \in Nat /\ connecting \in Nat
         /\ \A g \in Generation : g \in Nat /\ g # None
  BY MaxLifecycleAssumption DEF TypeOK, Generation, None

LEMMA StructInit == Init => Struct
  BY DEF Init, Struct, Fresh, BooksCover, SocketsOwned, Draining, Wanting, Tasks,
         LatestLifecycleWins, Pending, Connecting, Closing, None, closed, Generation

LEMMA RetiringStep == TypeOK /\ Struct /\ Retiring /\ [Next]_vars => Retiring'
<1> SUFFICES ASSUME TypeOK, Fresh, Retiring, [Next]_vars,
                    NEW h \in Generation, phase'[h] = "retiring"
             PROVE  Superseded(h)'
  BY DEF Retiring, Struct
<1>1. lifecycle' \in {lifecycle, lifecycle + 1} /\ (closed => closed')
  BY DEF Next, Step, Connect, StartConnect, BeginLifecycle, Report, StartAttempt,
         OpenConnection, HandshakeEnds, Answered, HandshakeFails, AttemptFailed,
         ConnectResumes, Adopt, Retire, Retired, CloseStarts, CloseEnds, LoseConnection,
         DeliverReport, DrainEnds, CutShort, Disconnect, Resume, SetPlayers, SetAnalysis,
         Aclose, AcloseBooks, CancelTasks, CancelShutdown, ShutdownEnds, vars, books, closed
<1>2. phase[h] = "retiring" \/ (phase[h] = "answered" /\ Superseded(h))
  BY ZenonT(40) DEF Next, Step, Connect, StartConnect, Detached, Report, StartAttempt,
         OpenConnection, HandshakeEnds, Answered, HandshakeFails, AttemptFailed,
         ConnectResumes, Adopt, Retire, Retired, CloseStarts, CloseEnds, LoseConnection,
         DeliverReport, EngineLost, DrainEnds, CutShort, Disconnect, Resume, SetPlayers,
         SetAnalysis, Aclose, AcloseBooks, CancelTasks, CancelShutdown, ShutdownEnds, vars,
         clients, TypeOK
<1> QED BY <1>1, <1>2, Numbers DEF Retiring, Superseded, Fresh

\* What a new attempt leaves behind: the engine it releases is in _closing.
LEMMA StartConnectStruct ==
  ASSUME TypeOK, Struct, ~closed, NEW g \in Generation, StartConnect(g),
         resume' \in {"scheduled", "done"}
  PROVE  Struct'
<1> USE MaxLifecycleAssumption
    DEF StartConnect, BeginLifecycle, Detached, TypeOK, Struct, Generation
<1>1. Fresh'
  BY DEF Fresh, Generation, None, LatestLifecycleWins
<1>2. BooksCover'
  BY DEF BooksCover, Connecting, Closing, None, LatestLifecycleWins
<1>3. SocketsOwned'
  BY DEF SocketsOwned, Fresh, Generation
<1>4. Draining'
  BY DEF Draining, closed, session
<1>5. Wanting'
  BY DEF Wanting, Pending, None, Generation
<1>6. LatestLifecycleWins'
  BY DEF LatestLifecycleWins, None, Generation, closed, session
<1> QED BY <1>1, <1>2, <1>3, <1>4, <1>5, <1>6 DEF Struct

LEMMA StructStep == TypeOK /\ Retiring /\ Struct /\ [Next]_vars => Struct'
<1> SUFFICES ASSUME TypeOK, Retiring, Struct, [Next]_vars PROVE Struct'
  OBVIOUS
<1> USE Numbers DEF Struct
<1>1. ASSUME NEW g \in Generation, Connect(g) PROVE Struct'
  BY <1>1, StartConnectStruct DEF Connect, TypeOK
<1>2. ASSUME NEW g \in Generation, Report(g) PROVE Struct'
  BY <1>2 DEF Report, books, clients, TypeOK, Fresh, BooksCover, SocketsOwned, Draining,
              Wanting, LatestLifecycleWins, Tasks, Pending, closed
<1>3. ASSUME NEW g \in Generation,
             StartAttempt(g) \/ OpenConnection(g) \/ HandshakeEnds(g) \/ Retire(g)
      PROVE  Struct'
  <2> USE <1>3 DEF StartAttempt, OpenConnection, HandshakeEnds, Answered, HandshakeFails,
                   Retire, books, session, TypeOK
  <2>1. Fresh'
    BY ZenonT(40) DEF Fresh, Generation
  <2>2. BooksCover'
    BY DEF BooksCover, Connecting, Closing
  <2>3. SocketsOwned'
    BY DEF SocketsOwned
  <2>4. Draining'
    BY DEF Draining, Tasks, Connecting, Closing
  <2>5. Wanting' /\ LatestLifecycleWins'
    BY DEF Wanting, Pending, LatestLifecycleWins, closed
  <2> QED BY <2>1, <2>2, <2>3, <2>4, <2>5
<1>4. ASSUME NEW g \in Generation, AttemptFailed(g) \/ Retired(g) PROVE Struct'
  <2> USE <1>4 DEF AttemptFailed, Retired, EndAttempt, TypeOK
  <2>1. Fresh'
    BY DEF Fresh, None
  <2>2. BooksCover'
    BY DEF BooksCover, Connecting, Closing
  <2>3. SocketsOwned' /\ Draining'
    BY DEF SocketsOwned, Draining, Tasks, Connecting, Closing
  <2>4. wantConnected' = FALSE \/ (UNCHANGED session /\ Superseded(g))
    BY DEF Retiring
  <2>5. Pending /\ ~closed /\ Superseded(g) => Pending'
    BY DEF Pending, Superseded
  <2>6. Wanting'
    BY <2>4, <2>5 DEF Wanting, closed, session
  <2>7. LatestLifecycleWins'
    BY DEF LatestLifecycleWins, closed
  <2> QED BY <2>1, <2>2, <2>3, <2>6, <2>7
<1>15. ASSUME NEW g \in Generation, Adopt(g) PROVE Struct'
  <2> USE <1>15 DEF Adopt, EndAttempt, Superseded, TypeOK
  <2>1. Fresh'
    BY DEF Fresh, None
  <2>2. BooksCover'
    BY DEF BooksCover, Connecting, Closing
  <2>3. SocketsOwned' /\ Draining' /\ Wanting'
    BY DEF SocketsOwned, Draining, Tasks, Connecting, Closing, Wanting
  <2>4. engine \in {None, g}
    BY DEF LatestLifecycleWins
  <2>5. \A h \in Generation : phase'[h] = "adopted" <=> h = g
    BY <2>4 DEF LatestLifecycleWins
  <2>6. LatestLifecycleWins'
    BY <2>5 DEF LatestLifecycleWins, closed
  <2> QED BY <2>1, <2>2, <2>3, <2>6
<1>5. ASSUME NEW g \in Generation, CloseStarts(g) \/ CloseEnds(g)
      PROVE  Struct'
  <2> USE <1>5 DEF CloseStarts, CloseEnds, books, session, TypeOK
  <2>1. Fresh'
    BY DEF Fresh
  <2>5. SocketsOwned'
    BY DEF SocketsOwned
  <2>2. BooksCover'
    BY DEF BooksCover, Connecting, Closing
  <2>3. Draining'
    BY DEF Draining, Tasks, Connecting, Closing
  <2>4. Wanting' /\ LatestLifecycleWins'
    BY DEF Wanting, Pending, LatestLifecycleWins, closed
  <2> QED BY <2>1, <2>2, <2>3, <2>4, <2>5
<1>6. ASSUME NEW g \in Generation, LoseConnection(g) PROVE Struct'
  <2> USE <1>6 DEF LoseConnection, books, session, TypeOK
  <2>1. Fresh' /\ SocketsOwned'
    BY DEF Fresh, SocketsOwned
  <2>2. BooksCover' /\ Draining' /\ Wanting' /\ LatestLifecycleWins'
    BY DEF BooksCover, Draining, Tasks, Wanting, Pending, LatestLifecycleWins, closed
  <2> QED BY <2>1, <2>2
<1>7. ASSUME NEW g \in Generation, DeliverReport(g) PROVE Struct'
  <2>1. CASE engine # g \/ closed
    BY <1>7, <2>1 DEF DeliverReport, session, TypeOK, Fresh, BooksCover, SocketsOwned,
       Draining, Wanting, LatestLifecycleWins, Tasks, Pending, closed
  <2>2. CASE engine = g /\ ~closed
    <3> USE <1>7, <2>2 DEF DeliverReport, EngineLost, WithoutEngine, TypeOK
    <3>1. Fresh'
      BY DEF Fresh, LatestLifecycleWins
    <3>5. SocketsOwned'
      BY DEF SocketsOwned
    <3>2. BooksCover'
      BY DEF BooksCover, Connecting, Closing, LatestLifecycleWins
    <3>3. Draining' /\ Wanting'
      BY DEF Draining, Wanting, closed
    <3>4. LatestLifecycleWins'
      BY ZenonT(40) DEF LatestLifecycleWins, None, Generation
    <3> QED BY <3>1, <3>2, <3>3, <3>4, <3>5
  <2> QED BY <2>1, <2>2
<1>8. ASSUME NEW g \in Generation, DrainEnds(g) \/ CutShort(g) PROVE Struct'
  <2> USE <1>8 DEF DrainEnds, CutShort, EndAttempt, books, session, TypeOK
  <2>6. g <= lifecycle
    BY DEF Fresh, Tasks, Connecting, Closing
  <2>7. /\ lifecycle' = lifecycle /\ connecting' \in {None, connecting}
        /\ attempts' \subseteq attempts /\ closing' \subseteq closing
    OBVIOUS
  <2>8. \A h \in Generation : h # g => phase'[h] = phase[h] /\ conn'[h] = conn[h]
    OBVIOUS
  <2>1. Fresh'
    BY <2>6, <2>7, <2>8 DEF Fresh, None
  <2>5. SocketsOwned'
    BY DEF SocketsOwned
  <2>2. BooksCover'
    BY DEF BooksCover, Connecting, Closing, Tasks, Draining
  <2>3. Draining'
    BY DEF Draining, Tasks, Connecting, Closing
  <2>4. Wanting' /\ LatestLifecycleWins'
    BY DEF Wanting, Pending, LatestLifecycleWins, closed, Tasks, Connecting, Closing
  <2> QED BY <2>1, <2>2, <2>3, <2>4, <2>5
<1>9. CASE Disconnect
  <2> USE <1>9 DEF Disconnect, BeginLifecycle, Detached, TypeOK
  <2>1. Fresh'
    BY DEF Fresh, Generation, None, LatestLifecycleWins
  <2>2. BooksCover'
    BY DEF BooksCover, Connecting, Closing, None, LatestLifecycleWins, Generation
  <2>3. SocketsOwned' /\ Draining' /\ Wanting'
    BY DEF SocketsOwned, Draining, Wanting, closed
  <2>4. LatestLifecycleWins'
    BY DEF LatestLifecycleWins, None, Generation
  <2> QED BY <2>1, <2>2, <2>3, <2>4
<1>10. CASE Resume
  <2>1. ASSUME NEW g \in Generation, ResumeGuard, StartConnect(g) PROVE Struct'
    BY <1>10, <2>1, StartConnectStruct DEF Resume, ResumeGuard
  <2>2. CASE UNCHANGED <<books, shutdown, clients>>
        /\ ((UNCHANGED session /\ ~ResumeGuard) \/ wantConnected' = FALSE)
    <3>1. Fresh' /\ BooksCover' /\ SocketsOwned' /\ Draining' /\ LatestLifecycleWins'
      BY <2>2 DEF books, clients, Fresh, BooksCover, SocketsOwned, Draining, Tasks,
                  LatestLifecycleWins, closed
    <3>2. lifecycle = 0 => attempts = {} /\ closing = {}
      BY DEF Fresh, TypeOK, None
    <3>3. lifecycle = 0 /\ engine = None => ~AttemptsFull
      BY <3>2, FS_EmptySet, MaxAttemptsAssumption DEF AttemptsFull
    <3>4. Wanting'
      BY <2>2, <3>3 DEF books, session, Wanting, Pending, ResumeGuard, closed
    <3> QED BY <3>1, <3>4
  <2> QED BY <1>10, <2>1, <2>2 DEF Resume
<1>11. CASE SetPlayers \/ SetAnalysis \/ CancelTasks
  <2> USE <1>11 DEF SetPlayers, SetAnalysis, CancelTasks, books, session, clients
  <2>1. Fresh' /\ BooksCover' /\ SocketsOwned'
    BY DEF Fresh, BooksCover, SocketsOwned
  <2>2. Draining'
    BY DEF Draining, Tasks, closed
  <2>3. Wanting'
    BY DEF Wanting, Pending, closed
  <2>4. LatestLifecycleWins'
    BY DEF LatestLifecycleWins, closed
  <2> QED BY <2>1, <2>2, <2>3, <2>4
<1>12. CASE Aclose
  <2> USE <1>12 DEF Aclose, AcloseBooks, TypeOK
  <2>1. Fresh'
    BY DEF Fresh, Generation, None, LatestLifecycleWins
  <2>2. BooksCover' /\ SocketsOwned'
    BY DEF BooksCover, SocketsOwned, Connecting, Closing
  <2>3. Draining'
    BY DEF Draining, closed, None, Generation
  <2>4. Wanting' /\ LatestLifecycleWins'
    BY DEF Wanting, LatestLifecycleWins, closed, None, Generation
  <2> QED BY <2>1, <2>2, <2>3, <2>4
<1>13. CASE CancelShutdown
  <2> USE <1>13 DEF CancelShutdown, books, session, TypeOK
  <2>1. Fresh'
    BY DEF Fresh, Generation, BooksCover, Closing
  <2>2. BooksCover' /\ SocketsOwned' /\ Draining'
    BY DEF BooksCover, SocketsOwned, Draining, Connecting, Closing
  <2>3. Wanting' /\ LatestLifecycleWins'
    BY DEF Wanting, LatestLifecycleWins, closed, None
  <2> QED BY <2>1, <2>2, <2>3
<1>14. CASE ShutdownEnds \/ UNCHANGED vars
  BY <1>14 DEF ShutdownEnds, vars, books, session, clients, TypeOK, Fresh,
     BooksCover, SocketsOwned, Draining, Wanting, LatestLifecycleWins, Tasks, Pending, closed
<1> QED BY <1>1, <1>2, <1>3, <1>4, <1>5, <1>6, <1>7, <1>8, <1>9, <1>10, <1>11, <1>12,
           <1>13, <1>14, <1>15 DEF Next, Step, ConnectResumes

-----------------------------------------------------------------------------
(* The bound.  With SocketsOwned, an engine is in use exactly when its     *)
(* task is somewhere; only a new attempt brings one into use, and its      *)
(* guard counts every engine that is.                                      *)

Owned == {g \in Generation : phase[g] \notin {"none", "over"}}

LEMMA InUseOwned == TypeOK /\ SocketsOwned => InUse = Owned
  BY DEF InUse, Owned, SocketsOwned, TypeOK

LEMMA InUseFinite == IsFiniteSet(InUse) /\ IsFiniteSet(Generation)
<1>1. IsFiniteSet(Generation)
  BY FS_Interval, MaxLifecycleAssumption DEF Generation
<1>2. InUse \subseteq Generation
  BY DEF InUse
<1> QED BY <1>1, <1>2, FS_Subset

\* The union of two finite sets has at most as many members as both together.
LEMMA UnionBound ==
  ASSUME NEW S, NEW T, IsFiniteSet(S), IsFiniteSet(T)
  PROVE  /\ IsFiniteSet(S \cup T)
         /\ Cardinality(S \cup T) <= Cardinality(S) + Cardinality(T)
<1>1. /\ IsFiniteSet(S \cup T)
      /\ Cardinality(S \cup T) = Cardinality(S) + Cardinality(T) - Cardinality(S \cap T)
  BY FS_Union
<1>2. IsFiniteSet(S \cap T)
  BY FS_Subset
<1>3. /\ Cardinality(S) \in Nat /\ Cardinality(T) \in Nat /\ Cardinality(S \cap T) \in Nat
  BY <1>2, FS_CardinalityType
<1> QED BY <1>1, <1>3

\* What _attempts_full counts is at least what is in use.
LEMMA GuardCounts ==
  ASSUME TypeOK, Struct, ~closed, ~AttemptsFull
  PROVE  Cardinality(InUse) + 1 <= MAX_CONNECT_ATTEMPTS
<1> DEFINE current == {engine} \ {None}
<1>1. IsFiniteSet(attempts) /\ IsFiniteSet(closing)
  BY InUseFinite, FS_Subset DEF TypeOK
<1>2. /\ IsFiniteSet(current)
      /\ Cardinality(current) = IF engine = None THEN 0 ELSE 1
  <2>1. CASE engine = None
    BY <2>1, FS_EmptySet DEF TypeOK
  <2>2. CASE engine # None
    <3>1. current = {engine}
      BY <2>2
    <3> QED BY <2>2, <3>1, FS_Singleton
  <2> QED BY <2>1, <2>2
<1>3. /\ IsFiniteSet(attempts \cup closing)
      /\ Cardinality(attempts \cup closing) <= Cardinality(attempts) + Cardinality(closing)
  BY <1>1, UnionBound
<1>4. /\ IsFiniteSet(attempts \cup closing \cup current)
      /\ Cardinality(attempts \cup closing \cup current)
           <= Cardinality(attempts \cup closing) + Cardinality(current)
  BY <1>2, <1>3, UnionBound
<1>5. InUse \subseteq attempts \cup closing \cup current
  BY InUseOwned, Numbers
     DEF Owned, Struct, BooksCover, Draining, LatestLifecycleWins, TypeOK, Phase, Connecting,
         Closing, closed
<1>6. Cardinality(InUse) <= Cardinality(attempts \cup closing \cup current)
  BY <1>4, <1>5, FS_Subset
<1>7. Cardinality(attempts) + Cardinality(closing) + Cardinality(current)
        < MAX_CONNECT_ATTEMPTS
  BY <1>1, <1>2, FS_CardinalityType, MaxAttemptsAssumption DEF AttemptsFull
<1> HIDE DEF current
<1>8. /\ Cardinality(InUse) \in Nat /\ Cardinality(attempts) \in Nat
      /\ Cardinality(closing) \in Nat /\ Cardinality(current) \in Nat
      /\ Cardinality(attempts \cup closing) \in Nat
      /\ Cardinality(attempts \cup closing \cup current) \in Nat
  BY <1>1, <1>2, <1>3, <1>4, InUseFinite, FS_CardinalityType
<1> QED BY <1>3, <1>4, <1>6, <1>7, <1>8, MaxAttemptsAssumption

LEMMA NewAttemptBounded ==
  ASSUME TypeOK, TypeOK', Struct, Struct', ~closed, ~AttemptsFull,
         NEW g \in Generation, StartConnect(g)
  PROVE  EnginesBounded'
<1>1. InUse' \subseteq InUse \cup {g}
  <2>1. InUse' = Owned'
    BY InUseOwned DEF InUse, Owned, Struct, SocketsOwned, TypeOK
  <2>2. Owned' \subseteq Owned \cup {g}
    BY Numbers DEF Owned, StartConnect, Detached, TypeOK, Struct, LatestLifecycleWins
  <2> QED BY <2>1, <2>2, InUseOwned DEF Struct
<1>2. /\ IsFiniteSet(InUse \cup {g})
      /\ Cardinality(InUse \cup {g}) <= Cardinality(InUse) + 1
  <2>1. IsFiniteSet({g}) /\ Cardinality({g}) = 1
    BY FS_Singleton
  <2> QED BY <2>1, InUseFinite, UnionBound
<1>3. Cardinality(InUse') <= Cardinality(InUse \cup {g})
  BY <1>1, <1>2, FS_Subset
<1>4. /\ Cardinality(InUse) \in Nat /\ Cardinality(InUse \cup {g}) \in Nat
      /\ Cardinality(InUse') \in Nat
  BY <1>1, <1>2, InUseFinite, FS_Subset, FS_CardinalityType
<1> QED BY <1>2, <1>3, <1>4, GuardCounts, MaxAttemptsAssumption DEF EnginesBounded

\* No other step brings an engine into use.
LEMMA OwnedShrinks ==
  ASSUME TypeOK, Struct, [Next]_vars,
         \A g \in Generation : ~Connect(g),
         ~(Resume /\ ResumeGuard /\ \E g \in Generation : StartConnect(g))
  PROVE  Owned' \subseteq Owned
<1> SUFFICES ASSUME NEW h \in Generation, phase[h] \in {"none", "over"}
             PROVE  phase'[h] \in {"none", "over"}
  BY DEF Owned
<1> USE DEF TypeOK
<1>1. ASSUME NEW g \in Generation, Report(g) \/ OpenConnection(g) \/ LoseConnection(g)
      PROVE  phase' = phase
  BY <1>1 DEF Report, OpenConnection, LoseConnection, clients
<1>2. ASSUME NEW g \in Generation,
             StartAttempt(g) \/ HandshakeEnds(g) \/ AttemptFailed(g) \/ ConnectResumes(g)
             \/ Retired(g) \/ CloseStarts(g) \/ CloseEnds(g) \/ DrainEnds(g)
      PROVE  phase'[h] \in {"none", "over"}
  BY <1>2 DEF StartAttempt, HandshakeEnds, Answered, HandshakeFails, AttemptFailed,
              ConnectResumes, Adopt, Retire, Retired, CloseStarts, CloseEnds, DrainEnds
<1>3. ASSUME NEW g \in Generation, CutShort(g) PROVE phase'[h] \in {"none", "over"}
  BY <1>3 DEF CutShort
<1>4. ASSUME NEW g \in Generation, DeliverReport(g) PROVE phase'[h] \in {"none", "over"}
  BY <1>4, Numbers DEF DeliverReport, EngineLost, Struct, LatestLifecycleWins
<1>5. CASE Disconnect
  BY <1>5, Numbers DEF Disconnect, Detached, Struct, LatestLifecycleWins
<1>6. CASE Aclose
  BY <1>6, Numbers DEF Aclose, AcloseBooks, Struct, LatestLifecycleWins
<1>7. CASE CancelShutdown
  BY <1>7 DEF CancelShutdown
<1>8. CASE Resume \/ SetPlayers \/ SetAnalysis \/ CancelTasks \/ ShutdownEnds
           \/ UNCHANGED vars
  BY <1>8 DEF Resume, SetPlayers, SetAnalysis, CancelTasks, ShutdownEnds, vars, clients
<1> QED BY <1>1, <1>2, <1>3, <1>4, <1>5, <1>6, <1>7, <1>8 DEF Next, Step

LEMMA BoundStep == IInv /\ TypeOK' /\ Struct' /\ [Next]_vars => EnginesBounded'
<1> SUFFICES ASSUME IInv, TypeOK', Struct', [Next]_vars PROVE EnginesBounded'
  OBVIOUS
<1>1. ASSUME NEW g \in Generation, Connect(g) PROVE EnginesBounded'
  BY <1>1, NewAttemptBounded DEF Connect, IInv
<1>2. ASSUME NEW g \in Generation, Resume, ResumeGuard, StartConnect(g)
      PROVE  EnginesBounded'
  BY <1>2, NewAttemptBounded DEF ResumeGuard, IInv
<1>3. CASE /\ \A g \in Generation : ~Connect(g)
           /\ ~(Resume /\ ResumeGuard /\ \E g \in Generation : StartConnect(g))
  <2>1. Owned' \subseteq Owned
    BY <1>3, OwnedShrinks DEF IInv
  <2>2. InUse' = Owned'
    BY InUseOwned DEF InUse, Owned, Struct, SocketsOwned, TypeOK
  <2>3. InUse' \subseteq InUse
    BY <2>1, <2>2, InUseOwned DEF IInv, Struct
  <2>4. Cardinality(InUse') <= Cardinality(InUse)
    BY <2>3, InUseFinite, FS_Subset
  <2>5. Cardinality(InUse') \in Nat /\ Cardinality(InUse) \in Nat
    BY <2>3, InUseFinite, FS_Subset, FS_CardinalityType
  <2> QED BY <2>4, <2>5, MaxAttemptsAssumption DEF IInv, EnginesBounded
<1> QED BY <1>1, <1>2, <1>3

LEMMA Invariance == Spec => []IInv
<1>1. Init => IInv
  <2>1. ASSUME Init PROVE EnginesBounded
    <3>1. InUse = {}
      BY <2>1 DEF Init, InUse
    <3> QED BY <3>1, FS_EmptySet, MaxAttemptsAssumption DEF EnginesBounded
  <2>2. Init => Retiring
    BY DEF Init, Retiring
  <2> QED BY <2>1, <2>2, TypeInit, StructInit DEF IInv
<1>2. IInv /\ [Next]_vars => IInv'
  BY TypeStep, RetiringStep, StructStep, BoundStep DEF IInv
<1> QED BY <1>1, <1>2, PTL DEF Spec

-----------------------------------------------------------------------------
(* What follows.                                                           *)

\* At most MAX_CONNECT_ATTEMPTS engines are connecting, connected or closing.
THEOREM EnginesAreBounded == Spec => []EnginesBounded
<1>1. IInv => EnginesBounded
  BY DEF IInv
<1> QED BY <1>1, Invariance, PTL

\* The session's engine is always that of the latest lifecycle.
THEOREM LatestWins == Spec => []LatestLifecycleWins
<1>1. IInv => LatestLifecycleWins
  BY DEF IInv, Struct
<1> QED BY <1>1, Invariance, PTL

\* A wanted engine that is not there is on its way.
THEOREM WantsHaveCause == Spec => []WantHasCause
<1>1. IInv => WantHasCause
  BY DEF IInv, Struct, Wanting, WantHasCause
<1> QED BY <1>1, Invariance, PTL

\* A finished shutdown leaves no task and no connection.
THEOREM ShutdownIsClean == Spec => []ShutdownLeavesNothing
<1>1. ASSUME IInv, shutdown = "done" PROVE InUse = {}
  <2> SUFFICES ASSUME NEW g \in Generation, phase[g] \notin {"none", "over"} PROVE FALSE
    BY <1>1, InUseOwned DEF Owned, IInv, Struct
  <2>1. phase[g] \notin Connecting \cup Closing
    BY <1>1 DEF IInv, Struct, Draining, Tasks
  <2>2. phase[g] # "draining"
    BY <1>1 DEF IInv, Struct, Draining
  <2>3. phase[g] # "adopted"
    BY <1>1, Numbers DEF IInv, Struct, LatestLifecycleWins, closed
  <2>4. phase[g] \in Phase
    BY <1>1 DEF IInv, TypeOK
  <2> QED BY <2>1, <2>2, <2>3, <2>4 DEF Phase, Connecting, Closing
<1>2. IInv => ShutdownLeavesNothing
  BY <1>1 DEF ShutdownLeavesNothing
<1> QED BY <1>2, Invariance, PTL

-----------------------------------------------------------------------------
(* Action properties and the refinement.                                   *)

\* The latest generation's task is a connecting one exactly while _connecting
\* names it.
PendingTask ==
  ~closed => \A g \in Generation :
               g = lifecycle => (phase[g] \in Connecting <=> connecting = g)

LEMMA PendingTaskInit == Init => PendingTask
  BY DEF Init, PendingTask, Connecting, Generation, None

LEMMA PendingTaskStep ==
  TypeOK /\ Struct /\ PendingTask /\ [Next]_vars => PendingTask'
<1> SUFFICES ASSUME TypeOK, Struct, PendingTask, [Next]_vars, ~closed',
                    NEW h \in Generation, h = lifecycle'
             PROVE  phase'[h] \in Connecting <=> connecting' = h
  BY DEF PendingTask
<1> USE Numbers DEF TypeOK, PendingTask, Connecting, closed
<1>1. ASSUME NEW g \in Generation, StartConnect(g)
      PROVE  phase'[h] \in Connecting <=> connecting' = h
  BY <1>1 DEF StartConnect, BeginLifecycle, Detached
<1>2. ASSUME NEW g \in Generation,
             Report(g) \/ OpenConnection(g) \/ LoseConnection(g) \/ DrainEnds(g) \/ CutShort(g)
      PROVE  phase'[h] \in Connecting <=> connecting' = h
  BY <1>2 DEF Report, OpenConnection, LoseConnection, DrainEnds, CutShort, books, clients
<1>3. ASSUME NEW g \in Generation,
             StartAttempt(g) \/ HandshakeEnds(g) \/ Retire(g) \/ CloseStarts(g) \/ CloseEnds(g)
      PROVE  phase'[h] \in Connecting <=> connecting' = h
  BY <1>3 DEF StartAttempt, HandshakeEnds, Answered, HandshakeFails, Retire, CloseStarts,
              CloseEnds, books
<1>4. ASSUME NEW g \in Generation, AttemptFailed(g) \/ Retired(g) \/ Adopt(g)
      PROVE  phase'[h] \in Connecting <=> connecting' = h
  BY <1>4 DEF AttemptFailed, Retired, Adopt, EndAttempt
<1>5. ASSUME NEW g \in Generation, DeliverReport(g)
      PROVE  phase'[h] \in Connecting <=> connecting' = h
  BY <1>5 DEF DeliverReport, EngineLost, Struct, LatestLifecycleWins
<1>6. CASE Disconnect
  BY <1>6 DEF Disconnect, BeginLifecycle, Detached, Struct, Fresh
<1>7. CASE UNCHANGED <<books, clients>> /\ UNCHANGED shutdown
  BY <1>7 DEF books, clients
<1>8. CASE Aclose \/ CancelTasks \/ CancelShutdown \/ ShutdownEnds
  BY <1>8 DEF Aclose, AcloseBooks, CancelTasks, CancelShutdown, ShutdownEnds
<1>9. CASE Resume \/ SetPlayers \/ SetAnalysis \/ UNCHANGED vars
  BY <1>1, <1>7, <1>9 DEF Resume, SetPlayers, SetAnalysis, vars
<1> QED BY <1>1, <1>2, <1>3, <1>4, <1>5, <1>6, <1>8, <1>9
           DEF Next, Step, Connect, ConnectResumes

LEMMA IntentStep == [Next]_vars => [closed' => UNCHANGED session]_vars
<1> SUFFICES ASSUME [Next]_vars, closed' PROVE UNCHANGED session \/ UNCHANGED vars
  OBVIOUS
<1> USE DEF closed
<1>1. ASSUME NEW g \in Generation, Step(g) PROVE UNCHANGED session
  BY <1>1 DEF Step, Connect, StartConnect, Report, MayReport, StartAttempt, OpenConnection,
     HandshakeEnds, Answered, HandshakeFails, AttemptFailed, Superseded, ConnectResumes, Adopt,
     Retire, Retired, CloseStarts, CloseEnds, LoseConnection, DeliverReport, DrainEnds, CutShort,
     session
<1>2. CASE Disconnect \/ Resume \/ SetPlayers \/ SetAnalysis
  BY <1>2 DEF Disconnect, Resume, ResumeGuard, StartConnect, SetPlayers, SetAnalysis
<1>3. CASE Aclose \/ CancelTasks \/ CancelShutdown \/ ShutdownEnds
  BY <1>3 DEF Aclose, AcloseBooks, CancelTasks, CancelShutdown, ShutdownEnds
<1> QED BY <1>1, <1>2, <1>3 DEF Next

LEMMA DisarmStep ==
  ASSUME TypeOK, Struct, Retiring, [Next]_vars, Engaged, ~Engaged', ~closed'
  PROVE  ~playersOn' /\ ~analysisOn' /\ ~figures'
<1> USE Numbers DEF Engaged, Pending, closed, WithoutEngine
<1>1. ASSUME NEW g \in Generation, StartConnect(g) PROVE Pending'
  BY <1>1 DEF StartConnect, BeginLifecycle
<1>2. ASSUME NEW g \in Generation,
             Report(g) \/ StartAttempt(g) \/ OpenConnection(g) \/ HandshakeEnds(g) \/ Retire(g)
             \/ CloseStarts(g) \/ LoseConnection(g)
      PROVE  Engaged'
  BY <1>2 DEF Report, StartAttempt, OpenConnection, HandshakeEnds, Answered, HandshakeFails,
     Retire, CloseStarts, LoseConnection, books, session
<1>3. ASSUME NEW g \in Generation, CloseEnds(g) \/ DrainEnds(g) \/ CutShort(g) PROVE Engaged'
  BY <1>3 DEF CloseEnds, DrainEnds, CutShort, session
<1>4. ASSUME NEW g \in Generation, Superseded(g), AttemptFailed(g) \/ Retired(g)
      PROVE  Engaged'
  BY <1>4 DEF AttemptFailed, Retired, Superseded, EndAttempt, session
<1>5. ASSUME NEW g \in Generation, AttemptFailed(g), ~Superseded(g)
      PROVE  ~playersOn' /\ ~analysisOn' /\ ~figures'
  BY <1>5 DEF AttemptFailed
<1>6. ASSUME NEW g \in Generation, Adopt(g) PROVE Engaged'
  BY <1>6 DEF Adopt
<1>7. ASSUME NEW g \in Generation, DeliverReport(g)
      PROVE  Engaged' \/ (~playersOn' /\ ~analysisOn' /\ ~figures')
  BY <1>7 DEF DeliverReport, EngineLost, session
<1>8. ASSUME NEW g \in Generation, Retired(g) PROVE Superseded(g)
  BY <1>8 DEF Retired, Retiring
<1>9. CASE Disconnect \/ (Resume /\ wantConnected' = FALSE /\ WithoutEngine)
  BY <1>9 DEF Disconnect
<1>10. CASE UNCHANGED <<books, session>>
  BY <1>10 DEF books, session
<1>11. CASE SetPlayers \/ SetAnalysis \/ CancelTasks \/ CancelShutdown \/ ShutdownEnds
            \/ UNCHANGED vars
  BY <1>11, <1>10 DEF SetPlayers, SetAnalysis, CancelTasks, CancelShutdown, ShutdownEnds, vars,
                      books
<1>12. CASE Resume
  BY <1>1, <1>9, <1>10, <1>12 DEF Resume
<1>13. ~Aclose
  BY DEF Aclose, AcloseBooks
<1> QED BY <1>1, <1>2, <1>3, <1>4, <1>5, <1>6, <1>7, <1>8, <1>9, <1>11, <1>12, <1>13
           DEF Next, Step, Connect, ConnectResumes

\* Every way to come to be without an engine leaves nothing armed and no figures, and nothing
\* after the start of a shutdown touches what its last snapshot says was running.
THEOREM LeavingAlwaysDisarms == Spec => OnlyLeavingDisarms
<1>1. ASSUME IInv, [Next]_vars
      PROVE  \/ IF closed' THEN UNCHANGED session
               ELSE Engaged /\ ~Engaged' => ~playersOn' /\ ~analysisOn' /\ ~figures'
             \/ UNCHANGED vars
  <2>1. CASE closed'
    BY <1>1, <2>1, IntentStep
  <2>2. CASE ~closed'
    BY <1>1, <2>2, DisarmStep DEF IInv
  <2> QED BY <2>1, <2>2
<1>2. IInv /\ [Next]_vars
        => [IF closed' THEN UNCHANGED session
            ELSE Engaged /\ ~Engaged' => ~playersOn' /\ ~analysisOn' /\ ~figures']_vars
  BY <1>1
<1> QED BY <1>2, Invariance, PTL DEF Spec, OnlyLeavingDisarms

LEMMA SlotStep ==
  TypeOK /\ Struct /\ Retiring /\ PendingTask /\ [Next]_vars => [Slot!Next]_ShownToTabs
<1> SUFFICES ASSUME TypeOK, Struct, Retiring, PendingTask, [Next]_vars
             PROVE  [Slot!Next]_ShownToTabs
  OBVIOUS
<1> USE Numbers DEF ShownToTabs, Pending, closed
\* closed for good, and from anywhere
<1>1. CASE shutdown # "no"
  <2>1. shutdown' # "no"
    BY <1>1 DEF Next, Step, Connect, StartConnect, Report, StartAttempt, OpenConnection,
       HandshakeEnds, Answered, HandshakeFails, AttemptFailed, ConnectResumes, Adopt, Retire,
       Retired, CloseStarts, CloseEnds, LoseConnection, DeliverReport, DrainEnds, CutShort,
       Disconnect, Resume, ResumeGuard, SetPlayers, SetAnalysis, Aclose, AcloseBooks,
       CancelTasks, CancelShutdown, ShutdownEnds, vars
  <2> QED BY <1>1, <2>1
<1>2. CASE shutdown = "no" /\ shutdown' # "no"
  BY <1>2 DEF Slot!Next, Slot!Shut
<1>3. CASE shutdown = "no" /\ shutdown' = "no"
  <2> USE <1>3 DEF Slot!Next
  \* a pending connect is never shown as connected
  <2>1. engine # None => ~Pending
    BY DEF Struct, LatestLifecycleWins, PendingTask, Connecting, TypeOK
  <2>2. ASSUME NEW g \in Generation, StartConnect(g) PROVE [Slot!Next]_ShownToTabs
    <3>1. engine' = None /\ Pending'
      BY <2>2 DEF StartConnect, BeginLifecycle
    <3> QED BY <3>1 DEF Slot!Ask
  <2>3. ASSUME NEW g \in Generation, Adopt(g) PROVE [Slot!Next]_ShownToTabs
    <3>1. Pending /\ engine = None /\ engine' # None
      BY <2>3 DEF Adopt, Superseded, PendingTask, Connecting, Struct, LatestLifecycleWins
    <3> QED BY <3>1 DEF Slot!Settle
  <2>4. ASSUME NEW g \in Generation, AttemptFailed(g) \/ Retired(g)
        PROVE  [Slot!Next]_ShownToTabs
    <3>1. engine' = engine /\ lifecycle' = lifecycle /\ connecting' \in {None, connecting}
      BY <2>4 DEF AttemptFailed, Retired, EndAttempt
    <3> QED BY <3>1 DEF Slot!Settle
  <2>5. ASSUME NEW g \in Generation, DeliverReport(g) PROVE [Slot!Next]_ShownToTabs
    <3>1. lifecycle' = lifecycle /\ connecting' = connecting /\ engine' \in {None, engine}
      BY <2>5 DEF DeliverReport, EngineLost
    <3> QED BY <2>1, <3>1 DEF Slot!Lose
  <2>6. CASE Disconnect
    <3>1. engine' = None /\ ~Pending'
      BY <2>6 DEF Disconnect, BeginLifecycle, Struct, Fresh
    <3> QED BY <2>1, <3>1 DEF Slot!Lose, Slot!Settle
  <2>7. CASE UNCHANGED <<lifecycle, engine, connecting>>
    BY <2>7
  <2>8. ASSUME NEW g \in Generation,
               Report(g) \/ StartAttempt(g) \/ OpenConnection(g) \/ HandshakeEnds(g)
               \/ Retire(g) \/ CloseStarts(g) \/ CloseEnds(g) \/ LoseConnection(g)
        PROVE  UNCHANGED <<lifecycle, engine, connecting>>
    BY <2>8 DEF Report, StartAttempt, OpenConnection, HandshakeEnds, Answered, HandshakeFails,
       Retire, CloseStarts, CloseEnds, LoseConnection, books
  <2>9. ASSUME NEW g \in Generation, DrainEnds(g) \/ CutShort(g) PROVE FALSE
    BY <2>9 DEF DrainEnds, CutShort
  <2>10. CASE SetPlayers \/ SetAnalysis \/ CancelTasks \/ CancelShutdown \/ ShutdownEnds
              \/ UNCHANGED vars
    BY <2>7, <2>10 DEF SetPlayers, SetAnalysis, CancelTasks, CancelShutdown, ShutdownEnds, vars,
                       books
  <2>11. CASE Resume
    BY <2>2, <2>7, <2>11 DEF Resume, books
  <2>12. ~Aclose
    BY DEF Aclose, AcloseBooks
  <2> QED BY <2>2, <2>3, <2>4, <2>5, <2>6, <2>7, <2>8, <2>9, <2>10, <2>11, <2>12
             DEF Next, Step, Connect, ConnectResumes
<1> QED BY <1>1, <1>2, <1>3

\* Whatever the tasks, losses and shutdowns do, the tabs see one engine slot: it
\* becomes connected only from a pending connect, and closed is for good.
THEOREM ImplementsSlot == Spec => Slot!Init /\ [][Slot!Next]_ShownToTabs
<1>1. Init => Slot!Init
  BY DEF Init, Slot!Init, ShownToTabs, Pending, closed
<1>2. Spec => []PendingTask
  <2>1. IInv /\ PendingTask /\ [Next]_vars => PendingTask'
    BY PendingTaskStep DEF IInv
  <2> QED BY <2>1, PendingTaskInit, Invariance, PTL DEF Spec
<1>3. IInv /\ PendingTask /\ [Next]_vars => [Slot!Next]_ShownToTabs
  BY SlotStep DEF IInv
<1> QED BY <1>1, <1>2, <1>3, Invariance, PTL DEF Spec

=============================================================================
