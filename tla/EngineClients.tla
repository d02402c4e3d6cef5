---------------------------- MODULE EngineClients ----------------------------
(***************************************************************************)
(* The engine client of a session, whichever of the three its target's     *)
(* protocol calls for (create_engine), and what the session may rely on.   *)
(* The protocol is chosen once; the variables of the other two rest.       *)
(***************************************************************************)
EXTENDS GtpClient, HandolClient, AnalysisClient

vars == <<baseVars, gtpVars, handolVars, analysisVars>>

Init ==
  /\ BaseInit /\ GtpInit /\ HandolInit /\ AnalysisInit
  /\ protocol # "gtp" => /\ skills = CHOOSE s \in Skills : TRUE
                         /\ board.key = CHOOSE k \in Keys : TRUE

Next ==
  \/ protocol = "gtp" /\ GtpNext /\ UNCHANGED <<handolVars, analysisVars>>
  \/ protocol = "handol" /\ HandolNext /\ UNCHANGED <<gtpVars, analysisVars>>
  \/ protocol = "analysis" /\ AnalysisNext /\ UNCHANGED <<gtpVars, handolVars>>

Fairness == GtpFair /\ HandolFair /\ AnalysisFair

Spec     == Init /\ [][Next]_vars
FairSpec == Spec /\ Fairness

-----------------------------------------------------------------------------
TypeOK == BaseType /\ GtpType /\ HandolType /\ AnalysisType

\* What a call is given was answered to it.  GTP: no reply to a command given up is left for
\* the next one, and no stream task takes lines from under a command.  handol: nothing late
\* is on the connection a request is sent on.  Analysis: a future gets the message with its
\* id, whatever comes in between.
AnswersAreOwn ==
  /\ [](OwnReply /\ OneReader)
  /\ [](\A r \in Requests : State(r) = "sent" => surface[Channel(r)] # "stale")
  /\ [][reply' = "answered" /\ reply # "answered" =>
          [id |-> waiter, kind |-> "final"] \in answers]_vars

\* What was left stays left.  No report reaches the session of an analysis that was stopped
\* (the stop returned) or replaced by another, however late its answer or the end of its
\* stream comes; and a client that is closed, or was aborted, has let go of everything: no
\* reader, no channel that a request still running reopened, no handler, no job that waits.
LeavingIsFinal ==
  /\ heard # "left"
  /\ closer = "done" =>
       /\ failure = "closed" /\ ~reader
       /\ \A c \in Channels : link[c] # "up"
       /\ handlers = {} /\ live = 0 /\ pending = 0

\* Every call returns, whatever the engine does or does not do; only a search that streams
\* may take as long as the engine goes on reporting.
CallsEnd == at \in {"ready", "stopping", "asking"} ~> at \in {"idle", "reading"}

\* Nobody takes the lines the GTP reader is blocked on.
Unread == /\ protocol = "gtp" /\ Blocked
          /\ stream # "reading" /\ at \notin {"asking", "reading"} /\ closer # "asking"

\* The reader gave up for what it read (a line without end, not JSON) or for a broken socket.
GaveUp == failure = "unusable" /\ ~reader

\* A lost connection is reported: when the peer hangs up on a client that reads and that
\* nobody closes, on_disconnect is called, whatever failed before.  The exceptions are a client
\* whose reader gave up before it came to the hang-up, and a GTP client for which lines wait
\* that nobody will ever read.
LossReported ==
  (~peer /\ reader /\ sock = "up") ~> (report = "delivered" \/ closing \/ GaveUp \/ []Unread)
=============================================================================
