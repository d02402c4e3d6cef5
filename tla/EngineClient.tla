---------------------------- MODULE EngineClient ----------------------------
(***************************************************************************)
(* What the three engine clients share (engine/base.py and the line        *)
(* connection of engine/transport.py): whether the connection still can be *)
(* used, the report of its loss, and the calls of the session.             *)
(*                                                                         *)
(* The session makes one call at a time (its lock), closes the client at   *)
(* any moment beside it, and cancels calls only when it shuts down.  The   *)
(* peer is the engine: it answers or not, hangs up, or stops reading.      *)
(***************************************************************************)
EXTENDS Naturals, Sequences, FiniteSets

CONSTANT
  Behaviours  \* what the behaviours are drawn from: [protocol, trouble]

VARIABLES
  protocol,  \* which client create_engine made: "gtp", "handol" or "analysis"
  trouble,   \* what else may happen: "close" the session closes the client, "cancel" it
             \* cancels a call, "hangup" the engine closes the connection, "stall" a send
             \* stalls or a line has no end, "stray" the engine answers what it was not asked
  failure,   \* _failure: "none", "unusable" or "closed" (a ConnectionClosed)
  closing,   \* _closing
  report,    \* the loss: "none", "scheduled" (call_soon), "delivered", "dropped"
  sock,      \* the socket: "up", "broken" (a stalled send, an overlong line), "down"
  peer,      \* the engine still holds its end
  reader,    \* the read loop runs
  at,        \* the session's call: "idle", "ready", "stopping", "asking", "reading"
  closer,    \* the session's close: "idle", "ready", "stopping", "asking", "tearing", "done"
  heard      \* the last report: "nothing", "current", or of a request that was "left"

conn     == <<failure, closing, report>>
wire     == <<sock, peer, reader>>
setting  == <<protocol, trouble>>
baseVars == <<setting, conn, wire, at, closer, heard>>

BaseType ==
  /\ failure \in {"none", "unusable", "closed"}
  /\ closing \in BOOLEAN
  /\ report \in {"none", "scheduled", "delivered", "dropped"}
  /\ sock \in {"up", "broken", "down"}
  /\ peer \in BOOLEAN
  /\ reader \in BOOLEAN
  /\ at \in {"idle", "ready", "stopping", "asking", "reading"}
  /\ closer \in {"idle", "ready", "stopping", "asking", "tearing", "done"}
  /\ heard \in {"nothing", "current", "left"}

\* _arm and a fresh LineConnection, connected
BaseInit ==
  /\ \E b \in Behaviours : protocol = b.protocol /\ trouble = b.trouble
  /\ failure = "none"
  /\ closing = FALSE
  /\ report = "none"
  /\ sock = "up"
  /\ peer = TRUE
  /\ reader = TRUE
  /\ at = "ready"
  /\ closer = "idle"
  /\ heard = "nothing"

-----------------------------------------------------------------------------
(* Failure bookkeeping (base.py).                                          *)

\* _set_failure: the first failure stays, unless the connection is closed after it
Worse(f) == IF failure = "closed" \/ (failure # "none" /\ f # "closed") THEN failure ELSE f

Unusable == failure' = Worse("unusable") /\ UNCHANGED <<closing, report>>

\* bug: a connection already known unusable is not reported when it is lost
Lost_Known ==
  /\ failure' = Worse("closed")
  /\ closing' = closing
  /\ report' = IF failure # "none" \/ closing \/ report # "none" THEN report ELSE "scheduled"

\* _lost: dead first, then the report is scheduled, once
Lost ==
  /\ failure' = Worse("closed")
  /\ closing' = closing
  /\ report' = IF failure = "closed" \/ closing \/ report # "none" THEN report ELSE "scheduled"

\* _report_disconnect; _close_engine takes the callback away first
Report ==
  /\ report = "scheduled"
  /\ report' = IF closer = "idle" THEN "delivered" ELSE "dropped"
  /\ UNCHANGED <<setting, failure, closing, wire, at, closer, heard>>

-----------------------------------------------------------------------------
(* The line connection (transport.py).                                     *)

\* write_line accepted by the peer or by the socket's buffer
CanSend == failure = "none" /\ sock = "up"

\* write_line past its limit: the connection is dropped and the client unusable
Stalls == "stall" \in trouble /\ CanSend /\ sock' = "broken" /\ Unusable /\ UNCHANGED <<peer, reader>>

\* write_line on a connection that is closed, or was reset by the peer
WriteLost == failure = "none" /\ (sock = "down" \/ ~peer) /\ Lost /\ UNCHANGED wire

\* the socket is broken by another writer: unusable
WriteBroken == failure = "none" /\ sock = "broken" /\ Unusable /\ UNCHANGED wire

\* _check: nothing is sent on a connection that failed
Refused == failure # "none" /\ UNCHANGED <<conn, wire>>

SendFails == Stalls \/ WriteLost \/ WriteBroken \/ Refused

HangsUp ==
  /\ "hangup" \in trouble /\ peer
  /\ peer' = FALSE
  /\ UNCHANGED <<setting, conn, sock, reader, at, closer, heard>>

\* read_line ends the read loop, which must be waiting in it: the peer closed, or sent a line
\* without end, or we dropped the socket ourselves
ReaderEnds ==
  /\ reader
  /\ reader' = FALSE
  /\ \/ ~peer /\ sock = "up" /\ Lost /\ UNCHANGED sock
     \/ "stall" \in trouble /\ sock = "up" /\ sock' = "broken" /\ Unusable
     \/ sock = "broken" /\ Unusable /\ UNCHANGED sock
  /\ UNCHANGED <<setting, peer, at, closer, heard>>

\* _teardown: the reader is cancelled, the socket closed within its grace, the client dead
TornDown ==
  /\ failure' = "closed"
  /\ closing' = TRUE
  /\ reader' = FALSE
  /\ sock' = "down"
  /\ UNCHANGED <<report, peer>>
=============================================================================
