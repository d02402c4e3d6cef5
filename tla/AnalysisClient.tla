--------------------------- MODULE AnalysisClient ---------------------------
(***************************************************************************)
(* The client of the KataGo analysis engine (engine/analysis.py): queries  *)
(* carry an id, several run at once, and what comes back is matched by id  *)
(* in any order: to the waiter of a request, to the handler of the running *)
(* analysis, or to nobody.                                                 *)
(*                                                                         *)
(* Ids are counters the code only compares: a new one is any that nothing  *)
(* refers to, at either end: the least of them.                            *)
(***************************************************************************)
EXTENDS EngineClient

CONSTANTS
  QueryIds,   \* as many as can be referred to at once; 0 is none
  MaxAnswers  \* bound: how far the engine runs ahead of the client

ASSUME QueryIdsAssumption == QueryIds \subseteq Nat \ {0}

VARIABLES
  request,   \* the session's call: "none", "connect", "genmove", "start", "stop"
  waiter,    \* _waiters: the id waited for, or 0
  reply,     \* its future: "waiting", "failed" or "answered"
  handlers,  \* _handlers: the ids whose reports are delivered
  live,      \* _live: the id of the analysis, or 0
  wanted,    \* the analysis the session has started and not left, or 0
  queries,   \* sent and not read by the engine: [id, terminate]
  running,   \* the queries the engine works on
  answers    \* what came back and is not read: [id, kind]

asked        == <<waiter, reply>>
analysis     == <<handlers, live, wanted>>
katago       == <<queries, running, answers>>
analysisVars == <<request, asked, analysis, katago>>

AnalysisInit ==
  /\ request = "connect"
  /\ waiter = 0
  /\ reply = "waiting"
  /\ handlers = {}
  /\ live = 0
  /\ wanted = 0
  /\ queries = <<>>
  /\ running = {}
  /\ answers = {}

InUse  == {waiter, live, wanted} \cup handlers \cup running \cup {m.id : m \in answers}
          \cup {queries[i].id : i \in DOMAIN queries}
Unused == QueryIds \ InUse
NextId == {id \in Unused : \A other \in Unused : id <= other}

-----------------------------------------------------------------------------
\* _set_failure with _on_failure: a failure that is kept fails the waiter and drops the
\* analysis
Failing(sets) ==
  /\ sets
  /\ IF failure' # failure
     THEN /\ handlers' = {} /\ live' = 0
          /\ waiter' = 0
          /\ reply' = IF waiter # 0 THEN "failed" ELSE reply
     ELSE UNCHANGED <<handlers, live, asked>>

Query(id)     == [id |-> id, terminate |-> FALSE]
Terminate(id) == [id |-> id, terminate |-> TRUE]

\* _dispatch to a waiter or to a handler, by id
AnalysisDispatch(m) ==
  IF waiter = m.id
  THEN /\ IF m.kind = "report" THEN UNCHANGED asked
          ELSE waiter' = 0 /\ reply' = IF m.kind = "error" THEN "failed" ELSE "answered"
       /\ UNCHANGED <<handlers, live, heard>>
  ELSE IF m.id \in handlers
  THEN /\ handlers' = IF m.kind = "report" THEN handlers ELSE handlers \ {m.id}
       /\ live' = IF m.kind # "report" /\ live = m.id THEN 0 ELSE live
       /\ heard' = IF m.kind = "error" THEN heard ELSE IF m.id = wanted THEN "current" ELSE "left"
       /\ UNCHANGED asked
  ELSE UNCHANGED <<asked, handlers, live, heard>>

-----------------------------------------------------------------------------
(* Calls.                                                                  *)

Same == UNCHANGED <<setting, heard>>

AnalysisBegin ==
  /\ at = "idle" /\ Unused # {}
  /\ request' \in {"genmove", "start", "stop"}
  /\ at' = "ready"
  /\ UNCHANGED <<asked, analysis, katago, setting, conn, wire, closer, heard>>

\* bug: a stopped analysis keeps its handler until the engine ends it
Leave_Handler ==
  /\ live' = 0
  /\ wanted' = 0
  /\ \/ /\ live = 0 \/ failure # "none"
        /\ UNCHANGED <<handlers, asked, queries, conn, wire>>
     \/ /\ live # 0 /\ CanSend
        /\ queries' = Append(queries, Terminate(live))
        /\ UNCHANGED <<handlers, asked, conn, wire>>
     \/ /\ live # 0 /\ failure = "none"
        /\ Failing(SendFails)
        /\ UNCHANGED queries

\* stop_analysis: nothing of the analysis reaches anyone from here on; the engine is told
Leave ==
  /\ wanted' = 0
  /\ \/ /\ live = 0 \/ failure # "none"
        /\ live' = 0
        /\ handlers' = handlers \ {live}
        /\ UNCHANGED <<asked, queries, conn, wire>>
     \/ /\ live # 0 /\ CanSend
        /\ live' = 0
        /\ handlers' = handlers \ {live}
        /\ queries' = Append(queries, Terminate(live))
        /\ UNCHANGED <<asked, conn, wire>>
     \/ /\ live # 0 /\ failure = "none"
        /\ Failing(SendFails)
        /\ UNCHANGED queries

\* Every call first leaves the running analysis.
LeavesFirst ==
  /\ at = "ready" /\ request # "connect"
  /\ Leave
  /\ at' = IF request = "stop" THEN "idle" ELSE "stopping"
  /\ Same /\ UNCHANGED <<request, running, answers, closer>>

\* start_analysis, once the old one is left: the handler is there before the query is sent
StartsAnalysis ==
  /\ at = "stopping" /\ request = "start"
  /\ at' = "idle"
  /\ \/ /\ CanSend
        /\ \E id \in NextId :
             /\ queries' = Append(queries, Query(id))
             /\ handlers' = handlers \cup {id}
             /\ live' = id
             /\ wanted' = id
        /\ UNCHANGED <<asked, conn, wire>>
     \/ Failing(SendFails) /\ UNCHANGED <<wanted, queries>>
  /\ Same /\ UNCHANGED <<request, running, answers, closer>>

Ends == at' = "idle" /\ UNCHANGED <<request, closer>>

\* A connect that fails tears itself down.
Fallen(becomes) == Failing(IF request = "connect" THEN TornDown ELSE becomes)

\* _request: the waiter is registered, the query sent
Asks ==
  /\ at = (IF request = "connect" THEN "ready" ELSE "stopping") /\ request # "start"
  /\ \/ /\ CanSend
        /\ \E id \in NextId : queries' = Append(queries, Query(id)) /\ waiter' = id
        /\ reply' = "waiting"
        /\ at' = "asking"
        /\ UNCHANGED <<request, closer, handlers, live, conn, wire>>
     \/ Fallen(SendFails) /\ Ends /\ UNCHANGED queries
  /\ Same /\ UNCHANGED <<wanted, running, answers>>

\* The future is done: the answer, or the error, is the call's.
RequestEnds ==
  /\ at = "asking" /\ reply # "waiting"
  /\ IF reply = "failed" THEN Fallen(UNCHANGED <<conn, wire>>)
     ELSE UNCHANGED <<asked, handlers, live, conn, wire>>
  /\ Ends
  /\ Same /\ UNCHANGED <<wanted, katago>>

\* No answer in time, or the call is cancelled: the connection is unusable.
RequestTimesOut ==
  /\ at = "asking" /\ reply = "waiting"
  /\ Fallen(Unusable /\ UNCHANGED wire)
  /\ Ends
  /\ Same /\ UNCHANGED <<wanted, katago>>

AnalysisCancelled ==
  /\ "cancel" \in trouble /\ at # "idle"
  /\ Fallen((IF at = "asking" THEN Unusable ELSE UNCHANGED conn) /\ UNCHANGED wire)
  /\ Ends
  /\ Same /\ UNCHANGED <<wanted, katago>>

\* close: the analysis is left, then everything is torn down; or the session aborts it
AnalysisClose ==
  /\ \/ /\ "close" \in trouble /\ closer = "idle" /\ request # "connect"
        /\ closer' = "ready"
        /\ closing' = TRUE
        /\ UNCHANGED <<asked, analysis, queries, failure, report, wire>>
     \/ /\ closer = "ready"
        /\ closer' = "tearing"
        /\ Leave
     \/ /\ closer \in {"ready", "tearing"}
        /\ closer' = "done"
        /\ Failing(TornDown)
        /\ UNCHANGED <<wanted, queries>>
  /\ Same /\ UNCHANGED <<request, running, answers, at>>

-----------------------------------------------------------------------------
\* The read loop takes a message; while it connects, a line that is no JSON ends it.
Reads ==
  /\ reader
  /\ \E m \in answers :
       /\ answers' = answers \ {m}
       /\ AnalysisDispatch(m)
  /\ UNCHANGED <<request, wanted, queries, running, setting, conn, wire, at, closer>>

NotJson ==
  /\ "stray" \in trouble /\ reader /\ request = "connect" /\ at # "idle"
  /\ Failing(Unusable /\ reader' = FALSE /\ UNCHANGED <<sock, peer>>)
  /\ Same /\ UNCHANGED <<request, wanted, katago, at, closer>>

Tells ==
  /\ Failing(Report \/ ReaderEnds)
  /\ UNCHANGED <<request, wanted, katago>>

\* The engine takes a query or an order to end one, and reports, ends or refuses any query
\* that runs.  A stray answer has an id of its own.
KataGo ==
  /\ peer /\ reader /\ Cardinality(answers) < MaxAnswers
  /\ \/ /\ queries # <<>>
        /\ queries' = Tail(queries)
        /\ LET q == Head(queries) IN
             IF q.terminate THEN running' = running \ {q.id}
             ELSE running' = running \cup {q.id}
        /\ UNCHANGED answers
     \/ \E id \in running, kind \in {"report", "final", "error"} :
          /\ answers' = answers \cup {[id |-> id, kind |-> kind]}
          /\ running' = IF kind = "report" THEN running ELSE running \ {id}
          /\ UNCHANGED queries
     \/ /\ "stray" \in trouble /\ Cardinality(Unused) > 1
        /\ \E id \in NextId : answers' = answers \cup {[id |-> id, kind |-> "final"]}
        /\ UNCHANGED <<queries, running>>
  /\ UNCHANGED <<request, asked, analysis, baseVars>>

AnalysisCaller == LeavesFirst \/ StartsAnalysis \/ Asks \/ RequestEnds \/ RequestTimesOut

AnalysisNext ==
  \/ AnalysisCaller \/ AnalysisBegin \/ AnalysisCancelled \/ AnalysisClose
  \/ Reads \/ NotJson \/ Tells \/ KataGo
  \/ (HangsUp /\ UNCHANGED analysisVars)

AnalysisFair ==
  /\ WF_<<baseVars, analysisVars>>(protocol = "analysis" /\ AnalysisCaller)
  /\ WF_<<baseVars, analysisVars>>(protocol = "analysis" /\ Tells)

-----------------------------------------------------------------------------
AnalysisType ==
  /\ {waiter, live, wanted} \subseteq QueryIds \cup {0}
  /\ reply \in {"waiting", "failed", "answered"}
  /\ handlers \subseteq QueryIds
  /\ running \subseteq QueryIds
=============================================================================
