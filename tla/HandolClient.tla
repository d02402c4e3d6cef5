---------------------------- MODULE HandolClient ----------------------------
(***************************************************************************)
(* The handol-mux client (engine/handol.py): two channels of one request   *)
(* and one answer at a time, reopened and retried once after a hang-up,    *)
(* and one drain task that answers for the newest analysis only.           *)
(*                                                                         *)
(* Three requests can be under way: "move" is the session's genmove,       *)
(* "policy" and "winrate" are the two halves of the drain's job.  A job is *)
(* named by its token; a new one is the least that the job under way does  *)
(* not have (the other references to a token are replaced with it).        *)
(***************************************************************************)
EXTENDS EngineClient

CONSTANT Tokens  \* names of analysis jobs; 0 is none

ASSUME TokensAssumption == Tokens \subseteq Nat \ {0} /\ \A t \in Tokens : Tokens # {t}

Channels == {"human", "eval"}
Requests == {"move", "policy", "winrate"}
Channel(r) == IF r = "winrate" THEN "eval" ELSE "human"

VARIABLES
  ask,      \* the session's call: "none", "connect", "genmove", "start", "stop"
  link,     \* conn of a channel: "none", "up", or "gone" when the surface closed it
  opened,   \* opened: the channels that have been open
  retired,  \* retired, of both channels
  held,     \* the lock of a channel: the request that has it, or "none"
  req,      \* the requests: [state, losses]
  pending,  \* _pending: the token of the job not yet taken, or 0
  current,  \* _live: the token of the analysis, or 0
  drain,    \* _drain_task runs
  work,     \* the job it works on, or 0
  sought,   \* the analysis the session has started and not left, or 0
  surface   \* what is on its way, of a channel: "nothing", "asked", or a late answer "stale"

chans      == <<link, opened, retired>>
jobs       == <<pending, current, drain, work, sought>>
handolVars == <<ask, chans, held, req, jobs, surface>>

Resting == [state |-> "none", losses |-> 0]

HandolInit ==
  /\ ask = "connect"
  /\ link = [c \in Channels |-> "none"]
  /\ opened = {}
  /\ retired = FALSE
  /\ held = [c \in Channels |-> "none"]
  /\ req = [r \in Requests |-> Resting]
  /\ pending = 0
  /\ current = 0
  /\ drain = FALSE
  /\ work = 0
  /\ sought = 0
  /\ surface = [c \in Channels |-> "nothing"]

Unnamed   == Tokens \ {work}
NextToken == {t \in Unnamed : \A other \in Unnamed : t <= other}

State(r) == req[r].state
Becomes(r, s) == req' = [req EXCEPT ![r].state = s]

\* _set_failure with _on_failure: a failure that is kept drops the analysis
Dropping(sets) ==
  /\ sets
  /\ IF failure' # failure THEN pending' = 0 /\ current' = 0
     ELSE UNCHANGED <<pending, current>>

-----------------------------------------------------------------------------
(* A request (_Channel.request).                                           *)

\* What a request that ends leaves: its channel as it is, or closed.
Unheld(r) == [c \in Channels |-> IF held[c] = r THEN "none" ELSE held[c]]
Drop(c)   == /\ link' = [link EXCEPT ![c] = "none"]
             /\ surface' = [surface EXCEPT ![c] = "nothing"]

Done(r, s) == Becomes(r, s) /\ held' = Unheld(r)

\* Only the human channel's second loss, or failed reopening, is the engine's.
LossOf(c) == Dropping(IF c = "human" THEN Lost ELSE UNCHANGED conn)

\* A loss: the first is tried again, unless the engine closes meanwhile.
Loses(r) ==
  LET c == Channel(r) IN
  /\ Drop(c)
  /\ IF retired
     THEN Done(r, "failed") /\ UNCHANGED <<conn, pending, current>>
     ELSE IF req[r].losses = 0
     THEN /\ req' = [req EXCEPT ![r] = [state |-> "trying", losses |-> 1]]
          /\ UNCHANGED <<held, conn, pending, current>>
     ELSE Done(r, "failed") /\ LossOf(c)

Quiet == UNCHANGED <<conn, pending, current>>

Takes(r) ==
  /\ State(r) = "waiting" /\ held[Channel(r)] = "none"
  /\ IF failure # "none"
     THEN Done(r, "failed")
     ELSE Becomes(r, "trying") /\ held' = [held EXCEPT ![Channel(r)] = r]
  /\ Quiet /\ UNCHANGED <<link, surface, opened>>

\* bug: the retired flag is looked at only before the channel is opened
Opens_Unchecked(r) ==
  LET c == Channel(r) IN
  /\ State(r) = "opening"
  /\ Becomes(r, "trying")
  /\ link' = [link EXCEPT ![c] = "up"]
  /\ opened' = opened \cup {c}
  /\ Quiet /\ UNCHANGED <<held, surface>>

\* open: the connection made, or given up when the engine was closed meanwhile; a channel
\* that cannot be reopened is lost
Opens(r) ==
  LET c == Channel(r) IN
  /\ State(r) = "opening"
  /\ \/ /\ ~retired
        /\ Becomes(r, "trying")
        /\ link' = [link EXCEPT ![c] = "up"]
        /\ opened' = opened \cup {c}
        /\ Quiet /\ UNCHANGED <<held, surface>>
     \/ /\ retired
        /\ Done(r, "failed")
        /\ Quiet /\ UNCHANGED <<link, surface, opened>>
     \/ /\ "hangup" \in trouble
        /\ Done(r, "failed")
        /\ IF c \in opened /\ ~retired THEN LossOf(c) ELSE Quiet
        /\ UNCHANGED <<link, surface, opened>>

\* The top of the loop: a channel closed by the surface is one loss, one that is not open is
\* opened, else the request is written; a send that stalls fails this request alone.
Tries(r) ==
  LET c == Channel(r) IN
  /\ State(r) = "trying"
  /\ UNCHANGED opened
  /\ CASE retired -> Done(r, "failed") /\ Quiet /\ UNCHANGED <<link, surface>>
       [] ~retired /\ link[c] = "gone" -> Loses(r)
       [] ~retired /\ link[c] = "none" ->
            Becomes(r, "opening") /\ Quiet /\ UNCHANGED <<held, link, surface>>
       [] ~retired /\ link[c] = "up" ->
            \/ /\ Becomes(r, "sent")
               /\ surface' = [surface EXCEPT ![c] = IF @ = "nothing" THEN "asked" ELSE @]
               /\ Quiet /\ UNCHANGED <<held, link>>
            \/ "stall" \in trouble /\ Drop(c) /\ Done(r, "failed") /\ Quiet

\* The answer, which may be an error, unreadable, or another request's by its id.
Answers(r) ==
  LET c == Channel(r) IN
  /\ State(r) = "sent" /\ link[c] = "up"
  /\ \/ Done(r, "answered") /\ surface' = [surface EXCEPT ![c] = "nothing"] /\ UNCHANGED link
     \/ "stray" \in trouble /\ Done(r, "failed") /\ Drop(c)
     \/ /\ "stray" \in trouble
        /\ Done(r, "failed")
        /\ surface' = [surface EXCEPT ![c] = "nothing"]
        /\ UNCHANGED link
  /\ Quiet /\ UNCHANGED opened

\* bug: a request that times out keeps its connection
TimesOutOn_Kept(r) ==
  /\ State(r) = "sent"
  /\ Done(r, "failed")
  /\ surface' = [surface EXCEPT ![Channel(r)] = "stale"]
  /\ Quiet /\ UNCHANGED <<link, opened>>

\* No answer in time: an error of this request only, and the connection is closed.
TimesOutOn(r) ==
  /\ State(r) = "sent"
  /\ Done(r, "failed")
  /\ Drop(Channel(r))
  /\ Quiet /\ UNCHANGED opened

\* The read ends: the surface, or the engine's own close, took the connection away.
Interrupted(r) ==
  /\ State(r) = "sent" /\ link[Channel(r)] # "up"
  /\ Loses(r)
  /\ UNCHANGED opened

Request(r) ==
  /\ Takes(r) \/ Opens(r) \/ Tries(r) \/ Answers(r) \/ TimesOutOn(r) \/ Interrupted(r)
  /\ UNCHANGED <<ask, retired, drain, work, sought, setting, wire, at, closer, heard>>

\* Cancelling requests drops the connections they have in hand.
Busy(rs)   == {c \in Channels : held[c] \in rs}
Cancels(rs) ==
  /\ link' = [c \in Channels |-> IF c \in Busy(rs) THEN "none" ELSE link[c]]
  /\ surface' = [c \in Channels |-> IF c \in Busy(rs) THEN "nothing" ELSE surface[c]]
  /\ held' = [c \in Channels |-> IF c \in Busy(rs) THEN "none" ELSE held[c]]
  /\ req' = [r \in Requests |-> IF r \in rs THEN Resting ELSE req[r]]

-----------------------------------------------------------------------------
(* The drain task.                                                         *)

\* _drain takes the newest job; its winrate half is asked only with eval visits
DrainTakes ==
  /\ drain /\ work = 0 /\ pending # 0
  /\ work' = pending
  /\ pending' = 0
  /\ \E halves \in {{"policy"}, {"policy", "winrate"}} :
       req' = [r \in Requests |-> IF r \in halves THEN [Resting EXCEPT !.state = "waiting"]
                                  ELSE req[r]]
  /\ UNCHANGED <<chans, held, current, drain, sought, surface, heard>>

DrainEnds ==
  /\ drain /\ work = 0 /\ pending = 0
  /\ drain' = FALSE
  /\ UNCHANGED <<chans, held, req, pending, current, work, sought, surface, heard>>

Delivered == heard' = IF sought = work THEN "current" ELSE "left"

\* bug: an answer is delivered whatever happened to its request meanwhile
JobEnds_Unchecked ==
  /\ work # 0 /\ State("policy") = "answered"
  /\ State("winrate") \in {"none", "answered", "failed"}
  /\ Delivered
  /\ work' = 0
  /\ req' = [req EXCEPT !["policy"] = Resting, !["winrate"] = Resting]
  /\ UNCHANGED <<chans, held, pending, current, drain, sought, surface>>

\* Both halves are in: delivered, unless the position was left meanwhile.
JobEnds ==
  /\ work # 0 /\ State("policy") = "answered"
  /\ State("winrate") \in {"none", "answered", "failed"}
  /\ IF current = work THEN Delivered ELSE heard' = heard
  /\ work' = 0
  /\ req' = [req EXCEPT !["policy"] = Resting, !["winrate"] = Resting]
  /\ UNCHANGED <<chans, held, pending, current, drain, sought, surface>>

\* _analyse: a failed policy request abandons its winrate request
JobFails ==
  /\ work # 0 /\ State("policy") = "failed"
  /\ Cancels({"policy", "winrate"})
  /\ work' = 0
  /\ UNCHANGED <<opened, retired, pending, current, drain, sought, heard>>

Drain == /\ DrainTakes \/ DrainEnds \/ JobEnds \/ JobFails
         /\ UNCHANGED <<ask, setting, conn, wire, at, closer>>

-----------------------------------------------------------------------------
(* Calls and the close.                                                    *)

HandolBegin ==
  /\ at = "idle"
  /\ ask' \in {"genmove", "start", "stop"}
  /\ at' = "ready"
  /\ UNCHANGED <<chans, held, req, jobs, surface, setting, conn, wire, closer, heard>>

\* connect: an accepted connection is all there is
HandolConnects ==
  /\ ask = "connect" /\ at = "ready"
  /\ \/ link' = [link EXCEPT !["human"] = "up"] /\ opened' = {"human"}
     \/ "hangup" \in trouble /\ UNCHANGED <<link, opened>>
  /\ at' = "idle"
  /\ UNCHANGED <<retired, held, req, jobs, surface, closer>>

\* Every call leaves the analysis first; nothing is said on the wire.  A start that is not
\* refused becomes the job the drain takes next; genmove asks on the human channel.
Calls ==
  /\ ask # "connect" /\ at = "ready"
  /\ \/ /\ ask = "stop" \/ failure # "none" \/ ask = "start"
        /\ pending' = 0 /\ current' = 0 /\ sought' = 0
        /\ at' = "idle"
        /\ UNCHANGED <<drain, req>>
     \/ /\ ask = "start" /\ failure = "none"
        /\ \E t \in NextToken : pending' = t /\ current' = t /\ sought' = t
        /\ drain' = TRUE
        /\ at' = "idle"
        /\ req' = req
     \/ /\ ask = "genmove" /\ failure = "none"
        /\ pending' = 0 /\ current' = 0 /\ sought' = 0
        /\ req' = [req EXCEPT !["move"] = [Resting EXCEPT !.state = "waiting"]]
        /\ at' = "asking"
        /\ drain' = drain
  /\ UNCHANGED <<chans, held, work, surface, closer>>

MoveEnds ==
  /\ at = "asking" /\ State("move") \in {"answered", "failed"}
  /\ at' = "idle"
  /\ req' = [req EXCEPT !["move"] = Resting]
  /\ UNCHANGED <<chans, held, jobs, surface, closer>>

HandolCall == /\ HandolConnects \/ Calls \/ MoveEnds
              /\ UNCHANGED <<ask, setting, conn, wire, heard>>

HandolCancelled ==
  /\ "cancel" \in trouble /\ at = "asking"
  /\ at' = "idle"
  /\ Cancels({"move"})
  /\ UNCHANGED <<ask, opened, retired, jobs, setting, conn, wire, closer, heard>>

\* close: the analysis is left and the drain cancelled with its requests; then both
\* channels are retired, which a request still running finds out by itself
HandolClose ==
  /\ \/ /\ "close" \in trouble /\ closer = "idle" /\ ask # "connect"
        /\ closer' = "tearing"
        /\ closing' = TRUE
        /\ pending' = 0 /\ current' = 0 /\ sought' = 0
        /\ drain' = FALSE
        /\ work' = 0
        /\ Cancels({"policy", "winrate"})
        /\ UNCHANGED <<retired, failure, report, wire>>
     \/ /\ closer = "tearing"
        /\ closer' = "done"
        /\ retired' = TRUE
        /\ link' = [c \in Channels |-> "none"]
        /\ surface' = [c \in Channels |-> "nothing"]
        /\ Dropping(TornDown)
        /\ UNCHANGED <<held, req, drain, work, sought>>
  /\ UNCHANGED <<ask, opened, setting, at, heard>>

\* The surface closes a connection: idle, or with a request under way.
SurfaceCloses ==
  /\ "hangup" \in trouble
  /\ \E c \in Channels :
       /\ link[c] = "up"
       /\ link' = [link EXCEPT ![c] = "gone"]
       /\ surface' = [surface EXCEPT ![c] = "nothing"]
  /\ UNCHANGED <<ask, opened, retired, held, req, jobs, baseVars>>

HandolNext ==
  \/ HandolCall \/ Drain \/ \E r \in Requests : Request(r)
  \/ HandolBegin \/ HandolCancelled \/ HandolClose \/ SurfaceCloses
  \/ (Report /\ UNCHANGED handolVars)

HandolFair ==
  /\ WF_<<baseVars, handolVars>>(protocol = "handol" /\ HandolCall)
  /\ WF_<<baseVars, handolVars>>(protocol = "handol" /\ Drain)
  /\ \A r \in Requests : WF_<<baseVars, handolVars>>(protocol = "handol" /\ Request(r))
  /\ WF_<<baseVars, handolVars>>(protocol = "handol" /\ Report /\ UNCHANGED handolVars)

-----------------------------------------------------------------------------
HandolType ==
  /\ link \in [Channels -> {"none", "up", "gone"}]
  /\ opened \subseteq Channels
  /\ retired \in BOOLEAN
  /\ held \in [Channels -> Requests \cup {"none"}]
  /\ req \in [Requests -> [state : {"none", "waiting", "trying", "opening", "sent", "answered",
                                    "failed"}, losses : 0 .. 1]]
  /\ {pending, current, work, sought} \subseteq Tokens \cup {0}
  /\ drain \in BOOLEAN
  /\ surface \in [Channels -> {"nothing", "asked", "stale"}]
=============================================================================
