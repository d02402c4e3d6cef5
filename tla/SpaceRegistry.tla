--------------------------- MODULE SpaceRegistry ---------------------------
(***************************************************************************)
(* The space registry for one identity key (spaces.py): the lock per key,  *)
(* attaching and detaching tabs, loading and publishing a space, saving    *)
(* it, idle release and shutdown.                                          *)
(*                                                                         *)
(* Keys share nothing but `_closed' and the periodic task, so one key is   *)
(* enough.  What a space holds is a number for each part that is stored:   *)
(* 0 is a fresh one, and every change takes the next number, so a greater  *)
(* number is a newer snapshot.  A session changes from the messages of its *)
(* tabs and from its engine, so with no tab as well; once it is closed it  *)
(* never does (EngineLifecycle, EnginePlay).  A step is what runs between  *)
(* two awaits, or what a worker thread does.                               *)
(***************************************************************************)
EXTENDS Naturals, Sequences, FiniteSets

CONSTANTS
  Tabs,          \* browser sockets; a page that reconnects may be the same one
  Requests,      \* HTTP requests for the space: the SGF download and upload
  NParts,        \* 1: the snapshot; 2: and the preferences (server mode)
  MaxChanges,    \* bounds the changes of a behaviour
  ReleasesIdle,  \* idle_release_seconds is set (server mode)
  Mixes          \* what a behaviour draws on, one of these: [visitors, changes (at
                 \* most MaxChanges), cap, drops]

ASSUME PartsAssumption   == NParts \in {1, 2}
ASSUME ChangesAssumption == MaxChanges \in Nat
ASSUME SwitchAssumption  == ReleasesIdle \in BOOLEAN
ASSUME MixesAssumption ==
  \A m \in Mixes : /\ m.visitors \subseteq Tabs \cup Requests
                   /\ m.changes \in 0 .. MaxChanges
                   /\ m.cap \in Nat \ {0}
                   /\ m.drops \in BOOLEAN
ASSUME CallersAssumption ==
  /\ IsFiniteSet(Tabs \cup Requests)
  /\ {"sweep", "shutdown"} \cap (Tabs \cup Requests) = {}
  /\ Tabs \cap Requests = {}

Part    == 1 .. NParts
None    == 0
Visitor == Tabs \cup Requests
Caller  == Visitor \cup {"sweep", "shutdown"}

\* A space is named by a number that no one refers to any more: the live one and
\* those of departing tabs are all there are.
Space == 1 .. Cardinality(Tabs) + 1

\* The lock objects that the table's entry has been; one at a time is in use.
Lock == 1 .. Cardinality(Caller)

\* A stored snapshot that restore() refuses; the storage held it from the start.
Refused == MaxChanges + 1

\* Where a caller is.
Place == {"out",          \* not there; the periodic task asleep
          "queued",       \* waiting for the key's lock, or about to run with it
          "loading",      \* storage.load in a worker thread
          "preferences",  \* storage.load_preferences in a worker thread
          "loaded",       \* restored; about to publish
          "in",           \* a tab of its space's hub
          "dropped",      \* a tab the hub dropped; its socket is still served
          "detaching",    \* a tab whose detach awaits a save
          "autosaving",   \* the periodic task in save_changed
          "deciding",     \* the periodic task at release_idle
          "saving",       \* release or shutdown awaiting its save, the lock held
          "stored", "unstored",  \* ... and what the save reported
          "closing",      \* release or shutdown in _close_space
          "stopping",     \* shutdown awaiting the periodic task
          "ended"}

VARIABLES
  live,     \* live[key], or None
  session,  \* [Space -> "open", "closing" (in aclose()), "closed"]
  content,  \* [Space -> what snapshot() and preferences say, by part]
  saved,    \* [Space -> saved_text, saved_preferences_text]
  tabs,     \* [Space -> hub.tabs]
  entry,    \* _locks[key], or None
  queue,    \* [Lock -> its callers in order; the first holds it]
  at,       \* [Caller -> Place]
  of,       \* [Caller -> the space it refers to, or None]
  loaded,   \* [Visitor -> what it read from the storage]
  jobs,     \* [Space -> callers of _save in order; the first has the save lock]
  write,    \* [Space -> the write that is running (see Idle)]
  stored,   \* what the storage holds, by part
  changes,  \* how many changes there were
  closed,   \* _closed
  mix       \* which of Mixes this behaviour draws on

spaces  == <<live, session, tabs>>
locks   == <<entry, queue>>
callers == <<at, of, loaded>>
saving  == <<saved, jobs, write, stored>>
data    == <<content, changes>>
vars    == <<spaces, locks, callers, saving, data, closed, mix>>

MAX_TABS == mix.cap    \* sockets one identity may hold
HubDrops == mix.drops  \* a hub may drop a tab, by overflow or a failed send, whose
                       \* socket is still open

Fresh == [p \in Part |-> 0]
Idle  == [part |-> 0, text |-> 0, thread |-> "none", ok |-> TRUE]

-----------------------------------------------------------------------------
(* The lock per key: _keyed.                                               *)

Ask(c) ==
  LET l == IF entry # None THEN entry
           ELSE CHOOSE k \in Lock : queue[k] = <<>>
  IN  /\ entry' = l
      /\ queue' = [queue EXCEPT ![l] = Append(@, c)]

Holds(c) == \E l \in Lock : queue[l] # <<>> /\ Head(queue[l]) = c

\* bug: the table's entry is dropped while another caller waits for the lock
Unlock_DropsEntry(c) ==
  \E l \in Lock :
    /\ queue[l] # <<>> /\ Head(queue[l]) = c
    /\ queue' = [queue EXCEPT ![l] = Tail(@)]
    /\ entry' = IF entry = l THEN None ELSE entry

\* The lock is passed on; the table's entry goes with its last caller.
Unlock(c) ==
  \E l \in Lock :
    /\ queue[l] # <<>> /\ Head(queue[l]) = c
    /\ queue' = [queue EXCEPT ![l] = Tail(@)]
    /\ entry' = IF entry = l /\ Len(queue[l]) = 1 THEN None ELSE entry

\* c goes to place p, referring to space s
Goes(c, p, s) == at' = [at EXCEPT ![c] = p] /\ of' = [of EXCEPT ![c] = s]

-----------------------------------------------------------------------------
(* Saving: _save, shielded, and _save_now.                                 *)

AskSave(c, s) == jobs' = [jobs EXCEPT ![s] = Append(@, c)]

\* The next part from part p on that changed, or one past the last.
Changed(s, p) ==
  CHOOSE q \in p .. NParts + 1 :
    /\ q <= NParts => content[s][q] # saved'[s][q]
    /\ \A r \in p .. q - 1 : content[s][r] = saved'[s][r]

\* Where the caller goes on after its save.
AfterSave(c, ok) ==
  CASE at[c] = "detaching"  -> "out"
    [] at[c] = "autosaving" -> "deciding"
    [] at[c] = "saving"     -> IF ok THEN "stored" ELSE "unstored"

\* The save of space s goes on at part p, or is over and reports ok.
SaveFrom(s, p, ok) ==
  LET q == Changed(s, p)
      c == Head(jobs[s])
  IN  IF q <= NParts
        THEN /\ write' = [write EXCEPT ![s] =
                           [part |-> q, text |-> content[s][q], thread |-> "running", ok |-> ok]]
             /\ UNCHANGED <<jobs, at, of>>
        ELSE /\ write' = [write EXCEPT ![s] = Idle]
             /\ jobs' = [jobs EXCEPT ![s] = Tail(@)]
             /\ Goes(c, AfterSave(c, ok), IF at[c] = "saving" THEN s ELSE None)

\* the save lock is free: the first caller takes the snapshot
SaveBegins(s) ==
  /\ jobs[s] # <<>> /\ write[s] = Idle
  /\ saved' = saved
  /\ SaveFrom(s, 1, TRUE)
  /\ UNCHANGED <<spaces, locks, loaded, stored, data, closed, mix>>

\* the worker thread: storage.save, storage.save_preferences
Written(s) ==
  /\ write[s].thread = "running"
  /\ stored' = [stored EXCEPT ![write[s].part] = write[s].text]
  /\ write' = [write EXCEPT ![s].thread = "written"]
  /\ UNCHANGED <<spaces, locks, callers, saved, jobs, data, closed, mix>>

WriteFails(s) ==
  /\ write[s].thread = "running"
  /\ write' = [write EXCEPT ![s].thread = "failed"]
  /\ UNCHANGED <<spaces, locks, callers, saved, jobs, stored, data, closed, mix>>

\* bug: the text counts as saved even when the write failed
SaveGoesOn_Forgets(s) ==
  /\ write[s].thread \in {"written", "failed"}
  /\ saved' = [saved EXCEPT ![s][write[s].part] = write[s].text]
  /\ SaveFrom(s, write[s].part + 1, write[s].ok /\ write[s].thread = "written")
  /\ UNCHANGED <<spaces, locks, loaded, stored, data, closed, mix>>

\* bug: the save reports its last write only
SaveGoesOn_LastOnly(s) ==
  /\ write[s].thread \in {"written", "failed"}
  /\ saved' = IF write[s].thread = "written"
                THEN [saved EXCEPT ![s][write[s].part] = write[s].text] ELSE saved
  /\ SaveFrom(s, write[s].part + 1, TRUE)
  /\ UNCHANGED <<spaces, locks, loaded, stored, data, closed, mix>>

\* _save_now is resumed after a write
SaveGoesOn(s) ==
  /\ write[s].thread \in {"written", "failed"}
  /\ saved' = IF write[s].thread = "written"
                THEN [saved EXCEPT ![s][write[s].part] = write[s].text] ELSE saved
  /\ SaveFrom(s, write[s].part + 1, write[s].ok /\ write[s].thread = "written")
  /\ UNCHANGED <<spaces, locks, loaded, stored, data, closed, mix>>

-----------------------------------------------------------------------------
(* Visitors: get and attach, with _space and _create.                      *)

Arrives(c) ==
  /\ at[c] = "out" /\ c \in mix.visitors
  /\ Ask(c)
  /\ Goes(c, "queued", None)
  /\ UNCHANGED <<spaces, loaded, saving, data, closed, mix>>

\* The visitor has space s, whose content is `what', and is done with the lock: a tab
\* is added to the hub unless the identity is at its cap; an upload changes the
\* game, a download does not.
Has(c, s, what) ==
  /\ Unlock(c)
  /\ \/ /\ c \in Tabs /\ Cardinality(tabs[s]) < MAX_TABS
        /\ tabs' = [tabs EXCEPT ![s] = @ \cup {c}]
        /\ content' = [content EXCEPT ![s] = what]
        /\ Goes(c, "in", s)
        /\ UNCHANGED changes
     \/ /\ c \in Tabs => Cardinality(tabs[s]) >= MAX_TABS
        /\ content' = [content EXCEPT ![s] = what]
        /\ Goes(c, "out", None)
        /\ UNCHANGED <<tabs, changes>>
     \/ /\ c \in Requests /\ changes < mix.changes
        /\ content' = [content EXCEPT ![s] = [what EXCEPT ![1] = changes + 1]]
        /\ changes' = changes + 1
        /\ Goes(c, "out", None)
        /\ UNCHANGED tabs

\* the space is live
Finds(c) ==
  /\ at[c] = "queued" /\ Holds(c)
  /\ live # None
  /\ Has(c, live, content[live])
  /\ UNCHANGED <<live, session, loaded, saving, closed, mix>>

\* no live space: load it, unless the registry is closed
Creates(c) ==
  /\ at[c] = "queued" /\ Holds(c)
  /\ live = None
  /\ \/ /\ closed
        /\ Unlock(c)
        /\ Goes(c, "out", None)
     \/ /\ ~closed
        /\ Goes(c, "loading", None)
        /\ UNCHANGED locks
  /\ UNCHANGED <<spaces, loaded, saving, data, closed, mix>>

Loads(c) ==
  /\ at[c] = "loading"
  /\ loaded' = [loaded EXCEPT ![c][1] = stored[1]]
  /\ Goes(c, IF NParts = 2 THEN "preferences" ELSE "loaded", None)
  /\ UNCHANGED <<spaces, locks, saving, data, closed, mix>>

LoadsPreferences(c) ==
  /\ at[c] = "preferences"
  /\ loaded' = [loaded EXCEPT ![c][2] = stored[2]]
  /\ Goes(c, "loaded", None)
  /\ UNCHANGED <<spaces, locks, saving, data, closed, mix>>

\* the storage raised, or the visitor was cancelled while it waited or loaded
GivesUp(c) ==
  /\ at[c] \in {"loading", "preferences", "loaded"}
  /\ Unlock(c)
  /\ Goes(c, "out", None)
  /\ loaded' = [loaded EXCEPT ![c] = Fresh]
  /\ UNCHANGED <<spaces, saving, data, closed, mix>>

\* restore refused the snapshot: it is set aside and the space starts fresh.  A set-aside that
\* fails raises in the server mode (GivesUp).  The state file's swallows the failure, and a fresh
\* space is published over the refused file: that is not modelled.
SetsAside(c) ==
  /\ at[c] = "loaded"
  /\ loaded[c][1] = Refused
  /\ stored' = [stored EXCEPT ![1] = 0]
  /\ loaded' = [loaded EXCEPT ![c][1] = 0]
  /\ UNCHANGED <<spaces, locks, at, of, saved, jobs, write, data, closed, mix>>

\* bug: publishes what restore() refused
Restored_Anyway(c) == at[c] = "loaded"

\* the session was restored, or starts fresh
Restored(c) == at[c] = "loaded" /\ loaded[c][1] # Refused

\* No name is used again while anything refers to it.
Held == {live} \cup {of[c] : c \in Caller}

\* the rest of _create once it may publish: a new space s, and what its visitor does
Publish(c) ==
  \E s \in Space \ Held :
    /\ \A r \in Space \ Held : s <= r
    /\ live' = s
    /\ session' = [session EXCEPT ![s] = "open"]
    /\ saved' = [saved EXCEPT ![s] = loaded[c]]
    /\ Has(c, s, loaded[c])

\* bug: does not look again whether the registry was shut down
Publishes_AnyTime(c) ==
  /\ Restored(c)
  /\ loaded' = [loaded EXCEPT ![c] = Fresh]
  /\ Publish(c)
  /\ UNCHANGED <<jobs, write, stored, closed, mix>>

\* The space is published with what was loaded as its baseline, unless the registry
\* was shut down while it was created.
Publishes(c) ==
  /\ Restored(c)
  /\ loaded' = [loaded EXCEPT ![c] = Fresh]
  /\ \/ /\ closed
        /\ Unlock(c)
        /\ Goes(c, "out", None)
        /\ UNCHANGED <<spaces, saved, data>>
     \/ /\ ~closed
        /\ Publish(c)
  /\ UNCHANGED <<jobs, write, stored, closed, mix>>

-----------------------------------------------------------------------------
(* Tabs that are attached, and the session.                                *)

\* a message of a tab, or the engine: a part of the space changes
Changes(s, p) ==
  /\ session[s] = "open"
  /\ changes < mix.changes
  /\ content' = [content EXCEPT ![s][p] = changes + 1]
  /\ changes' = changes + 1
  /\ UNCHANGED <<spaces, locks, callers, saving, closed, mix>>

\* Hub.remove by an overflow or a failed send; the socket is to be closed
Dropped(t) ==
  /\ HubDrops
  /\ at[t] = "in" /\ t \in tabs[of[t]]
  /\ tabs' = [tabs EXCEPT ![of[t]] = @ \ {t}]
  /\ Goes(t, "dropped", of[t])
  /\ UNCHANGED <<live, session, locks, loaded, saving, data, closed, mix>>

\* The socket ended: detach.  The last tab of the live space saves it.
Detaches(t) ==
  LET s == of[t] IN
  /\ at[t] \in {"in", "dropped"}
  /\ tabs' = [tabs EXCEPT ![s] = @ \ {t}]
  /\ IF tabs'[s] = {} /\ live = s
       THEN Goes(t, "detaching", s) /\ AskSave(t, s)
       ELSE Goes(t, "out", None) /\ UNCHANGED jobs
  /\ UNCHANGED <<live, session, locks, loaded, saved, write, stored, data, closed, mix>>

-----------------------------------------------------------------------------
(* The periodic task: save_changed, then release_idle.                     *)

\* A pass saves the live space.  (With none there is nothing to do.)
PassBegins ==
  /\ at["sweep"] = "out" /\ ~closed
  /\ live # None
  /\ AskSave("sweep", live)
  /\ Goes("sweep", "autosaving", live)
  /\ UNCHANGED <<spaces, locks, loaded, saved, write, stored, data, closed, mix>>

\* told to stop, between two passes
SweepEnds ==
  /\ at["sweep"] = "out" /\ closed
  /\ Goes("sweep", "ended", None)
  /\ UNCHANGED <<spaces, locks, loaded, saving, data, closed, mix>>

\* _idle: no tab is attached; whether the time is up is left open
CanBeIdle(s) == tabs[s] = {}

\* the live space is idle, and the key's lock is asked for; or the pass is over
Decides ==
  /\ at["sweep"] = "deciding"
  /\ \/ /\ ReleasesIdle /\ live # None /\ CanBeIdle(live)
        /\ Ask("sweep")
        /\ Goes("sweep", "queued", live)
     \/ /\ Goes("sweep", "out", None)
        /\ UNCHANGED locks
  /\ UNCHANGED <<spaces, loaded, saving, data, closed, mix>>

\* bug: a release that is given up keeps the key's lock
PassEnds_KeepsLock == Goes("sweep", "out", None) /\ UNCHANGED locks

\* a release is given up; the lock is released
PassEnds == Unlock("sweep") /\ Goes("sweep", "out", None)

\* bug: what was idle before the lock was waited for still is
StillIdle_Assumed(s) == live = s

\* the second look, under the lock
StillIdle(s) == live = s /\ CanBeIdle(s)

ReleaseLooks ==
  LET s == of["sweep"] IN
  /\ at["sweep"] = "queued" /\ Holds("sweep")
  /\ \/ /\ StillIdle(s)
        /\ AskSave("sweep", s)
        /\ Goes("sweep", "saving", s)
        /\ UNCHANGED locks
     \/ /\ PassEnds
        /\ UNCHANGED jobs
  /\ UNCHANGED <<spaces, loaded, saved, write, stored, data, closed, mix>>

\* a failed save keeps the space
ReleaseGivesUp ==
  /\ at["sweep"] = "unstored"
  /\ PassEnds
  /\ UNCHANGED <<spaces, loaded, saving, data, closed, mix>>

\* bug: a release closes the space whatever its save reported
MayClose_Anyway(c) == at[c] \in {"stored", "unstored"}

\* a release needs a save that succeeded; shutdown does not
MayClose(c) == at[c] \in (IF c = "sweep" THEN {"stored"} ELSE {"stored", "unstored"})

\* _close_space: session.aclose() closes the session at once, and then awaits
Closes(c) ==
  /\ MayClose(c)
  /\ session' = [session EXCEPT ![of[c]] = "closing"]
  /\ Goes(c, "closing", of[c])
  /\ UNCHANGED <<live, tabs, locks, loaded, saving, data, closed, mix>>

\* hub.aclose() and the rest of _close_space; the space is dropped
Drops(c) ==
  LET s == of[c] IN
  /\ at[c] = "closing"
  /\ session' = [session EXCEPT ![s] = "closed"]
  /\ live' = IF live = s THEN None ELSE live
  /\ tabs' = [tabs EXCEPT ![s] = {}]
  /\ Unlock(c)
  /\ Goes(c, IF c = "sweep" THEN "out" ELSE "ended", None)
  /\ UNCHANGED <<loaded, saving, data, closed, mix>>

-----------------------------------------------------------------------------
(* Shutdown: SpaceRegistry.aclose.                                         *)

ShutdownBegins ==
  /\ ~closed
  /\ closed' = TRUE
  /\ Goes("shutdown", "stopping", None)
  /\ UNCHANGED <<spaces, locks, loaded, saving, data, mix>>

\* the periodic task is over; every live space is saved and closed under its lock
ShutdownLists ==
  /\ at["shutdown"] = "stopping"
  /\ at["sweep"] = "ended"
  /\ IF live = None
       THEN Goes("shutdown", "ended", None) /\ UNCHANGED locks
       ELSE Goes("shutdown", "queued", live) /\ Ask("shutdown")
  /\ UNCHANGED <<spaces, loaded, saving, data, closed, mix>>

ShutdownSaves ==
  /\ at["shutdown"] = "queued" /\ Holds("shutdown")
  /\ AskSave("shutdown", of["shutdown"])
  /\ Goes("shutdown", "saving", of["shutdown"])
  /\ UNCHANGED <<spaces, locks, loaded, saved, write, stored, data, closed, mix>>

-----------------------------------------------------------------------------

Init ==
  /\ live = None
  /\ session = [s \in Space |-> "closed"]
  /\ content = [s \in Space |-> Fresh] /\ saved = content
  /\ tabs = [s \in Space |-> {}]
  /\ entry = None /\ queue = [l \in Lock |-> <<>>]
  /\ at = [c \in Caller |-> "out"] /\ of = [c \in Caller |-> None]
  /\ loaded = [c \in Visitor |-> Fresh]
  /\ jobs = [s \in Space |-> <<>>] /\ write = [s \in Space |-> Idle]
  /\ stored \in {Fresh, [Fresh EXCEPT ![1] = Refused]}
  /\ changes = 0 /\ closed = FALSE
  /\ mix \in Mixes

Visits(c) == \/ Finds(c) \/ Creates(c) \/ Loads(c) \/ LoadsPreferences(c)
             \/ SetsAside(c) \/ Publishes(c)

SaveRuns(s)  == SaveBegins(s) \/ SaveGoesOn(s)
PeriodicTask == \/ SweepEnds \/ Decides \/ ReleaseLooks \/ ReleaseGivesUp
                \/ Closes("sweep") \/ Drops("sweep")
ShutdownRuns == ShutdownLists \/ ShutdownSaves \/ Closes("shutdown") \/ Drops("shutdown")

Next ==
  \/ \E c \in Visitor : Arrives(c) \/ Visits(c) \/ GivesUp(c)
  \/ \E t \in Tabs : Dropped(t) \/ Detaches(t)
  \/ \E s \in Space : SaveRuns(s) \/ Written(s) \/ WriteFails(s)
  \/ \E s \in Space, p \in Part : Changes(s, p)
  \/ PassBegins \/ PeriodicTask \/ ShutdownBegins \/ ShutdownRuns

(***************************************************************************)
(* The loop runs every task that is ready; a worker thread ends, written   *)
(* or failed; the periodic task's timer fires again; aclose() of a session *)
(* ends (EngineLifecycle!EndsAreReached).  Nothing forces a visitor, a     *)
(* change, a departure or a shutdown.  That a storage which is tried again *)
(* and again succeeds at last is assumed of the storage, not of the code.  *)
(***************************************************************************)
Fairness ==
  /\ \A c \in Visitor : WF_vars(Visits(c))
  /\ \A s \in Space : WF_vars(SaveRuns(s)) /\ WF_vars(Written(s) \/ WriteFails(s))
  /\ WF_vars(PassBegins) /\ WF_vars(PeriodicTask) /\ WF_vars(ShutdownRuns)

StorageRecovers == \A s \in Space : SF_vars(Written(s))

Spec     == Init /\ [][Next]_vars
FairSpec == Spec /\ Fairness /\ StorageRecovers

-----------------------------------------------------------------------------
(* Types.                                                                  *)

Number == 0 .. MaxChanges
Texts  == [Part -> Number]

TypeOK ==
  /\ live \in Space \cup {None}
  /\ session \in [Space -> {"open", "closing", "closed"}]
  /\ content \in [Space -> Texts] /\ saved \in [Space -> Texts]
  /\ tabs \in [Space -> SUBSET Tabs]
  /\ entry \in Lock \cup {None}
  /\ queue \in [Lock -> Seq(Caller)]
  /\ at \in [Caller -> Place]
  /\ of \in [Caller -> Space \cup {None}]
  /\ loaded \in [Visitor -> [Part -> Number \cup {Refused}]]
  /\ jobs \in [Space -> Seq(Caller)]
  /\ write \in [Space -> [part : Part \cup {0}, text : Number,
                          thread : {"none", "running", "written", "failed"}, ok : BOOLEAN]]
  /\ stored \in [Part -> Number \cup {Refused}]
  /\ changes \in Number
  /\ closed \in BOOLEAN

(* Safety.                                                                 *)

\* SPEC 3.1: at most one space lives for a key, the one the registry has; a space whose
\* engine and tasks are still being closed counts, its successor is not created before it is
\* gone.  No tab is left showing a space that was released: whoever attaches while a release
\* runs gets the successor.  And no space outlives a shutdown, whatever was being created,
\* released or saved when it came.
OneSpacePerKey ==
  /\ \A s \in Space : session[s] # "closed" <=> live = s
  /\ \A s \in Space : tabs[s] # {} => session[s] = "open" \/ closed
  /\ at["shutdown"] = "ended" => live = None

\* SPEC 8.2 "Serialised per space": an older snapshot never overwrites a newer one.
NewerStays ==
  [][\A p \in Part : stored[p] # Refused => stored'[p] >= stored[p]]_vars

\* ... which holds as long as no hub drops a tab whose socket goes on.
NewerStaysUndropped ==
  [][~HubDrops => \A p \in Part : stored[p] # Refused => stored'[p] >= stored[p]]_vars

Quiet == \A s \in Space : write[s] = Idle

\* What the next save compares with is what the storage holds, whatever spaces came
\* and went, and whatever write failed: no change is taken for saved, and nothing is
\* written twice.  (Unless a hub drops a tab: then a late save can follow the load.)
BaselineIsStored == live # None /\ Quiet /\ ~HubDrops => saved[live] = stored

\* A step in which a release drops the space.
Released == live # None /\ live' = None /\ ~closed

\* SPEC 8.2 "a release never discards changes that were not written".
ReleaseDiscardsNothing == [][Released => stored = content[live]]_vars

-----------------------------------------------------------------------------
(* Liveness.                                                               *)

\* Nobody waits for the key's lock for ever, and a shutdown comes to an end.
CallersAreServed ==
  /\ \A c \in Visitor : at[c] = "queued" ~> at[c] # "queued"
  /\ closed ~> at["shutdown"] = "ended"

\* What a user changed with a tab attached is stored in the end, although writes
\* fail, the tab leaves and the space is released; only a shutdown, whose one save
\* may fail, gives up.
AttachedChangesStored ==
  \A p \in Part, n \in 1 .. MaxChanges :
    (live # None /\ tabs[live] # {} /\ content[live][p] = n) ~> (stored[p] >= n \/ closed \/ HubDrops)
=============================================================================
