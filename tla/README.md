# A verification project for gowui

gowui is a browser board for Go engines: a FastAPI server keeps, for each identity, one *space*
(a session with its boards and its engine connection), every browser tab of that identity is a
WebSocket on the space, and the space survives its tabs, its engine and the server through a
stored snapshot. Almost everything runs as coroutines and tasks on one event loop; the storage
is called in worker threads, engines and pages are remote.

What is hard here is therefore not any one handler but their interleaving: a handler runs to its
next `await`, and what it read before may be gone when it goes on. The modules below model the
handlers at exactly that grain. **One action is what the event loop runs between two awaits.**

- [Inventory](#inventory)
- [Modules and code](#modules-and-code)
- [Runs](#runs): what is checked, with which bounds and fairness
- [Proofs](#proofs)
- [Disagreements with the documents](#disagreements-with-the-documents)
- [Not modelled](#not-modelled)
- [Plan](#plan)

Paths are relative to the repository's root.

## Inventory

| Component | Source | State it keeps | Operations | Status |
|---|---|---|---|---|
| Engine connection of a space | `session.py` 1423–1570, 1704–1755; `engine/base.py` | `_lifecycle`, `_connecting`, `_attempts`, `_closing`, `engine`, `_want_connected` | connect, disconnect, replay on restore, lost engine, background close, `aclose()` | modelled: `EngineLifecycle` |
| Boards, engine moves, analysis | `session.py` 174–1420; `game.py` | boards, active board, settings, epochs, the session lock and the tasks behind it | some twenty messages; auto play, genmove, analysis refresh, raw, final_score | modelled in part: `EnginePlay` |
| Space registry | `spaces.py` 230–491 | `live`, key locks, each space's baseline texts and save lock | get, attach, detach, autosave, idle release, shutdown | modelled: `SpaceRegistry` |
| Tab delivery | `spaces.py` 60–226; `static/js/app.js` 90–165, 211–252, 420–442 | the tab's queue, counts of states sent and acknowledged; the page's tiles and log | broadcast, put, send, ack, overflow, reconnect | modelled in part: `TabDelivery` |
| GTP client | `engine/gtp.py`, `engine/base.py` | a mirror of the engine's board, the stream task, two locks | connect, sync, genmove, streamed search and analysis, stop, raw, score, close | modelled: `EngineClient`, `GtpClient` |
| handol-mux client | `engine/handol.py` | two channels, the newest pending request, one drain task | request with one retry, drain, retire, close | modelled: `HandolClient` |
| KataGo analysis client | `engine/analysis.py` | the waiter and the handlers by id, the live query | query, terminate, dispatch, close | modelled: `AnalysisClient` |
| Line transport | `engine/transport.py` | one socket | connect, write, read, abort | its outcomes, in `EngineClient` |
| Game record | `game.py`, `board.py`, `rules.py` | the line with its snapshots and prisoners, the cursor, two indexes of first occurrences | play, undo, navigate, branch | modelled in part: `Board`, `GameRecord` (results in `EnginePlay`) |
| SGF | `sgf.py` | none | read, write | no |
| Account store | `store.py` | users, logins, snapshots, preferences, set-aside rows (SQLite) | check and rehash, open login, password change, removal, saves | modelled: `SignIn` |
| Server mode | `server_mode.py` | the throttle's tables, the queue and the semaphore | sign-in, sign-out, identity | modelled in part: `SignIn` |
| Local mode, state file | `local_mode.py` | one JSON file | load, save, set aside | modelled in part: `StateFile` |
| Routes, app, policies, CLI | `routes.py`, `app.py`, `policies.py`, `cli.py` | open sockets and their revalidation | one request at a time | in part, in `SignIn`, `TabDelivery`, `SpaceRegistry`, `Modes` |
| Guard | `guard.py` | none | a check per request | no |
| Page | `static/js/*.js` | what is drawn, forms | rendering, input | frames only, in `TabDelivery` |

How they interact:

- The **page** sends messages on its socket; `routes.websocket` hands each to
  `GameSession.handle` (an `ack` to its `Tab`), and on the socket's end calls
  `registry.detach`.
- The **session** calls the engine client under its own lock, or in background tasks, and gets
  reports and the loss of the connection by callback. It calls `broadcast`, which never awaits,
  after everything a tab can see.
- The **registry** creates a session by loading and restoring it in threads, and starts its
  `resume()`; it stores `snapshot()` and the preferences in threads; it closes the session on
  release and shutdown.

What makes each component correct:

- *Engine connection*: the latest connect or disconnect wins whatever finishes when; never more
  than two engines in use; every one given up is closed; leaving a space without an engine
  switches off everything that would use one; a shutdown ends, leaves nothing and does not look
  like a disconnect to the snapshot.
- *Boards and play*: an engine's move, score or report counts only for the position, board and
  settings it was asked for; a request is never lost between tasks; the tabs are not left with
  an engine that thinks for ever.
- *Registry*: one live space per identity; what was changed is stored, in order; no tab on a
  closed space; no waiting caller forgotten.
- *Engine clients*: the mirror is the engine's board; a call gets the answer to what it asked;
  what was left, stopped or closed says nothing any more; every call ends; a loss is reported.
- *Game record*: the indexes of first occurrences are those of the line, whatever was undone or
  branched, so the rules of ko decide as a search of the whole line would.
- *Accounts and sign-in*: tokens and hashes are of the password the operator set last; nothing of a
  removed account stays; the throttle counts each attempt once; sockets end with their login.
- *State file*: never torn, and nothing that was there is lost.
- *Delivery*: a tab at any pace is led to what the session holds; slow tabs are not dropped.

## Modules and code

### `EngineSlot`, `EngineLifecycle`, `EngineLifecycleProofs`

`EngineSlot` is the abstract specification: to its tabs a space has one slot that is
disconnected, connecting or connected, until it closes; a connect always ends.

`EngineLifecycle` is the code. A *generation* is a value of `_lifecycle`; each belongs to one
connect attempt and one client object, so `phase[g]` is where that attempt's task stands (between
which two awaits), `conn[g]` the state of its socket and `report[g]` its one loss report, which
`base.py` schedules with `call_soon`. The books (`lifecycle`, `engine`, `connecting`, `attempts`,
`closing`) are the attributes of the same names. `Connect`, `Disconnect`, `Resume`, `SetPlayers`
and `SetAnalysis` are message handlers; `StartAttempt` … `Retired` the stretches of `_connect`;
`CloseStarts`, `CloseEnds` those of the background close; `LoseConnection`, `DeliverReport` the
peer's hang-up and what it causes; `Aclose`, `DrainEnds`, `CancelTasks`, `CutShort`,
`CancelShutdown`, `ShutdownEnds` the shutdown with its bounded waits. `ShownToTabs` is the
refinement mapping to `EngineSlot`.

### `EnginePlay`, `EnginePlayProofs`

A space's boards and the five kinds of task that use the engine: auto play, analysis refresh and
the on-demand `genmove`, `raw` and `final_score`. `task[t]` says whether a task is spawned, waits
for `_lock` or holds it and asks the engine; `lock` is the FIFO queue of `asyncio.Lock`; `work` is
what the code remembers before it awaits the engine and compares after (board, version, epochs,
engine). Versions, ids and epochs are only ever compared for equality, so each is named by the
least number nothing refers to (`FreshVersion`, `FreshId`), which keeps the state space finite
without bounding behaviour. The engine itself is only a name: it comes, goes or is lost, as
`EngineLifecycle` says it may. A `Scenario` is a move limit and the messages a
behaviour draws on.

### `SpaceRegistry`, `SpaceRegistryProofs`

One identity's key. Callers (tabs, requests, the periodic task, detaching tabs and the shutdown)
stand at a place `at[c]` in the code; `entry` is the lock that `_locks` has for the key, `queue` its
callers in order (their number is the entry's count of users), `jobs[s]` those of the save lock of
space `s`. A snapshot and the
preferences are the `Part`s of a save, each written in a thread (`write[s]`) that may fail. Content
is numbered by the change that made it, `stored` is what a load would return.

### `TabDelivery`, `TabDeliveryProofs`

One tab: `queue`, `sender` and its counts are `TabQueue`, `_drain` and `Tab`; `wire` and `acks`
are the socket's two directions; `page` is what `handle()` in `app.js` keeps. `Put` is
`TabQueue.put`, with supersession, folding and refusal; `Apply` is one frame's effect on the page.
A drawing the page has stays through `Merge` and `Fill`: `mergeBoards` lays what an entry already
held over the cache, so a snapshot draws only the tiles that were not drawn. `superseded` and
`outdated` are history, for the properties: a waiting state was replaced since the tab attached, and
the tiles that the page had drawn before, and that had changed by then.
The session is reduced to boards with a cursor each (the position a drawing shows), the active
board, and numbered log lines and errors. `Follows` folds `Apply` over everything under way: most
invariants say what the page *will* show, in every state, not only once it is quiet.

### `EngineClient`, `GtpClient`, `HandolClient`, `AnalysisClient`, `EngineClients`, `EngineClientsProofs`

`EngineClient` is what the three clients share: `failure`, `closing`, `report` are the attributes
of `base.py`, `sock` and `reader` the line connection and its read loop, `at` and `closer` where the
session's call and its close stand. Each client module adds its own state *and the engine it talks
to*: what is on the wire, and for GTP the engine's own board, so that the mirror can be compared
with the thing it mirrors. The engine may answer, refuse, report, run ahead, hang up, stop
reading, or answer what it was not asked.

In `GtpClient` a call is a `job` with a phase for each command it sends; `lines` and `outbox` are
the two directions of the socket, and a line is `fresh` while the command it answers has not been
given up. The reader queues `QueueLines` lines ahead; with one more in hand it is `Blocked` in
`_read_loop` and reads nothing, not even a hang-up. `sync` is `SyncCommand`, `Cmd` and `Synced`; the
stream task and the two ways of stopping it are `StreamReads`, `Stop`, `StopEnds`, `StopReturns`. In
`HandolClient`, `req` are the three
requests that can be under way, `held` the channels' locks, `pending`, `current`, `work` the
drain's newest, live and running tokens. In `AnalysisClient`, `waiter` and `handlers` are the
futures and callbacks by query id, `wanted` and `live` the analysis asked for and the one running.
`EngineClients` is `create_engine`: one of the three, and what the session may rely on.

Simplifications: a blocked write is one step that succeeds or breaks the connection; a reply is
one line; `boardsize`, `clear_board` and `komi` share a phase, as do `name` and `version`; an analyze
command that is rejected is tried again up to `Attempts` times, whichever option it dropped; the
stop before the lock and the one under it are one action; a teardown is one step; a line that a
cancelled reader has in hand is kept; a GTP engine writes only in answer to a command, however late
or long (lines it sends to a client that asked nothing block the reader in the same way as those of
an analysis whose stop ran out of time). A client that is connected a second time is not modelled:
the session makes a new one for every connect.

### `Board`, `GameRecord`, `GameRecordProofs`

`Board` is a position and the effect of a stone (`board.py`); `GameRecord` the line with a snapshot
and the prisoners after every ply, the cursor, and the two indexes `_first_seen` and
`_first_seen_to_play`, which hold the whole line, past the cursor too. Every move of either colour
is tried; `Legal` is `_attempt`. Chains are a recursive *function*, so the module can be proved
about.

### `StateFile`, `SignIn`, `Modes`, `SignInProofs`, `ModesProofs`

`StateFile` is `JsonFileStorage`, one step per call into the file system; a file knows whether it
was synced, and a power cut tears those that were not. `SignIn` is the account database with one
step per statement or transaction, the throttle, the sign-in route from the form on, `gowui user`
in another process, and the sockets whose identity is checked again. Passwords are words, hashes a
word with a salt of their own; `Stamps` are the throttle's slots. `Modes` is the launch: a process
runs in one of the two modes, so the two do not interact and are checked side by side.

Simplifications: one process per state file, as the code assumes; that a rename reaches the disk
without a sync of the directory is taken for granted; identities from an SSO header, cookies,
forms and configuration are left out.

### How they compose

`EnginePlay` takes from `EngineLifecycle` that engines come and go at any step;
`EngineLifecycle` leaves out boards but for one bit (`figures`). Both take an engine's calls to end
and its late reports to be dropped by the client once it was left, which is `CallsEnd` and
`LeavingIsFinal` of `EngineClients`; the report of a loss, which `EngineLifecycle` lets come or not,
comes as `LossReported` says. `SpaceRegistry` takes a session that changes at any step while open
and whose `aclose()` ends (`EndsAreReached` of `EngineLifecycle`), and a storage that writes or fails, which
`StateFile` and `SignIn` open up, with one difference: a refused snapshot is always set aside in
`SpaceRegistry` or the visitor given up, as in the server mode, which is what its runs show. In the
local mode `_set_aside` swallows an `OSError` (`local_mode.py:221-224`), and a fresh space is published
while the refused file stays; `StateFile` has that step (`warned`), `SpaceRegistry` does not, and
`BaselineIsStored` says nothing of it. `TabDelivery` takes any session. The assumption that all
share is the event loop itself.

## Runs

| Run | What it shows |
|---|---|
| `engine_lifecycle` | Three generations, two attempts allowed. `EnginesBounded`, `LatestLifecycleWins`, `WantHasCause`, `ShutdownLeavesNothing`; `OnlyLeavingDisarms` (leaving an engine disarms, a shutdown does not); refinement of `EngineSlot` with its liveness (`SlotSpec`); releases, shutdowns and reported losses reach their end (`EndsAreReached`). |
| `engine_play` | One board with games of two moves, two boards with games of one, twelve mixes of messages and events. No stale engine move or score lands (`StaleWorkDiscarded`), the last request for analysis is what the engine searches (`AnalysisMatches`), no board shows the figures of a position it does not stand at (`FiguresDescribeBoard`). |
| `engine_play_live` | Self-play to the end while a user goes on navigating: every command ends (`CommandsEnd`). |
| `space_registry` | In the server mode: a snapshot and preferences, two tabs, an upload, failing writes, releases, a shutdown, and tabs that the hub drops under a cap of one: `OneSpacePerKey`, `BaselineIsStored`, `NewerStaysUndropped`, `AttachedChangesStored`, `CallersAreServed`. |
| `tab_delivery` | One change of the boards with three log lines and an error, or three changes of up to three boards; a lost socket, any number of reports and any pace: `LogIsWhole`, `PageIsLed`, `ErrorsArrive`, `Paced`, and the page catches up (`CatchesUp`). |
| `engine_clients` | Each client with its engine, under a close with cancels, a hang-up, a stalled send, stray answers: `MirrorIsTrue`, `AnswersAreOwn`, `LeavingIsFinal`, `CallsEnd`; a lost connection is reported, unless the reader gave up before or stays blocked for ever (`LossReported`). |
| `modes` | The state file through saves, crashes and failing calls (`FilesAreKept`); sign-ins against each other, the throttle and the operator (`AccountsAreCurrent`, `SlotsAreCounted`, `SignInsEnd`, `SocketsClose`). |
| `game_record` | Every line of up to three moves by either colour with undo, navigation and branches, under each rule set: `IndexIsExact`, `LineIsLegal`, `StonesAddUp`. |
| `engine_lost_unnoticed`, `release_discards`, `older_overwrites`, `tiles_left_behind` | Counterexamples, see [below](#disagreements-with-the-documents). |

### Bounds, and why they are enough

- *Generations* (`MaxLifecycle = 3`): two attempts may be in use at once and a third one supersede
  or be refused; a connection can be lost, released and superseded in any order. The safety
  properties listed under [Proofs](#proofs) hold for every bound.
- *Moves and boards*: a limit of two moves allows a move, its reply, an undo under a search, two
  passes and the move limit itself. A second board is what it takes to have a wrong one; its
  scenarios have games of one move. Scenarios combine messages of which each can invalidate what
  another waits for; a run with every message at once does not finish.
- *Registry*: two tabs and a request make three callers of one lock beside the periodic task, the
  detaches and the shutdown; two changes make an old, a new and a newest snapshot; spaces and locks
  are as many as the code can hold references to.
- *Delivery*: `QueueSize = 6` is the least for which half a queue holds the state, the analysis
  and the thumbnails, as in a queue of 256; three lines fill it and fold it; one error lets it
  overflow. `WireSize = 1` lets two frames be under way, so that an unpaced tab has a backlog. Three
  changes of the boards let a state be superseded by one of another board and that one sent.
  Queues are a property of length, not of content, and the code treats all lengths above the limit
  alike.

- *Engine clients*: two settings of the board and three positions make a sync that resets, one that
  undoes, one that only adds, and one that has nothing to do; `MaxUndo = 1` with games of two moves
  has both sides of the limit. `QueueLines = 1` (16 in the code) lets a stray or late line meet the
  next command, and the second one that nobody takes blocks the reader. Two tokens are an analysis
  that was left and its successor; a query that was left, its successor and a stray one are the
  three query ids. The troubles are taken in groups; only those that can meet in one call are
  grouped.
- *Modes*: three names for set-aside copies (one taken before, one during the call, one free), two
  saves and two crashes, so that a crash while recovering from one is included. Three sign-ins
  reach each budget of two, with a window of two ticks in which stamps expire; two sign-ins with
  two changes by the operator have a removal and an account of the same name added again under
  either.
- *Game record*: three moves on a 3x3 board with a ko in the corner and three empty points: a
  capture and its retaking at once, after a pass, and after another stone, one stone that captures
  two chains, and stones that kill their own. The indexes do not depend on the size; longer cycles
  of positions are not reached.

`CHECK_DEADLOCK FALSE` is set where a session, a client, a registry or the bounded inputs really
stop; in `game_record` every state has a successor.

### Fairness, and why the code justifies it

- *The loop*: a task whose await has finished is run (weak fairness of each task's next stretch).
  `asyncio.Lock` wakes its waiters in order.
- *Bounded waits*: a handshake, an engine command and a close end because every read, write and
  close in `engine/` has a timeout (`connect_timeout`, `command_timeout`, `send_timeout`,
  `stop_timeout`; `aclose()` bounds its own waits), by success or failure, so the fair action is the
  disjunction. No message, report, or loss is ever forced.
- *Storage*: `StorageRecovers` assumes strong fairness of a write that succeeds: a storage that
  keeps being tried does not fail for ever. The code retries on each autosave; without the
  assumption nothing could be stored and `AttachedChangesStored` would say nothing about the code.
- *Engine clients*: the session's call, its close and the client's tasks go on when the lines or the
  socket let them; a wait whose deadline runs out may always end, and must end in the end
  (`TimesOut`, as every wait in `gtp.py`, `handol.py` and `analysis.py` has one). Nothing is assumed
  of the engine: it may stay silent for ever. `CallsEnd` leaves out a streamed search, which may go
  on as long as the engine reports.
- *Sign-in*: a request goes on when its thread or the semaphore lets it, and the revalidation of a
  socket comes round (`watch` sleeps a fixed time). Nobody else is forced to do anything.
- *Delivery*: the sender and a living page make progress, a page without a socket reconnects
  (`app.js` retries with a capped delay). Lost sockets are bounded (`MaxLosses`).

`BaselineIsStored`, `NewerStaysUndropped` and `AttachedChangesStored` are stated for the behaviours
in which the hub drops no tab (`HubDrops`): a tab that it dropped is detached later and saves
outside the key's lock, which breaks the order of saves (`older_overwrites`). The rest is checked
with that step as well.

## Proofs

What the runs show on small instances, the proof modules show with TLAPS for every value of the
constants that the `ASSUME`s allow. Those are types and non-emptiness only (a bound is a natural
number, a window is at least a tick, a semaphore has a number of places, the names of set-aside
copies are `1 .. n`, a reserved answer such as `resign` is no vertex) and, for a tab's queue, that
half of it holds a state, an analysis and the thumbnails. So there is no bound on generations,
boards, games, callers, changes, accounts, requests, saves, crashes, positions, vertices, frames or
lines under way.

| Module | Theorem | Property |
|---|---|---|
| `EngineLifecycleProofs` | `TypeCorrect` | `TypeOK` |
| | `EnginesAreBounded` | `EnginesBounded` |
| | `LatestWins` | `LatestLifecycleWins` |
| | `WantsHaveCause` | `WantHasCause` |
| | `ShutdownIsClean` | `ShutdownLeavesNothing` |
| | `LeavingAlwaysDisarms` | `OnlyLeavingDisarms` (action property) |
| | `ImplementsSlot` | the safety of `SlotSpec`: `Slot!Init /\ [][Slot!Next]_ShownToTabs` |
| `EnginePlayProofs` | `TypesHold` | `TypeOK` |
| | `FiguresTrue` | `FiguresDescribeBoard` |
| | `StaleDiscarded` | `StaleWorkDiscarded` (action property) |
| | `AnalysisFollows` | `AnalysisMatches` |
| `SpaceRegistryProofs` | `TypesHold` | `TypeOK` |
| | `OneSpace` | `OneSpacePerKey` |
| | `BaselineStored` | `BaselineIsStored` |
| | `NewerKept` | `NewerStaysUndropped` (action property) |
| `TabDeliveryProofs` | `QueueIsBounded` | `TypeOK` |
| | `LogStaysWhole` | `LogIsWhole` |
| | `PageFollows` | `PageIsLed` |
| | `NoErrorIsLost` | `ErrorsArrive` |
| | `SendingIsPaced` | `Paced` (action property) |
| `EngineClientsProofs` | `TypesHold` | `TypeOK` |
| | `MirrorTrue` | `MirrorIsTrue` |
| | `AnswersOwn` | `AnswersAreOwn` (action property) |
| | `LeavingFinal` | `LeavingIsFinal` |
| `GameRecordProofs` | `IndexExact` | `IndexIsExact` |
| | `LineLegal` | `LineIsLegal` |
| | `StonesCounted` | `StonesAddUp` |
| `ModesProofs` | `TypesHold` | `TypeOK` |
| (with `SignInProofs`) | `FilesKept` | `FilesAreKept` |
| | `AccountsCurrent` | `AccountsAreCurrent` |
| | `SlotsCounted` | `SlotsAreCounted` |

None of these properties is inductive. What each proof adds, and why it is needed:

**`EngineLifecycleProofs`.** `EnginesBounded` counts engines in use; the guard `_attempts_full`
counts entries of books. That the one bounds the other needs the books to cover every task and
every socket, which no property alone says. The inductive invariant is

    IInv == TypeOK /\ Retiring /\ Struct /\ EnginesBounded
    Struct == Fresh /\ BooksCover /\ SocketsOwned /\ Draining /\ Wanting /\ LatestLifecycleWins

- `Fresh`: generations above `_lifecycle` are unused, so a new attempt disturbs no old one.
- `BooksCover`: a task that connects is in `_attempts`, one that closes in `_closing`, an adopted
  engine is the session's.
- `SocketsOwned`: a socket is held only by an engine whose task or session still owns it. With
  `BooksCover`, what is in use is what the books list (`InUseOwned`).
- `Draining`: what `aclose()` drains is one engine, and it ends last.
- `Wanting`: only a restored session whose first lifecycle is to come wants without acting.
- `Retiring`: an attempt that gives its engine up was superseded, and stays so.

`GuardCounts` then turns a passed guard into room for one more (the books are disjoint sets whose
sizes add up), `NewAttemptBounded` covers the only step that adds, `OwnedShrinks` all others.
The refinement also needs `PendingTask`: while a connect is pending, the task it names is on its
way, so the slot cannot be "connecting" with nothing behind it.

**`EnginePlayProofs`.** `PlayInv` says that the queue of the lock is exactly the tasks that wait
or hold, each once (`TasksInv`), that the request in flight still has the position of its board
if the version is the same (`WorkInv`), and that a version names one line of moves wherever it is
referred to: by a board, its figures, the request in flight or the running search
(`VersionsInv`, over the set of `Claims`). `FreshIsNew` (a least unused number exists among one
more than there are used) keeps a new version apart from all of them. `StaleDiscarded` compares the
task's tokens in the only two steps that apply an answer. `AnalysisMatches` is about quiet states
only; its invariant `MatchInv` says what holds on the way: a pass that has not read the request yet
is coming, or the pass under way asked for what the space wants, or the running search is it.

**`SpaceRegistryProofs`.** `RegistryInv` ties each caller's place to the lock's queue (`LockInv`:
`entry` names a lock exactly while that lock has users), to the queue of a space's saves (`JobInv`)
and to the live space (`SpaceInv`: who holds the lock to create found none, who holds it to release
holds the live one). Without drops, `SaveInv` adds that only one space at a time has saves
(`SavesInOrder`) and where content, baseline, write and storage stand in relation (`Kept`): a write
is not older than the baseline and not newer than the space. Both theorems about storage follow from
that, and `SavesInOrder` is where a dropped tab would break the proof, as it does in
`older_overwrites`.

**`TabDeliveryProofs`.** All three invariants about the page speak of `Follows`: what it will show
once every frame on the wire and in the queue has been applied. The proof therefore first shows, by
induction over sequences (`Sequences`, stated of a set so that the provers can use it), how
`Applied` and `Without` go through `Append` and `\o`, and what a frame of each type leaves alone
(`ApplyFields`). From that: a state removed from the middle changes only what later frames show of
the boards (`SupersedePage`), the lines removed by a fold only the log (`BoardsFolded`), which the
history then writes anew. `PutPage` puts these together, and `StateLeads` and `OtherLeads` say of
each broadcast that the page is then led to the session's new state (`Good`). `AttachLeads` says
it of the attach frames, but for the tiles that `Fill` keeps as they were. Sending and
applying move frames from the queue over the wire to the page and leave `Follows` as it is. The
rest of `DeliveryInv` (`WayOk`) counts: acknowledgements owed are at most the states unacknowledged,
which gives `Paced`, and the errors waiting are at most those sent to this tab. What a fold leaves
is at most a state, an analysis, the thumbnails and errors (`FourTypes`), so a tab is refused a frame
only when errors wait (`Refused`): here the queue's size of at least six is needed.

**`EngineClientsProofs`.** `ClientsInv` has one part per protocol. That of the GTP client
(`GtpInv`) is about everything that is on its way. `WireInv`: when no command is in flight, the
engine has only interrupts to read and the client only lines of an analysis, and the engine's
board is the mirror; when one is, it is the last thing the engine has to read (`InOutbox`), or its
reply is the first line that is not of an analysis (`InLines`), and that reply tells which board the
engine has (`ReplyTells`, `SearchAfter` for the moves of a streamed search). `JobInv` says what a
call's phase promises of the mirror, `LocksInv` who holds which lock and whether the stream reads.
That `sync` (undo to the common prefix, then play the rest) ends on the wanted line needs the
length of a longest common prefix to exist, from the lemma `Least`. `HandolInv` and `AnalysisInv`
are about tokens: what is live is what is wanted, and nothing is after a failure.

**`GameRecordProofs`.** `IndexInv` states of each index what `IndexIsExact` says of both, over the
line as a function of its plies (`Exact`); lemmas show that truncating a line and adding a ply to
it keep that. A table that is exact decides membership of a key in the line, hence `LineIsLegal`.
`StonesAddUp` is about what `play` does to a board, and `play` collects chains with a loop, a
recursive function in `Board`. The proof replaces the loop by what it computes: the chain of a
point is the least set that has the point and is closed under neighbours of its colour (`ChainIs`).
That the loop ends with such a set follows from counting stones (`ReachEnds`), by an induction on
numbers stated over a set (`Numbers`, from the well-foundedness of `<`), which needs no operator as
a parameter. What a move takes off are whole chains of one colour (`LostProperties`), so stones and
prisoners add up (`CountStep`). A chain of the position after it was whole before it too, unless it
holds or meets the stone, and its liberty is still free, or the stone took it; and then `play` has
looked at that chain, which is beside the stone (`AliveStep`). `AddUpInv` says both of every ply of
the line, so that undo and branches, which return to an earlier ply, keep them.

**`ModesProofs`, `SignInProofs`.** For the state file: which step of a set-aside or a save has
left which file where (`NameTaken`, `TempFollows`), that names only ever hold what is on the disk in
full (`OnDiskAtNames`), and that what is owed is at the path or under a name (`OwedIsKept`). For
sign-in: a request past the verification carries a hash that was of its word
(`AttemptsAreSound`), so what it opens or rewrites, in a transaction that compares the hash, is
of the current password (`TokensAreCurrent`, `UsersAreCurrent`). The tables' bound counts keys
(`TablesInv`), the queue's and the semaphore's counts are cardinalities (`PlacesInv`).

The throttle's tables hold bare times, and several attempts may have the same one: `succeeded`
removes the first equal stamp, perhaps that of another attempt. `BooksInv` says how times and
attempts still correspond: there is a one-to-one function between the places of a row's live stamps
and the attempts that hold a slot, which maps each stamp to an attempt with that slot (`Counted`).
What happens to a row is then a lemma each: pruning expired stamps (`CountedLive`, with what the
filter `Live` keeps, `FilterKeeps`, by the same induction on numbers as above), the clock
(`CountedLater`: a stamp and its attempt expire together), a slot taken (`CountedAppended`) and a
slot given back (`CountedRemoved`: if the stamp removed was another's, the two attempts swap
stamps, which is why only the count per client and per name is right, and that is enough). The budget
is never exceeded because what `reserve` compares with it, the length of the row, is the number of
attempts. The row of a pair is cleared by a success and so counts only some of its attempts.

### Only model-checked

- *Liveness*: `EndsAreReached`, `CommandsEnd`, `AttachedChangesStored`, `CallersAreServed`,
  `CatchesUp`, `CallsEnd`, `LossReported`, `SignInsEnd`, `SocketsClose` and the liveness of
  `SlotSpec`. Fairness and `ENABLED` are out of the prover's reach.
- The properties of the four runs that end in a counterexample, which are false.

## Disagreements with the documents

The first four have a run that shows them, and were reproduced on the running code.

1. **A dead engine is adopted** (`engine_lost_unnoticed`). If the engine hangs up after its last
   handshake answer and before `_connect` resumes, the loss report finds no engine to lose and is
   ignored, and `_connect` then adopts the engine (`session.py:1536`): shown as connected, never
   reported again. `SPEC.md:513` promises the space shows it disconnected.
2. **A release discards a change** (`release_discards`). `release_idle` closes the space when its
   save succeeded (`spaces.py:433`), but what an engine played while the write ran is in no snapshot.
   `SPEC.md:2385-2386`: "a release never discards changes that were not written".
3. **An older snapshot overwrites a newer one** (`older_overwrites`). `detach` saves outside the
   key's lock (`spaces.py:311`); for a tab the hub had dropped that save can outlive its space and
   land after its successor's. `SPEC.md:2375-2377`.
4. **A tile is left behind** (`tiles_left_behind`). A state has the active board's drawing only; a
   state superseded in the queue takes the drawing along (`spaces.py:83`), and after a switch to
   another board none brings it again. `SPEC.md:1660-1661`, `SPEC.md:1626-1627`.

Seen while reading, and not covered by a run of their own:

- A hang-up goes unnoticed. The GTP reader waits in `lines.put` once 16 lines wait that nobody reads:
  those of an analysis whose stop ran out of time, say, or lines sent to an idle client
  (`gtp.py:146`). It then never reads the end of the connection, and the disconnect callback is not
  called. `gtp.py:7-8`: "a hang-up is noticed even while the client is idle"; `SPEC.md:242-244`.
  Reproduced on the running code. `LossReported` excepts exactly those states (`Unread`).
- A tile stays old after a reconnect. `receiveThumbnails` merges the page's entries, which carry what
  was drawn before the socket was lost, over the snapshot it has just cached (`app.js:435-442`,
  `app.js:426`). A board that changed meanwhile and is not active keeps its old tile.
  `SPEC.md:1425-1426`: "The attach frames (§4.2) then bring every panel up to date". It is read from
  the page's script, which was not run. `PageIsLed` excepts exactly those tiles (`outdated`): this
  and the fourth above are the only ways a tile is left behind.
- A tab becomes paced with its first `ack`. If its sender already waits for a frame then, it sends
  that one even with an earlier state unacknowledged (`SPEC.md` §4.3 says it sends nothing).
  `Paced` excepts exactly that frame.
- A streamed search (`kata-genmove_analyze`) waits for each line anew (`gtp.py:392`) and has no
  deadline for the whole reply, against `SPEC.md:229-230`: an engine that keeps reporting holds the
  call. `CallsEnd` leaves it out.
- `genmove` and the streamed search keep the mirror when the engine's answer is not a move
  (`gtp.py:366`), though the engine may have played on its board. `MirrorIsTrue` excepts exactly
  those states (`strayed`).
- Two sign-ins with the right password that read the same cheaper hash: the first replaces it, the
  second keeps the hash it read (`store.py:307`), gets no token and is answered "wrong".
  `SPEC.md:1980-1983` gives only a password change as the cause of that refusal. It is on the safe
  side; no property states it, and `AccountsAreCurrent` holds.
- When a bad state file cannot be set aside, the app starts fresh and its next save replaces the
  file (`local_mode.py:221`); `SPEC.md:2427-2428`: "Nothing is deleted". `FilesAreKept` excepts it
  (`warned`).
- A background task that dies halts automatic play (`_task_done`) but asks for no new analysis.

## Not modelled

- Wording, redaction of addresses (`_redact`, `_hidden`), the traffic log's texts, sizes and limits
  of messages: no property above depends on them.
- `board_rename`, `board_move`, `preferences` and each board's profile and tuples: one settings
  bit stands for what an engine is asked with; order and names of boards do not matter to it.
- Legality in `EnginePlay`, which lets any point be played: it does not depend on interleaving and
  is `GameRecord`'s. Of a game, komi, names, comments and handicap points.
- The contents of queries, reports and replies of the engines, but for what decides control; the
  sampling of a human-like move (`engine/human.py`).
- `MemoryStorage`, a dictionary; file modes and directories; SQLite's own recovery.
- The analysis the page draws. `SPEC.md` §4.3 itself describes how an analysis can overtake its
  state and be dropped or, with equal cursors, drawn on another position.
- Stateless checks and parsers (guard, SGF, configuration, coordinates, forms, command-line
  options) have no behaviour over time, and their tests enumerate their forms. The fake engine and
  the smoke test are tools.

## Plan

The space came first, being the heart of the program, with the registry as its memory; then the
delivery to its tabs, the clients it drives, the game record and the stores of the two modes. What
is left to model are details of parts already there: `board_rename`, `board_move` and preferences
in `EnginePlay`, the analysis the page draws in `TabDelivery`, SSO identities in `SignIn`.

Every safety invariant and action property that a passing run checks is also a theorem. What is
left is liveness, which stays with the runs.
