# A verification of the holesail-gui core

holesail-gui is a desktop and Android application that opens peer-to-peer
tunnels. It is three programs in one: a webview (`renderer/`), a Rust host
(`src-tauri/src/`) and a JavaScript worker process (`service-worker.js`,
`worker/`) that owns every tunnel. This directory holds TLA+ models of the parts
that carry the program's own logic, TLC runs that check them on small instances,
and TLAPS proofs of what matters most, for every value of the constants.

## 1. Inventory

| component | state it keeps | operations | what is hard |
|---|---|---|---|
| **Session table** `worker/tunnels.js`, `state.js`, `guards.js`, `dispatch.js`, `errors.js` | the `sessions` Map, `statsTimers`, `nextId` | start server / client / folder share, stop, pause, resume, list; containment of asynchronous errors | requests run at once and interleave at every `await`; an entry read before an await is used after it; errors arrive with no session, or with the wrong one |
| **Tunnel engine** `worker/engine/hs.js` | DHT node, server or proxy, published record | ready, pause, resume, close | phases that fail half way; a failed phase leaves the earlier ones open |
| **File server** `worker/fileserver.js` | an HTTP listener, the table of failed logins | ready, close, requests: login, ranges, streams, listings | fixed windows and a bounded table; files and folders that change during an answer; a close waits for the visitors |
| **Statistics and limiter** `worker/stats.js`, `limiter.js` | counters, token buckets, queues, held ends, tickers | write, read, end, close of a stream; ticks; the total cap | order of bytes, ends and ticks; backpressure by hand; overflow |
| **Worker host** `src-tauri/src/worker.rs`, `rpc.rs`, `lib.rs` | the child process, its stdin, readiness, generation, pending calls, diagnostics | spawn, watch, respawn, restart, quit, call | threads over separately locked cells; crash and restart; timeouts; a pipe that blocks |
| **Renderer sessions** `renderer/worker.js`, `sessions.js`, `state.js`, `reconnect.js`, `app.js` | cards, parameters to reconnect, Reconnect buttons, flags of the boot | boot, `worker:ready`, restart button; applying events and lists | asynchronous functions that overlap; answers overtaken by events; ids that start at one in each worker |
| **Forms and saved tunnels** `renderer/actions.js`, `saved.js`, `ui.js` | the rows, the question on screen | submit, save, start, roll back, edit, duplicate, import, autostart | persist-then-start with a rollback; calls that time out and succeed; copies that are out of date |
| **Stores** `saved.rs`, `recent.rs`, `commands.rs` | saved tunnels, recent connections, settings, in the keychain, a file and memory; the login item | load, save, delete, duplicate, import, add, clear, set | a keychain that comes and goes; writes that fail; a crash in the middle of one |
| **Updater, deep links, total limit** `renderer/updater.js`, `deep.js`, `limit.js` | flags and small queues | | |
| **User interface, tray, packaging, scripts** | | | no state of interest |

How they meet: the renderer calls `rpc` in the host, which writes one JSON line to
the worker's stdin; the worker answers on stdout, where the host's reader thread
matches the id; events go the same way to the webview. The host starts, watches and
restarts the worker; the renderer brings the total limit and the permanent tunnels back
when it is told of a new worker. The forms save a permanent tunnel in the store of the
host before they start it in the worker. Inside the worker the session table owns engines
and file servers, wires statistics and a limiter into each, and drops a session when one of
them raises an error with its id.

What makes each correct:

- *Session table*: ids are unique; the renderer's cards, the statistics timers and the
  open tunnels agree with the Map whatever overlaps; an answered stop has released
  everything; an error takes down its own tunnel; every request is answered.
- *Limiter*: bytes are neither lost nor doubled; an end never cuts its stream short;
  a producer told to wait is told to go on; the cap is exceeded by a bounded amount;
  what is held back has a timer that will release it.
- *File server*: failed logins are counted per client, fairly and within a bound; a range
  is answered with the bytes it names; a body is as long as its `Content-Length`; a listing
  has what was there.
- *Host*: at most one worker, and one successor to each; the worker is never given up;
  an exit is handled once; calls to a dead worker fail at once; no live worker loses its
  stdin; every call is answered.
- *Backoff*: a crash loop waits longer and longer and never past the last rung.
- *Renderer*: when nothing is under way the cards are the sessions and every permanent
  tunnel runs, once; the limit is set before any tunnel starts; a Reconnect button starts
  its own tunnel.
- *Forms*: what a form reports is so; the rows end up showing the store; a form ends.
- *Stores*: a restart brings back what the last command left; the login item follows the
  saved tunnels.

`PROJECT.json` lists every hazard with its line and the properties that cover it.

## 2. Modules

| module | models | state | grain of an action |
|---|---|---|---|
| `WorkerSessions` | session table, engine and file-server phases, containment | Map (`live`, `sid`, `paused`), `timers`, `cards`, one `pc` per request | the JavaScript between two awaits |
| `TunnelLifecycle` | abstract: what the worker promises of each tunnel | `phase`, `confirmed` | one move of one tunnel |
| `BandwidthLimiter` | `limiter.js` and `wrapStream` of `stats.js` | buckets, queue, `ticking`, `paused`, `pendingEnds`, what was written and sent | one synchronous callback |
| `FileServer` | `fileserver.js`: logins and answers | `failures`, the request that is followed, what is at its path | the JavaScript between two awaits; one byte of a stream |
| `WorkerHost` | `worker.rs`, `rpc.rs`, exit in `lib.rs` | the locked cells, one program counter per thread, the worker processes, the pipe | what a thread does under one lock |
| `RespawnBackoff` | the ladder of `worker.rs` | `attempt`, `uptime`, `rung` and the history `streak` | one exit, respawn or restart |
| `SavedStore` | `saved.rs`, `recent.rs`, the settings of `commands.rs`, setup in `lib.rs` | memory, keychain and file of each store, the login item, the step of a command | one access to the keychain or the disk |
| `ShareForms` | the forms of `actions.js`, the edits of `saved.js`, `confirmInline` and `toast` | the store, the rows, one `pc` per form, the worker's tunnels, the question on screen | the JavaScript between two awaits |
| `Renderer` | `worker.js`, `sessions.js`, `reconnect.js`, `limit.js`, boot in `app.js`, `autostartSaved` | worker lives and their sessions, events in flight, cards, `replay`, `offers`, one chain per asynchronous function | the JavaScript between two calls; one event |
| `MC*` | TLC instances: symmetry, port prefixes, limits, state constraints | | |
| `*_proof` | theorems and proofs (section 5) | | |

### WorkerSessions

A *call* is a request from `handleLine`, which starts each request at once. `pc[c]` is
the await at which it is suspended:

| `pc` | await |
|---|---|
| `pick` | `pickFreePort()` |
| `bind` | the listen of the file server, or of a client's proxy |
| `listen`, `put` | `server.listen`, `mutablePut` in `Server.ready` |
| `closing`, `fsclosing` | `hs.close()`, `fileServer.close()` of a stop |
| `suspending` | `hs.pause()`, `hs.resume()` |
| `stuck` | a client whose listen failed: `ready()` never settles |

The entry object a start creates is named by its call. `Register` is the tail of all
three starts (id, `sessions.set`, `armStatsEmit`, `emitSession`). `cards` is the set of
ids whose last `session:update` was not `stopped`. `Contain` is `onAsyncError` with a
session to blame; `SessionFails` reaches it with `err.sessionId`, `BindFails` through the
port match of `sessionForError`, where `PortPrefix` says which port numbers begin like which
others (the match is made on text). `Exit` is the scheduled `process.exit(1)`.

### BandwidthLimiter

Bytes of a stream are numbered, so loss, duplication and reordering can be told. A
unit stands for a fixed number of bytes, so a tick refills at least one. `Write*` are
the four outcomes of the wrapped `write`, `Read*` the two of the data handler, `Tick` the
whole callback of `startLimitTicker` (refill, drain, `drain` events, resume, ends,
re-arm), `TickEnds` its early return, `Flush` is `stopLimitTicker`. `blocked` are the
producers whose `write` returned false. Overflow is one action with the containment that
follows, as both happen in one task. `where` is the part of the session's life the
limiter sees.

### FileServer

The handler of a request checks the count of failed logins, the credentials and the method
before its first await, so a login is one step: `TurnAway` (429), `Refuse` (401, with
`noteFailure`) or `Admit`. `failures` is the Map, from client to count and end of window;
`throttled` deletes an entry whose window is over (`Looked`), and `Full` is the clearing of a
table above its bound. Then one request is followed through its awaits: `RealPath` (the
containment of the real path), `Stat`, and for a file `Open`, `Send` byte by byte, `End` or
`Break`; for a folder `ReadDir`, one `Entry` per name in the order its stats complete, and
`Listed`. `Served` is the arithmetic of `file()` on a range with either end missing;
`Named`, in the properties, is what RFC 9110 says of the same range, written without it.
`Change` changes what is at the path between any two of these steps. Requests share only
the table, so one at a time loses no interleaving of two.

### WorkerHost

Threads that run `spawn_worker` are *spawners*: the setup and its retries (`Boot`), the
respawn timer of the watcher of worker `w` (named `w`), the manual restarts. `Quit` is
`RunEvent::Exit`. A watcher polls *whatever worker is in the slot*, as the code does.
`gen` and `seen` are `RESPAWN_GEN` and the value a timer captured. A call passes `Gate`
(`WORKER_READY`), `Insert`, `Lock` (takes the `StdinState` lock and keeps it until the
write returns), `Write` (blocks while the pipe is full), and waits for its channel or
its timeout. `StdinFree` says that no blocked write holds the lock.

The worker process is the environment: it starts, announces itself, serves, may hang,
may die at any time.

`Lines` are the *lines of succession*: each worker that lives or whose exit is not found
yet, each watcher that handles an exit, each thread on its way to start a worker. The code
means there to be one, handed from the worker to its watcher, to the timer, to the next
worker; a manual restart takes it over by emptying the slot. `crossed` records the restarts that
found the slot empty while another thread held the line: they begin a second one. `displaced`
records the workers taken out of the slot other than by a watcher. Both are histories.

### RespawnBackoff

`Exits` is the bookkeeping of the watcher: the *wait* uses `next_attempt`, which is 0
after a healthy life, but the counter advances in any case and only a restart resets it.
The setup may fail to start the first worker; it then schedules rung 0 without advancing the
counter (`Init`), so the ladder is one rung behind. `streak` is a history variable; the first
spawn is no respawn and does not count.

### SavedStore

Three stores: `saved` and `recent` live in the keychain, or in a file while none answers,
`settings` in a file. The commands run on the main thread, so `at` is one program counter: the
store and step at which the command, or the setup, is. A persist is `SetKeychain`, then `Unlink`
of the file; or, if the keychain does not answer, `Truncate` and `Fill`, the two halves of
`fs::write`. `WriteFails` is an error the code discards. `Sync` is `autostart_sync`, after every
edit of the saved tunnels but a duplicate; the login item may be unreadable, which counts as
off, or refuse to be set, and `unsynced` remembers that. `Crash` stops the application between
any two steps, and at rest; `KeychainMoves` lets the keychain come and go. `owed`, `found` and
`torn` are histories: the contents a restart may bring back, the stores for which the keychain
last answered, and those whose file is not to be relied on.

### ShareForms

A form's `pc` is the await it is suspended at: `lookup` (`lookupKey`), `ask` (`confirmInline`),
`save`, `wait` (the call that starts the tunnel), `resave` (a folder share is saved again with
the login the worker made up), `refresh`, and on the other side `rollback` and `unrefresh`.
`SaveRefused` and `ResaveRefused` are rejections of the two saves: the commands of Rust discard
the errors of the disk, but the call itself can be refused. `reply[f]` is what its call came to;
`TimeOut` lets the worker go on, so `WorkerStarts` can follow it (`late`). Edits write a copy of
the *row*, which is what was last read, so `PutFrom` notes (`stale`) when the store had moved
on. `asking` is the one element that shows a question or a toast.

### Renderer

Each asynchronous function is a *chain*: the boot, the restart button, one for each
`worker:ready`, and `User`, the other buttons. `pc` is its next call (`ping`, `list`, `limit`,
`start`, `reconnect`); `st` and `got` whether and how it was answered. Events are a queue in
the order the worker wrote them, but for the exit: it is announced by the watcher, so `Crash`
puts it anywhere among the lines the reader has yet to hand on, and fails the calls whose answers
it overtook. `Suspends` is the update of a pause or a resume, which names no tunnel and may come
after the stop of its session. `OnState` draws a card for it, without a tunnel (`blank`). An
answer carries `after`, the number of events in front of
it, so a chain resumes after those and at any time later: events that follow an answer can
overtake it. A refused call ends its chain (`Ask` gives `Idle`). `loop` is
`flags.autostartRunning`. The Reconnect buttons stay in the log, of earlier workers too.
Each worker life numbers its sessions from one. `Ready` and
`Respawn` wait until the renderer has got through with what it was sent (`Settled`): a worker
takes long to start and a crashed one is started again a second later at the earliest; a
manual `Restart` waits for nothing. `odd` collects, by name, what the properties except.

How the models compose: `Renderer` takes the worker as its sessions, ids and cap, each step
of which is one `WorkerSessions` allows (`Register`, `Contain`, `TunnelClosed`), and the host as
its starts and exits, which are those of `WorkerHost`; `WorkerSessions` contains the phases of
the engine and of the file server; `ShareForms` takes the store as one register, which is
what `CopyKept` and `RestartKeeps` say of `SavedStore`. `TunnelLifecycle` is implemented by
`WorkerSessions` by refinement (`LifecycleSpec`).

## 3. Runs

| run | instance | shows | states |
|---|---|---|---|
| `sessions` | 3 calls, ports 80 and 8080, one service of the user, cap 2, fair | `IdsNameOneTunnel`, `CardsFollowSessions`, `StatsFollowSessions`, `TunnelMatchesSession`, `StopReleasesAll`, `CallsSettle`, refinement of `TunnelLifecycle` | 106k |
| `sessions_blame` | the same | **violated**: `BindFailureIsContained` | |
| `limiter_own` | 1 session with cap 1, 2 streams, chunks up to 2, ceiling 2, 2 bytes a stream, fair | `BytesAccounted`, `NoTruncation`, `BlockedHasBytes`, `OvershootBounded`, `QueuedIsSent` | 72k |
| `limiter_shared` | 2 sessions (own caps 1 and none), total cap 0 or 1 changed at any time | `HeldHasTicker` | 1.15M |
| `file_server` | 3 machines and the tunnel, 2 failures in a window of 1 over 4 instants, a table of 1, files of 0 to 3 bytes, 2 names, 2 changes | `GuessesBounded`, `TurnedAwayForCause`, `RangeServed`, `BodyAsDeclared`, `ListingTrue` | 86k |
| `host_restarts` | 3 worker lives, 1 restart, 1 call, exit of the application, symmetry of workers | `Attended`, `OneLine`, `ExitFailsPending`, `PendingInFlight`, `ClosesOnlyDead` | 3.1M |
| `host_calls` | 2 lives, 2 calls, exit, fair, no restart | `CallsSettle`, a blocked write included; `RuntimePickedUp` | 428k |
| `host_double` | 3 lives, 1 restart | **violated**: `OneProcess` | |
| `backoff` | the real ladder of 5 rungs | `CrashLoopSlowsDown` | 100 |
| `saved_store` | 2 ids, 2 connections, cap 1, recents of 1, 3 commands, crashes and the keychain at any time | `CopyKept`, `RestartKeeps`, `LoginFollows` | 1.18M |
| `share_forms` | a folder form and a connect form, 1 old record, 2 edits, fair | `OutcomesHold`, `RowsFollow`, `FormEnds` | 131k |
| `renderer` | 2 saved tunnels, one of which cannot be recognised, 2 worker lives, 1 fault | `TypeOK`, `NoSecondCopy`, `CapFirst`, `CardsTrue`, `BackWhenQuiet`, `OfferHolds`, `ReplayBounded` | 1.57M |

Bounds, and why they are enough.

- *Calls*: three calls give every pair of handlers on one session (start, then two that
  overlap) and two overlapping starts with a stop. The invariants are also proved for
  any number of calls, so here the run guards the proof and the liveness.
- *Ports 80 and 8080*: one is a decimal prefix of the other, and one is taken by a
  service of the user: the port match can be right, wrong, or empty.
- *Limiter*: a chunk (2) is larger than the bucket (1), so partial drains happen; two
  streams can exceed the ceiling (2) together, so the overflow happens with another
  stream's bytes and end held. The safety properties are proved for any caps and chunks.
- *File server*: two failures in a window of one instant over four instants let a window
  end, start again and meet the next; a table of one entry is filled and cleared by three
  machines, which come in both address families. Files of up to three bytes have ranges
  with both ends inside, on and past the boundaries. Every property is proved for any of
  these. Logins and answers share nothing, so
  `Apart` follows the answers only before the first failed login.
- *Workers*: each process is started once, so two lives are a respawn (a watcher, its
  timer, and what it starts), and a third is what a restart starts beside them. The races are
  between a restart and the automatic machinery, so one restart has them all, the exit included,
  which empties the slot as a restart does. `PipeSize = 1` lets two calls fill the pipe. The
  safety properties of `host_restarts` are proved for any number of lives, restarts and calls.
- *Stores*: with a cap of one and two ids an import, a duplicate and a save each meet the
  cap; recents of one make each addition drop an entry. Three commands, each of which a
  crash can cut and a restart follow, and the properties are proved for any number.
- *Forms*: two forms of the two kinds that differ most (a second save, a question), and
  two edits, so that one edit can be out of date because of the other.
- *Renderer*: two lives are a crash or a restart at any moment of the first recovery, with the
  chains of both lives overlapping. One fault is a call that fails, a session that dies or a
  button. One update of a pause is on its way at a time; each can name any session there ever
  was in this life. The properties are proved for any number of lives and faults.
- `CHECK_DEADLOCK FALSE` where the bound on calls, bytes, lives or instants ends the
  behaviour. `RespawnBackoff` and `SavedStore` never stop and are checked for deadlock.

Symmetry is used in safety runs only, over calls, workers, machines, names, ids or
connections, which are interchangeable.

## 4. Fairness

- `WorkerSessions`: weak fairness of each call's next step and of `EngineClosed`. The
  promises settle (the DHT answers or rejects, `node.destroy()` ends). Nothing makes a
  visitor of a file server leave, so `VisitorsLeave` has none and `CallsSettle` excepts
  the stop that waits for them for ever, and the client whose bind failed.
- `BandwidthLimiter`: weak fairness of each session's timer, a `setTimeout` that re-arms
  itself. `QueuedIsSent` is about a session with a cap of its own while it runs; with the
  total cap only, other sessions may take the budget at each tick, and the code promises
  nothing.
- `WorkerHost`: weak fairness of the host's threads, timers and locks, in `host_calls` only,
  which has no restart: with one `RuntimePickedUp` is false (section 6). Nothing makes the
  worker read, answer or die, nor the user act. `CallsSettle` excepts a call only when,
  from some time on, a write is blocked on the full pipe for ever: that one, and those
  behind its lock.
- `ShareForms`: weak fairness of each form's next step (promises that settled go on), of
  `TimeOut` (the 90 seconds of a start; 45 for a lookup, whose every outcome is one step), and
  of `Answer` (a question that stays on screen is answered with no after ten seconds).
  Nothing makes the worker answer or the user act. `FormEnds` excepts a form whose question
  another toast replaced.

`FileServer`, `SavedStore`, `RespawnBackoff` and `Renderer` have safety properties only.

## 5. Proofs

`tlapm` checks, for every value of the constants:

| module | theorem | property |
|---|---|---|
| `WorkerSessions_proof` | `TypeCorrect`, `IdsUnique`, `CardsCorrect`, `StatsCorrect`, `TunnelsCorrect`, `StopsCorrect` | `TypeOK` and the five invariants of the session table |
| | `ImplementsLifecycle` | `Spec => Lifecycle!Spec` |
| `BandwidthLimiter_proof` | `LimiterTypes`, `BytesAreAccounted`, `EndsAfterBytes`, `BlockedWaitsForBytes`, `TickerIsSet`, `OvershootIsBounded` | `TypeOK`, `BytesAccounted`, `NoTruncation`, `BlockedHasBytes`, `HeldHasTicker`, `OvershootBounded` |
| `FileServer_proof` | `ServerTypes`, `TableStaysSmall`, `GuessesStayFew`, `TurnedAwayWithCause` | `TypeOK`, `TableBounded`, `GuessesBounded`, `TurnedAwayForCause` |
| | `RangesAreServed`, `BodiesHold`, `ListingsHold` | `RangeServed`, `BodyAsDeclared`, `ListingTrue` |
| `Renderer_proof` | `RendererTypes`, `NeverSecondCopy`, `CapComesFirst`, `CardsAreSessions`, `TunnelsComeBack`, `OffersWork`, `ReplayStaysSmall` | `TypeOK`, `NoSecondCopy`, `CapFirst`, `CardsTrue`, `BackWhenQuiet`, `OfferHolds`, `ReplayBounded` |
| `WorkerHost_proof` | `HostTypes`, `WorkerAttended`, `NoCallLeaks`, `DeadCallsAreFailed` | `TypeOK`, `Attended`, `PendingInFlight`, `ExitFailsPending` |
| | `OneSuccessor`, `OnlyDeadClosed` | `OneLine`, `ClosesOnlyDead` |
| | `NeverTwoProcesses` | `crossed = {} => OneProcess` |
| `RespawnBackoff_proof` | `LadderTypes`, `LadderClimbs` | `TypeOK`, `CrashLoopSlowsDown` |
| `SavedStore_proof` | `StoreTypes`, `CopyIsKept`, `LoginInStep`, `RestartBringsBack` | `TypeOK`, `CopyKept`, `LoginFollows`, `RestartKeeps` |
| `ShareForms_proof` | `FormTypes`, `FormsTellTrue`, `QuestionsComeFirst`, `RowsEndUpTrue` | `TypeOK`, `OutcomesHold`, `AskedFirst`, `RowsFollow` |

Assumptions: only the named `ASSUME`s on the constants, which TLC evaluates in the runs. The
type invariants of these modules are proved; only that of `Renderer` is also run.

*The session table.* `IInv` is the conjunction of the six properties and `CallsOK`. None of
them is inductive alone: a stop that answers deletes *by id* whatever the Map holds, so
the properties need to know that ids are unique, that the entry it captured had that id
(`Target`), and that its engine is at least closing. `CallsOK` says, for each `pc`, what the
await implies: a start suspended in it has no id, its engine is not open before `put`; a stop
in `fsclosing` has a closed engine; an entry that has an id belongs to a start that
answered `ok`, with an id below `nextId`. Each invariant has a lemma of its own
(`IdsStep`, `CardsStep`, ...), which cites only the conjuncts it needs. `EffectCases` groups
the handlers by what they do to the Map and the cards (a registration, a removal, a
containment, a late pause, a statistics tick, nothing), so that two of the lemmas have six
cases rather than twenty-five.

*The refinement.* `Phase` computes the phase of a tunnel from its call, the Map and the
stops in flight. `HandlerMoves` says that each handler moves at most one tunnel, forward, and
`MovesAreAbstract` that the move is one the abstract specification allows. The
invariant is needed to see that a second stop, whose session an error removed first,
confirms a tunnel that is gone and moves nothing else.

*The limiter.* `Effects` sorts the steps by what they do to the bytes: nothing, a write that
passes (`PassedStep`), one that is held (`HeldStep`), a queue that is lost with its session
(`LostStep`), bytes that leave it (`OutStep`: a tick or a flush). Over these, `Bytewise`
is inductive: each byte is sent or queued, once, and the bytes of a stream are queued in
order; a stream that is ended has none; a blocked producer has one. `Ticks` says when a
session has a ticker, however the total cap moves. For the overshoot, `CapKept` is a count
of what is left of a second's budget, in which each stream pays for the one chunk it may have
read beyond it.

*The file server.* Logins and answers are apart. For the first, the table is finite, and
what `noteFailure` leaves has at most one entry above the bound. The failures of a client
fall into the windows its entry had one after the other. `Windows` is inductive: there is a
set of *starts* among them, further than a window apart, such that each failure comes less
than `MaxFails` failures after a start; the entry, if there is one, is the last
start and what has been counted since (`OnRecord`). Any `2 * MaxFails` failures in a row
then include two starts, so the last is more than a window after the first (`WindowsBound`);
and an entry that turns a client away has `MaxFails` failures in its window (`WindowsBlame`).
For the second, each kind of
answer has an invariant: `BodyTrue` (what was promised is what `Named` says, what was sent is
part of it, and as long as nothing changed, what is left to read is the file that was
looked at), `NoneNamed` (a 416), `PageTrue` (a name that stayed is a row or still to be
looked at). `ServedIsNamed` is the arithmetic: the code's clamping and suffixes give the set
of bytes RFC 9110 names, for a range of any shape and a file of any size.

*The host.* `IInv` is `TypeOK /\ OwnChild /\ Covered /\ Calls`. `Covered` strengthens
`Attended`: while the slot is empty somebody has the duty to fill it. A timer counts only if
the generation it captured is still the current one (`OnItsWay`), because a stale timer will
give up at its check; that is sound since whoever bumped the generation, a restart or the
exit, holds the duty from then on. `OwnChild` is what makes the step of the watcher go
through: a thread inside `spawn_worker` has a process of its own whose watcher has not
started, and the timer of a watcher starts only when the watcher is done, so no two threads
can hand the same worker over. `Calls` adds to `PendingInFlight` that a channel holds
something only once its call has left the table for good. These theorems hold for any number
of workers, restarts and calls; the races a restart opens are part of what is proved.

For the rest, `LinesInductive` adds where the handle of a worker is. `Handles` says that it is
in one place, the slot or one thread's hand; `Placed` that a living worker stays in the slot
until it is displaced; `Piped` that the pipe that is kept, and what is written to it, belong to
a worker whose handle has been in the slot. `LinesStep` sorts the steps by what they do to
`Lines`: they end one or leave them (`Fewer`), hand one on (`Handed`), or are the crossing of a
restart (`Crossed`). So `Counted` is inductive: there are no more lines than crossed restarts,
and one. `NeverTwoProcesses` follows, as each living worker is a line: the only way to two
processes is the one `host_double` shows. A watcher that closes the stdin is a line as well, so
with no crossing no worker lives (`OnlyDeadClosed`). A call waits for a worker that was in the
slot; once dead it is still there, or a watcher has taken it and is on its way to the table of
calls, or it was displaced (`DeadCallsAreFailed`). Nothing here restricts the restarts.

*The ladder.* `streak <= attempt` is the strengthening: the counter, which a healthy exit
fails to reset, never falls behind the crashes in a row.

*The stores.* `Back(s)` is what a load would read if the keychain answered as it last did.
Between commands it is what memory holds; in the middle of one it is the old contents or the
new, which is what `Owing` says step by step. `Places` says what is in memory at each step,
`Copies` which copy is up to date and `Synced` that the login item follows unless a sync is
still to come, or the last one met an error.

*The forms.* `Record` says of a form's record at each step what the end promises: there from
the first save on unless the user deleted it, gone from the rollback on. `Calls` ties the
worker's tunnel to the step, `Rows` says that rows that lag behind have a form or an edit that
will read the store again.

*The renderer.* No property of `Renderer` is inductive: each is about what the renderer shows,
and needs to know what the worker has done and the queue of events has yet to tell. `Sound`
is the conjunction of ten parts, each with a `Step` lemma that uses few of the others.

- `Worker` is what can be on its way: the events of a worker that is up are its own, those of
  one that is starting belong to earlier ones, and those after the exit of one that is down are
  its last lines; a call that is answered was answered by the present worker, while that is up;
  a `worker:ready` in the queue finds its chain idle. `OneTunnelPerId` says that whatever is
  said of an id of the present worker (by its Map, an event, an answer, a button or the
  parameters kept) names one tunnel: ids start at one in every life, so this is what keeps two
  lives apart.
- `Cap` adds `CapReady` to `CapFirst`: a chain that began with this worker and is past the limit
  has set it, or could not.
- `Cards`: a session without a card has its `update` in the queue, a card without a session its
  `stopped` or an exit, unless it is noted as stale, and an event about a session that is gone
  is followed by one that undoes it, or is read after the exit and noted then. `Announced`: the
  answer of a start comes through after the event that draws its card.
- `OneLoop`: one chain at a time starts the saved tunnels, which is what the flag
  `autostartRunning` is for. `Copies`: a session has its card, or its start is answered and
  not yet done with; so `savedSession` sees it before the loop comes to the tunnel again.
- `Progress` says how far the loop that began with the present worker has come, and that all
  before is covered; `Synced` that a worker that is up has its ready event, its chain, its loop
  or all its tunnels. With nothing under way only the last is left.
- `ReplayKept` and `OffersKept`: parameters have a card, a button or a `stopped` to come, and a
  button of the present worker belongs to a session that is gone and whose end is told once.

Where a chain of an earlier worker or a timeout breaks one of these, the model notes it in `odd`,
and the proof shows that the exceptions the properties name are all there are (`OddGrows`). TLC
checked `Sound` on small instances before it was proved.

Only model-checked: the five liveness properties (`CallsSettle` twice, `QueuedIsSent`,
`RuntimePickedUp`, `FormEnds`), since liveness under fairness is outside this prover's reach.

## 6. Where the code and its comments disagree

Two have a run that shows a trace.

- `sessions_blame` — a client that cannot bind has no session, so `sessionForError` finds
  whichever healthy session has its port, or a port whose number begins with it
  (`worker/errors.js:32` against `:23`).
- `host_double` — a timer past its two checks is not stopped by the bump of a restart, and
  both spawn (`worker.rs:437` against `:36`).

The others follow from the models as they stand, or were met while they were written; the
actions named take the step.

In the worker:

- The cap of `guards.js` is read before the first await of a start and the session
  counted after the last (`HasCapacity`, `Register`): overlapping starts exceed it.
- `pauseSession` announces its session after the await even if it was stopped meanwhile
  (`Suspended`). `CardsFollowSessions` states exactly this exception.
- A contained error of a folder share leaves its file server listening (`Contain`); a start
  that fails after `listen` leaves its engine open (`EngineFails`).
- The stop of a folder share waits for its visitors (`FilesClosed`).
- A small write overtakes the queue of its own stream (`WriteThrough`, `stats.js:152`): a
  chunk of 2 waits for a bucket that holds 1, and the next chunk of 1 passes it.
- A read without budget is forwarded and never charged (`ReadExceeds`): `OvershootBounded`
  states by how much a cap is exceeded.
- An overflow in a session that an error has already dropped finds nobody to blame and the
  worker exits (`WriteOverflows`).
- `bytes=-` and `bytes=5-2` are answered 416, where the comment at `fileserver.js:387` has
  malformed ranges ignored (`Served`); a URL that cannot be decoded gets no answer (`Admit`); a
  file that shrinks falls short of its `Content-Length` (`BodyAsDeclared` excepts it); an
  empty file asks the runtime for a stream that ends at byte -1, which it may refuse
  (`file`). Two windows that meet let a client fail nearly twice the maximum
  (`GuessesBounded` states the bound).

In the host:

- A restart whose spawn fails has already cancelled the automatic retry (`worker.rs:513`
  against `lib.rs:142`).
- `worker.rs:342` calls the watcher "the SOLE reaper"; after a manual restart the old watcher
  polls the new worker's slot beside the new one (`Reap`), and `kill_worker` reaps too. An exit
  is handled once all the same (`OneLine`).
- Calls in flight to a worker that a restart killed are not failed: they wait for their timeout,
  or for the exit of the next worker (`displaced` in `ExitFailsPending`).
- A restart that finds the slot empty between a watcher's reap and its `CloseStdin` starts a
  worker whose stdin that watcher may then close (`crossed` in `ClosesOnlyDead`).
- A `worker:ready` line of the previous worker, read late, opens the gate for the next
  (`ReadHello`, `worker.rs:334`).
- A timer past its generation check may spawn while the application exits (`SpawnChild`
  after `Bump(Quit)`); a write blocked on the pipe of a hung worker holds the lock that the
  other calls, the restart and the exit wait for, and its timeout has not started (`Lock`).
- A healthy life resets the wait, not the counter (`Exits`), so the next crash is on a high
  rung again; after a first spawn that failed the ladder is one rung behind, as `lib.rs:154`
  schedules a retry without counting it (`Init` of `RespawnBackoff`).

In the stores:

- A list that went to the file while no keychain answered is passed over for the older
  copy in the keychain once it answers again; a keychain that is locked at the start gives an
  empty list, and the next edit overwrites what it had (`OnDisk`; `RestartKeeps` excepts a
  load for which the answer of the keychain changed).
- A crash between `set_password` and `remove_file` leaves the file beside the keychain
  entry (`Unlink`, `saved.rs:132`). It is read only if the keychain later has none.
- An import into a full list refuses even records that would replace one, and returns their
  number all the same (`Merge`); saves and duplicates do not look at the cap.
- A login item that cannot be read counts as off, and one that cannot be set is left as it is,
  with no message (`saved.rs:153`): after the last such tunnel is deleted the application may
  still start at login (`Sync`; `LoginFollows` excepts it until a sync goes well).
- `saved_duplicate` does not bring the login item up to date, which is harmless: the copy
  wishes what its original does (`LoginFollows` holds).

In the renderer:

- A question whose element another toast takes never settles, and the button of its form
  stays busy (`Toast`, `ui.js:198`).
- A start that times out rolls its saved tunnel back, and its tunnel comes up all the same
  (`TimeOut`, then `WorkerStarts`). If the second save of a folder share is refused, its record
  is rolled back and "Failed to share" is shown, while its tunnel runs (`ResaveRefused`,
  `actions.js:179`).
- An edit made from an outdated row, and the second save of a folder share over an edit,
  write back what they read before (`stale`); a record that was deleted can return this way.
- A public permanent server is not recognised by `savedSession`, so each chain starts it
  again; a recognised one can be started twice by its button while the loop starts it.
- A boot that gives up on its worker never reads the saved tunnels (`GivesUp`, `loaded`).
- After a manual restart, which sends no `worker:exit`, the cards of the old worker stay
  (`Restart`, `stale`), and a saved tunnel that seems to run by such a card is skipped
  (`skipped`); a Reconnect or Stop button of an earlier worker reaches whatever session of
  the present one has its id.
- The update of a pause or a resume that ends after the stop or the error of its session draws a
  card that nothing removes before the worker exits (`Suspends`, `OnState`, `sessions.js:91`).
- `worker:exit` is emitted by the watcher, beside the thread that reads the worker's lines
  (`worker.rs:316`, `:374`); a line that thread hands on after it draws a card of a worker that
  is gone (`Crash`, `ExitTold`). `CardsTrue` excepts both by name (`stale`).
- An autostart of a new worker gives way to one that began with the worker before it, and
  is not made up for (`heldOff`).
- The fallback at `renderer/worker.js:113`, for a worker whose `worker:ready` is missed,
  cannot work: the host refuses calls until it has read that line itself. The catch in
  `autostartSaved` is never reached, since `startSaved` reports its own errors, so a start
  that failed is logged as "Auto-started" too.
- A limit the user applies while `restoreGlobalLimit` is between its read and its call is
  overwritten by the older value (`limit.js:35`); the dialog is not modelled.

## 7. Not modelled

- Of the worker: key derivation, the refresh of the DHT record and the lookup itself; byte
  counters; the datagrams of UDP clients, which are discarded and never
  queued; the shutdown on SIGTERM and the read-only calls; how a URL becomes a path, the
  page of a listing, content types and the comparison of credentials in the file server.
- Of the host: finding the runtime and its environment, the allowlist; the validation of
  parameters is only a refusal (`CallFails`, `StartFails`); the tray, the window, start-up
  diagnostics.
- Of the renderer: the dialog that sets the total limit (`applyGlobalLimit`); the drawing of
  cards and their statistics, the reading of form fields, dialogs, themes, invites, the QR code;
  the updater, whose work is in a plugin outside the repository; a deep link, which only fills a
  form.
- Packaging, scripts, CI and vendored code, which are not part of the running program.

`PROJECT.json` gives the reason for each component.

## 8. Plan

Done: the session table with its abstract specification, the limiter, the host and the
backoff, the file server, the stores, the forms and the renderer, with the proofs of
section 5. What is left, the most useful first:

1. The shutdown of the worker on SIGTERM next to requests that are under way, and the UDP
   path of the limiter.
2. Liveness of the host under manual restarts: `RuntimePickedUp` for the restarts that succeed.
3. Bounds for what no property covers: by how much overlapping starts exceed the cap of
   `guards.js`, and what a start that fails after its engine listens leaves open.
