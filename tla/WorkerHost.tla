----------------------------- MODULE WorkerHost -----------------------------
(***************************************************************************)
(* The Rust host of the worker process: spawning, watching, respawning and *)
(* restarting it (src-tauri/src/worker.rs), the renderer's calls to it     *)
(* (rpc.rs) and the end of the application (lib.rs).                       *)
(*                                                                         *)
(* The host is a set of threads over shared locked cells; every action is  *)
(* what one thread does under one lock, or between two locks.  Threads     *)
(* that run spawn_worker are Spawners: the setup of lib.rs and the respawn *)
(* timers it leads to (Boot), the respawn timers of the watcher of worker  *)
(* w (w itself), and the manual restarts (Restarts).  Quit is the exit of  *)
(* the application, which goes through the same steps as a restart.        *)
(***************************************************************************)
EXTENDS Naturals, FiniteSets

CONSTANTS
    Workers,    \* the worker processes that can ever be started (a bound)
    Restarts,   \* the calls of worker_restart and retry_spawn_worker
    Rpcs,       \* the renderer's calls
    PipeSize,   \* how many unread requests the stdin pipe of a worker holds
    Boot, Quit, \* threads
    NoWorker    \* None

ASSUME HostAssumption ==
    /\ PipeSize \in Nat \ {0}
    /\ NoWorker \notin Workers
    /\ Boot # Quit
    /\ {Boot, Quit} \cap (Workers \cup Restarts) = {}
    /\ Workers \cap Restarts = {}

VARIABLES
    installed, \* a runtime that can run the worker is there
    proc,      \* the state of each worker process
    hello,     \* the workers whose worker:ready line no reader has read yet
    slot,      \* WorkerState: the worker whose Child handle is kept
    stdin,     \* StdinState: the worker whose stdin is kept
    ready,     \* WORKER_READY
    gen,       \* RESPAWN_GEN
    watcher,   \* where the watcher thread started with each worker is
    tpc,       \* where each spawner, and Quit, is
    seen,      \* the generation a respawn timer has read
    child,     \* the worker a thread is starting or killing
    failed,    \* the restarts that returned an error
    crossed,   \* history: the restarts that found the slot empty while another
               \* thread was on its way to start a worker
    displaced, \* history: the workers taken out of the slot other than by a
               \* watcher
    rpc,       \* where each call of rpc is
    pending,   \* PendingState: the calls the next reply may go to
    chan,      \* what the oneshot channel of a call holds
    to,        \* the worker a request was written to
    handled,   \* the calls whose request a worker has read and executed
    answer     \* what the renderer was told

hostVars == <<installed, proc, hello, slot, stdin, ready, gen, watcher,
              tpc, seen, child, failed, crossed, displaced>>
past     == <<crossed, displaced>>
rpcVars  == <<rpc, pending, chan, to, handled, answer>>
vars     == <<hostVars, rpcVars>>

Spawners == Workers \cup {Boot} \cup Restarts
Threads  == Spawners \cup {Quit}

-----------------------------------------------------------------------------
Init ==
    /\ installed \in BOOLEAN
    /\ proc    = [w \in Workers |-> "none"]
    /\ hello   = {}
    /\ slot    = NoWorker
    /\ stdin   = NoWorker
    /\ ready   = FALSE
    /\ gen     = 1
    /\ watcher = [w \in Workers |-> "none"]
    /\ tpc     = [t \in Threads |-> IF t = Boot THEN "spawn" ELSE "idle"]
    /\ seen    = [t \in Threads |-> 0]
    /\ child   = [t \in Threads |-> NoWorker]
    /\ failed  = {}
    /\ crossed = {}
    /\ displaced = {}
    /\ rpc     = [r \in Rpcs |-> "idle"]
    /\ pending = {}
    /\ chan    = [r \in Rpcs |-> "empty"]
    /\ to      = [r \in Rpcs |-> NoWorker]
    /\ handled = {}
    /\ answer  = [r \in Rpcs |-> "none"]

-----------------------------------------------------------------------------
(* Helpers                                                                 *)

\* The exit handler of lib.rs has not returned.
Running == tpc[Quit] # "done"

Alive(w) == proc[w] \in {"starting", "serving", "wedged"}

\* A blocked writeln keeps the lock of StdinState.
StdinFree == \A r \in Rpcs : rpc[r] # "writing"

\* Thread t is at that step.
At(t, step) == Running /\ tpc[t] = step

Goto(t, step) == tpc' = [tpc EXCEPT ![t] = step]

\* The watcher of w handles an exit.
Tailing(w) == watcher[w] \in {"unready", "close", "drain"}

\* The worker a thread has in hand, outside the slot.
InHand(w) == \E t \in Spawners : child[t] = w /\ tpc[t] \in {"slot", "untie", "kill"}

\* The worker lives, or its exit is not found yet.
Standing(w) == Alive(w) \/ slot = w \/ InHand(w)

\* The thread is on its way to start a worker.
Coming(t) ==
    \/ tpc[t] \in {"schedule", "sleep", "look", "spawn"}
    \/ tpc[t] \in {"untie", "kill"} /\ child[t] = NoWorker

\* The lines of succession: a worker, then the watcher that handles its exit,
\* then the thread that starts the next one.
Lines ==
    {<<"worker", w>> : w \in {v \in Workers : Standing(v)}}
    \cup {<<"exit", w>> : w \in {v \in Workers : Tailing(v)}}
    \cup {<<"thread", t>> : t \in {u \in Spawners : Coming(u)}}

\* History: the worker in the slot goes.
Displace == displaced' = displaced \cup ({slot} \ {NoWorker})

-----------------------------------------------------------------------------
(* spawn_worker                                                            *)

SpawnChild(t, w) ==
    /\ At(t, "spawn") /\ installed /\ proc[w] = "none"
    /\ proc' = [proc EXCEPT ![w] = "starting"]
    /\ ready' = FALSE
    /\ child' = [child EXCEPT ![t] = w]
    /\ Goto(t, "slot")
    /\ UNCHANGED <<rpcVars, installed, hello, slot, stdin, gen, watcher, seen,
                   failed, past>>

\* Mutant of SpawnFails: the timer gives up.
SpawnFailsForGood(t) ==
    /\ At(t, "spawn") /\ ~installed
    /\ ready' = FALSE
    /\ Goto(t, "done")
    /\ UNCHANGED <<rpcVars, installed, proc, hello, slot, stdin, gen, watcher,
                   seen, child, failed, past>>

\* There is no runtime: setup and the timers schedule a retry, a restart
\* returns the error.
SpawnFails(t) ==
    /\ At(t, "spawn") /\ ~installed
    /\ ready' = FALSE
    /\ Goto(t, IF t \in Restarts THEN "done" ELSE "schedule")
    /\ failed' = failed \cup ({t} \cap Restarts)
    /\ UNCHANGED <<rpcVars, installed, proc, hello, slot, stdin, gen, watcher,
                   seen, child, past>>

KeepChild(t) ==
    /\ At(t, "slot")
    /\ slot' = child[t]
    /\ Displace
    /\ Goto(t, "stdin")
    /\ UNCHANGED <<rpcVars, installed, proc, hello, stdin, ready, gen, watcher,
                   seen, child, failed, crossed>>

\* The reader and the watcher of the worker start.
KeepStdin(t) ==
    /\ At(t, "stdin") /\ StdinFree
    /\ stdin' = child[t]
    /\ watcher' = [watcher EXCEPT ![child[t]] = "poll"]
    /\ child' = [child EXCEPT ![t] = NoWorker]
    /\ Goto(t, "done")
    /\ UNCHANGED <<rpcVars, installed, proc, hello, slot, ready, gen, seen,
                   failed, past>>

\* The reader finds worker:ready, also when its worker has exited since.
ReadHello(w) ==
    /\ Running /\ w \in hello /\ watcher[w] # "none"
    /\ ready' = TRUE
    /\ hello' = hello \ {w}
    /\ UNCHANGED <<rpcVars, installed, proc, slot, stdin, gen, watcher, tpc,
                   seen, child, failed, past>>

-----------------------------------------------------------------------------
(* The watcher                                                             *)

Watching(w, step) == Running /\ watcher[w] = step

\* Mutant of Reap: try_wait is not asked.
ReapUnasked(w) ==
    /\ Watching(w, "poll") /\ slot # NoWorker
    /\ slot' = NoWorker
    /\ watcher' = [watcher EXCEPT ![w] = "unready"]
    /\ UNCHANGED <<rpcVars, installed, proc, hello, stdin, ready, gen, tpc, seen,
                   child, failed, past>>

\* The watcher of w asks whatever worker is in the slot.
Reap(w) ==
    /\ Watching(w, "poll") /\ slot # NoWorker /\ ~Alive(slot)
    /\ slot' = NoWorker
    /\ watcher' = [watcher EXCEPT ![w] = "unready"]
    /\ UNCHANGED <<rpcVars, installed, proc, hello, stdin, ready, gen, tpc, seen,
                   child, failed, past>>

Unready(w) ==
    /\ Watching(w, "unready")
    /\ ready' = FALSE
    /\ watcher' = [watcher EXCEPT ![w] = "close"]
    /\ UNCHANGED <<rpcVars, installed, proc, hello, slot, stdin, gen, tpc, seen,
                   child, failed, past>>

CloseStdin(w) ==
    /\ Watching(w, "close") /\ StdinFree
    /\ stdin' = NoWorker
    /\ watcher' = [watcher EXCEPT ![w] = "drain"]
    /\ UNCHANGED <<rpcVars, installed, proc, hello, slot, ready, gen, tpc, seen,
                   child, failed, past>>

\* Every pending call is told.
FailPending ==
    /\ chan' = [r \in Rpcs |-> IF r \in pending THEN "exited" ELSE chan[r]]
    /\ pending' = {}

\* Mutant of Drain: no respawn is scheduled.
DrainOnly(w) ==
    /\ Watching(w, "drain")
    /\ FailPending
    /\ watcher' = [watcher EXCEPT ![w] = "done"]
    /\ UNCHANGED <<installed, proc, hello, slot, stdin, ready, gen, tpc, seen,
                   child, failed, past, rpc, to, handled, answer>>

\* Mutant of Drain: the pending calls are left alone.
DrainNothing(w) ==
    /\ Watching(w, "drain")
    /\ watcher' = [watcher EXCEPT ![w] = "done"]
    /\ Goto(w, "schedule")
    /\ UNCHANGED <<rpcVars, installed, proc, hello, slot, stdin, ready, gen, seen,
                   child, failed, past>>

\* The watcher is done, and goes on to schedule_respawn.
Drain(w) ==
    /\ Watching(w, "drain")
    /\ FailPending
    /\ watcher' = [watcher EXCEPT ![w] = "done"]
    /\ Goto(w, "schedule")
    /\ UNCHANGED <<installed, proc, hello, slot, stdin, ready, gen, seen, child,
                   failed, past, rpc, to, handled, answer>>

-----------------------------------------------------------------------------
(* schedule_respawn                                                        *)

Schedule(t) ==
    /\ At(t, "schedule")
    /\ seen' = [seen EXCEPT ![t] = gen]
    /\ Goto(t, "sleep")
    /\ UNCHANGED <<rpcVars, installed, proc, hello, slot, stdin, ready, gen,
                   watcher, child, failed, past>>

CheckGeneration(t) ==
    /\ At(t, "sleep")
    /\ Goto(t, IF gen = seen[t] THEN "look" ELSE "done")
    /\ seen' = [seen EXCEPT ![t] = 0]
    /\ UNCHANGED <<rpcVars, installed, proc, hello, slot, stdin, ready, gen,
                   watcher, child, failed, past>>

CheckSlot(t) ==
    /\ At(t, "look")
    /\ Goto(t, IF slot = NoWorker THEN "spawn" ELSE "done")
    /\ UNCHANGED <<rpcVars, installed, proc, hello, slot, stdin, ready, gen,
                   watcher, seen, child, failed, past>>

-----------------------------------------------------------------------------
(* worker_restart, and the exit of the application                         *)

Bump(t) ==
    /\ At(t, "idle")
    /\ gen' = gen + 1
    /\ Goto(t, "take")
    /\ UNCHANGED <<rpcVars, installed, proc, hello, slot, stdin, ready, watcher,
                   seen, child, failed, past>>

TakeWorker(t) ==
    /\ At(t, "take")
    /\ child' = [child EXCEPT ![t] = slot]
    /\ slot' = NoWorker
    /\ Displace
    /\ crossed' = IF t # Quit /\ slot = NoWorker /\ Lines # {}
                  THEN crossed \cup {t} ELSE crossed
    /\ Goto(t, "untie")
    /\ UNCHANGED <<rpcVars, installed, proc, hello, stdin, ready, gen, watcher,
                   seen, failed>>

TakeStdin(t) ==
    /\ At(t, "untie") /\ StdinFree
    /\ stdin' = NoWorker
    /\ Goto(t, "kill")
    /\ UNCHANGED <<rpcVars, installed, proc, hello, slot, ready, gen, watcher,
                   seen, child, failed, past>>

\* Mutant of KillWorker: the next worker is started beside the old one.
KillNobody(t) ==
    /\ At(t, "kill")
    /\ child' = [child EXCEPT ![t] = NoWorker]
    /\ Goto(t, IF t = Quit THEN "done" ELSE "spawn")
    /\ UNCHANGED <<rpcVars, installed, proc, hello, slot, stdin, ready, gen, watcher,
                   seen, failed, past>>

\* kill_worker returns when the worker is dead and reaped.
KillWorker(t) ==
    /\ At(t, "kill")
    /\ proc' = [w \in Workers |-> IF w = child[t] THEN "dead" ELSE proc[w]]
    /\ child' = [child EXCEPT ![t] = NoWorker]
    /\ Goto(t, IF t = Quit THEN "done" ELSE "spawn")
    /\ UNCHANGED <<rpcVars, installed, hello, slot, stdin, ready, gen, watcher,
                   seen, failed, past>>

-----------------------------------------------------------------------------
(* rpc                                                                     *)

Calling(r, step) == Running /\ rpc[r] = step

Settle(r, a) ==
    /\ rpc' = [rpc EXCEPT ![r] = "done"]
    /\ answer' = [answer EXCEPT ![r] = a]

Gate(r) ==
    /\ Calling(r, "idle")
    /\ IF ready
       THEN rpc' = [rpc EXCEPT ![r] = "insert"] /\ UNCHANGED answer
       ELSE Settle(r, "starting")
    /\ UNCHANGED <<hostVars, pending, chan, to, handled>>

Insert(r) ==
    /\ Calling(r, "insert")
    /\ pending' = pending \cup {r}
    /\ rpc' = [rpc EXCEPT ![r] = "lock"]
    /\ UNCHANGED <<hostVars, chan, to, handled, answer>>

Lock(r) ==
    /\ Calling(r, "lock") /\ StdinFree
    /\ IF stdin = NoWorker
       THEN Settle(r, "down") /\ pending' = pending \ {r} /\ UNCHANGED to
       ELSE /\ rpc' = [rpc EXCEPT ![r] = "writing"]
            /\ to' = [to EXCEPT ![r] = stdin]
            /\ UNCHANGED <<pending, answer>>
    /\ UNCHANGED <<hostVars, chan, handled>>

\* The requests in the pipe of w.
Unread(w) ==
    {r \in Rpcs \ handled :
        to[r] = w /\ rpc[r] \in {"await", "done"} /\ answer[r] # "broken"}

\* writeln returns once the request is in the pipe.
Write(r) ==
    /\ Calling(r, "writing") /\ Alive(to[r])
    /\ Cardinality(Unread(to[r])) < PipeSize
    /\ rpc' = [rpc EXCEPT ![r] = "await"]
    /\ UNCHANGED <<hostVars, pending, chan, to, handled, answer>>

WriteFails(r) ==
    /\ Calling(r, "writing") /\ ~Alive(to[r])
    /\ Settle(r, "broken")
    /\ pending' = pending \ {r}
    /\ UNCHANGED <<hostVars, chan, to, handled>>

\* The stdout reader hands the answer of a worker to the call it belongs to.
Reply(r) ==
    /\ Running /\ r \in handled \cap pending
    /\ pending' = pending \ {r}
    /\ chan' = [chan EXCEPT ![r] = "reply"]
    /\ UNCHANGED <<hostVars, rpc, to, handled, answer>>

Resolve(r) ==
    /\ Calling(r, "await") /\ chan[r] # "empty"
    /\ Settle(r, chan[r])
    /\ UNCHANGED <<hostVars, pending, chan, to, handled>>

\* Mutant of TimeOut: the call stays in the table.
TimeOutOnly(r) ==
    /\ Calling(r, "await") /\ chan[r] = "empty"
    /\ Settle(r, "timeout")
    /\ UNCHANGED <<hostVars, pending, chan, to, handled>>

\* Mutant of TimeOut: only while no worker is ready.
TimeOutIfDown(r) ==
    /\ Calling(r, "await") /\ chan[r] = "empty" /\ ~ready
    /\ Settle(r, "timeout")
    /\ pending' = pending \ {r}
    /\ UNCHANGED <<hostVars, chan, to, handled>>

TimeOut(r) ==
    /\ Calling(r, "await") /\ chan[r] = "empty"
    /\ Settle(r, "timeout")
    /\ pending' = pending \ {r}
    /\ UNCHANGED <<hostVars, chan, to, handled>>
-----------------------------------------------------------------------------
(* The worker process and its surroundings                                 *)

WorkerStep == UNCHANGED <<installed, slot, stdin, ready, gen, watcher, tpc, seen,
                          child, failed, past, rpc, pending, chan, to, answer>>

\* service-worker.js announces itself.
Initialised(w) ==
    /\ proc[w] = "starting"
    /\ proc' = [proc EXCEPT ![w] = "serving"]
    /\ hello' = hello \cup {w}
    /\ WorkerStep /\ UNCHANGED handled

\* A request is read, executed and answered on stdout.
Handle(r) ==
    /\ to[r] # NoWorker /\ proc[to[r]] = "serving" /\ r \in Unread(to[r])
    /\ handled' = handled \cup {r}
    /\ WorkerStep /\ UNCHANGED <<proc, hello>>

\* The worker hangs: it reads its stdin no more.
Wedge(w) ==
    /\ proc[w] = "serving"
    /\ proc' = [proc EXCEPT ![w] = "wedged"]
    /\ WorkerStep /\ UNCHANGED <<hello, handled>>

Die(w) ==
    /\ Alive(w)
    /\ proc' = [proc EXCEPT ![w] = "dead"]
    /\ WorkerStep /\ UNCHANGED <<hello, handled>>

Install ==
    /\ ~installed
    /\ installed' = TRUE
    /\ UNCHANGED <<rpcVars, proc, hello, slot, stdin, ready, gen, watcher, tpc,
                   seen, child, failed, past>>

-----------------------------------------------------------------------------
Spawn(t) ==
    \/ \E w \in Workers : SpawnChild(t, w)
    \/ SpawnFails(t) \/ KeepChild(t) \/ KeepStdin(t)

Respawn(t) == Schedule(t) \/ CheckGeneration(t) \/ CheckSlot(t)

Watch(w) == Reap(w) \/ Unready(w) \/ CloseStdin(w) \/ Drain(w)

Stop(t) == TakeWorker(t) \/ TakeStdin(t) \/ KillWorker(t)

Call(r) ==
    \/ Insert(r) \/ Lock(r) \/ Write(r) \/ WriteFails(r)
    \/ Reply(r) \/ Resolve(r) \/ TimeOut(r)

Next ==
    \/ \E t \in Spawners : Spawn(t) \/ Respawn(t)
    \/ \E t \in Restarts \cup {Quit} : Bump(t) \/ Stop(t)
    \/ \E w \in Workers : Watch(w) \/ ReadHello(w)
    \/ \E r \in Rpcs : Gate(r) \/ Call(r) \/ Handle(r)
    \/ \E w \in Workers : Initialised(w) \/ Wedge(w) \/ Die(w)
    \/ Install

Spec == Init /\ [][Next]_vars

\* The operating system runs the host's threads, its timers fire and its locks
\* are handed on.  Nothing makes a worker read, answer or die, a user restart
\* or quit, or a runtime appear.
Fairness ==
    /\ \A t \in Spawners : WF_vars(Spawn(t)) /\ WF_vars(Respawn(t))
    /\ \A t \in Restarts \cup {Quit} : WF_vars(Stop(t))
    /\ \A w \in Workers : WF_vars(Watch(w)) /\ WF_vars(ReadHello(w))
    /\ \A r \in Rpcs : WF_vars(Call(r))

FairSpec == Spec /\ Fairness

-----------------------------------------------------------------------------
(* Properties                                                              *)

\* The type invariant; a request is only ever written to a worker.
TypeOK ==
    /\ installed \in BOOLEAN /\ ready \in BOOLEAN
    /\ proc \in [Workers -> {"none", "starting", "serving", "wedged", "dead"}]
    /\ hello \subseteq Workers
    /\ {slot, stdin} \subseteq {w \in Workers : proc[w] # "none"} \cup {NoWorker}
    /\ gen \in Nat
    /\ watcher \in [Workers -> {"none", "poll", "unready", "close", "drain", "done"}]
    /\ tpc \in [Threads -> {"idle", "take", "untie", "kill", "spawn", "slot",
                            "stdin", "schedule", "sleep", "look", "done"}]
    /\ seen \in [Threads -> Nat]
    /\ child \in [Threads -> Workers \cup {NoWorker}]
    /\ failed \subseteq Restarts /\ crossed \subseteq Restarts
    /\ displaced \subseteq Workers
    /\ rpc \in [Rpcs -> {"idle", "insert", "lock", "writing", "await", "done"}]
    /\ pending \subseteq Rpcs
    /\ chan \in [Rpcs -> {"empty", "exited", "reply"}]
    /\ to \in [Rpcs -> Workers \cup {NoWorker}]
    /\ \A r \in Rpcs : rpc[r] \in {"writing", "await"} => to[r] \in Workers
    /\ handled \subseteq Rpcs
    /\ answer \in [Rpcs -> {"none", "starting", "down", "broken", "exited",
                            "reply", "timeout"}]

Busy(t) == tpc[t] \notin {"idle", "done"}

\* The worker is never given up: with no worker in the slot some thread is on
\* its way to start one, unless a restart told the user that it failed, and the
\* worker in the slot has a watcher.
Attended ==
    Running =>
        IF slot = NoWorker
        THEN \/ \E t \in Spawners : Busy(t)
             \/ \E w \in Workers : Tailing(w)
             \/ Busy(Quit)
             \/ failed # {}
        ELSE \/ \E w \in Workers : watcher[w] = "poll"
             \/ \E t \in Spawners : tpc[t] = "stdin"

\* architecture.md: "a manual restart bumps it so a pending auto-respawn cannot
\* double-spawn".  There is at most one worker process.
OneProcess == \A v, w \in Workers : Alive(v) /\ Alive(w) => v = w

\* A worker has one successor at most, however exits, timers, failed spawns and
\* restarts interleave, and an exit is handled once ("the SOLE reaper"): a second
\* line begins only when a restart finds the slot empty while another thread is
\* on its way to fill it.
OneLine == Cardinality(Lines) <= 1 + Cardinality(crossed)

\* worker.rs: "Detects worker exit, fails pending RPCs".  A call that waits for a
\* dead worker is about to be told, or its worker was displaced from the slot.
ExitFailsPending ==
    \A r \in pending :
        rpc[r] = "await" /\ proc[to[r]] = "dead" =>
            \/ slot = to[r]
            \/ \E w \in Workers : Tailing(w)
            \/ to[r] \in displaced

\* worker.rs: "Close the stdin pipe so nothing writes to a dead process".  Unless
\* there is a second line, a watcher closes no other, through any restarts.
ClosesOnlyDead ==
    [][\A w \in Workers : watcher[w] = "close" /\ watcher'[w] = "drain" =>
          stdin = NoWorker \/ ~Alive(stdin) \/ crossed # {}]_vars

\* rpc.rs, clamp_timeout: a pending call holds "a resource the caller does not
\* own".  Only a call in progress is in the table, on every error path.
PendingInFlight == \A r \in pending : rpc[r] \in {"lock", "writing", "await"}

\* lib.rs: "retry with backoff -- a runtime installed later will be picked up".
\* Once a runtime is there, a missing worker is started, up to the bound on
\* Workers, if no restart gave up before.
RuntimePickedUp ==
    (installed /\ slot = NoWorker) ~>
        \/ slot # NoWorker \/ Busy(Quit) \/ ~Running
        \/ \A w \in Workers : proc[w] # "none"

\* Every call is answered, unless from some time on one is blocked in its write
\* to a worker that does not read: it keeps the lock the others wait for.
CallsSettle ==
    \A r \in Rpcs : rpc[r] = "insert" ~>
        \/ rpc[r] = "done" \/ ~Running
        \/ [](\E q \in Rpcs : rpc[q] = "writing" /\ Alive(to[q]))
=============================================================================
