--------------------------- MODULE WorkerSessions ---------------------------
(***************************************************************************)
(* The session table of the worker process: the calls that start, stop,    *)
(* pause and resume a tunnel (worker/tunnels.js), the containment of       *)
(* asynchronous errors (worker/errors.js), the session cap                 *)
(* (worker/guards.js) and the statistics timers (worker/stats.js).         *)
(*                                                                         *)
(* The worker runs one JavaScript task at a time, so every action is the   *)
(* code between two awaits; handleLine (service-worker.js) starts every    *)
(* request at once, so the calls interleave at each await.                 *)
(*                                                                         *)
(* A call is an element of Calls.  The entry object a start call puts in   *)
(* the sessions Map is identified with that call: sid[c] is its id, live   *)
(* the set of entries in the Map.                                          *)
(***************************************************************************)
EXTENDS Naturals, FiniteSets

CONSTANTS
    Calls,        \* the requests the worker receives, each handled once
    Ports,        \* local TCP ports
    Services,     \* the ports on which the user's own services listen
    PortPrefix,   \* <<p, q>>: the decimal form of p begins that of q
    MaxSessions,  \* MAX_SESSIONS (guards.js)
    NoPort,       \* the port of a call that has none yet
    NoCall        \* the entry of a call that refers to none

ASSUME WorkerAssumption ==
    /\ MaxSessions \in Nat
    /\ Services \subseteq Ports
    /\ PortPrefix \subseteq Ports \X Ports
    /\ NoPort \notin Ports
    /\ NoCall \notin Calls

VARIABLES
    worker,   \* "up", "exiting" (process.exit is scheduled) or "dead"
    op,       \* what a call does, "none" until it is received
    pc,       \* where a call is suspended
    reply,    \* the answer of a call: "none", "ok" or "error"
    port,     \* the local port of a start call
    arg,      \* the session id a stop, pause or resume names
    entry,    \* the entry such a call found in the Map
    live,     \* the values of the sessions Map
    sid,      \* the id of an entry, 0 before it has one
    nextId,   \* the counter behind nextSessionId
    timers,   \* the keys of statsTimers
    paused,   \* the entries whose state is "paused"
    cards,    \* the ids whose last session:update is not "stopped"
    engine,   \* the Engine a start call constructed
    files     \* the FileServer a folder share constructed

vars == <<worker, op, pc, reply, port, arg, entry, live, sid, nextId, timers,
          paused, cards, engine, files>>

StartOps == {"server", "client", "filemanager"}
PauseOps == {"pause", "resume"}
Ops      == StartOps \cup PauseOps \cup {"stop"}

-----------------------------------------------------------------------------
Init ==
    /\ worker = "up"
    /\ op     = [c \in Calls |-> "none"]
    /\ pc     = [c \in Calls |-> "idle"]
    /\ reply  = [c \in Calls |-> "none"]
    /\ port   = [c \in Calls |-> NoPort]
    /\ arg    = [c \in Calls |-> 0]
    /\ entry  = [c \in Calls |-> NoCall]
    /\ live   = {}
    /\ sid    = [c \in Calls |-> 0]
    /\ nextId = 1
    /\ timers = {}
    /\ paused = {}
    /\ cards  = {}
    /\ engine = [c \in Calls |-> "none"]
    /\ files  = [c \in Calls |-> "none"]

-----------------------------------------------------------------------------
(* Helpers                                                                 *)

\* What listens on port p: a service of the user, the proxy of a client or the
\* file server of a folder share.
Bound(p) ==
    \/ p \in Services
    \/ \E c \in Calls :
          /\ port[c] = p
          /\ (op[c] = "client" /\ engine[c] = "open") \/ files[c] = "open"

\* Call c is suspended at that await ("idle": not received yet), and the
\* process is there to resume it.
Awaiting(c, at) == worker # "dead" /\ pc[c] = at

\* The promise of dispatch settles, and handleLine sends the answer.
Answer(c, r) ==
    /\ pc' = [pc EXCEPT ![c] = "done"]
    /\ reply' = [reply EXCEPT ![c] = r]

Await(c, at) ==
    /\ pc' = [pc EXCEPT ![c] = at]
    /\ UNCHANGED reply

\* assertCapacity.
HasCapacity == Cardinality(live) < MaxSessions

OpenEngine(c) == engine' = [engine EXCEPT ![c] = "node"]

\* Entry e is what sessions.get(i) finds.
HasId(e, i) == sid[e] = i

\* The part of hs.close() before its await: the listener is gone at once.
Closing(e) == engine' = [engine EXCEPT ![e] = IF @ = "open" THEN "closing" ELSE @]

\* Mutant of nextSessionId: the size of the Map instead of a counter.
SizeAsId(c) ==
    /\ sid' = [sid EXCEPT ![c] = Cardinality(live) + 1]
    /\ nextId' = nextId + 1

nextSessionId(c) ==
    /\ sid' = [sid EXCEPT ![c] = nextId]
    /\ nextId' = nextId + 1

\* What a start does after its last await: sessions.set, armStatsEmit and
\* emitSession.
Register(c) ==
    /\ nextSessionId(c)
    /\ live' = live \cup {c}
    /\ timers' = timers \cup {nextId}
    /\ cards' = cards \cup {nextId}

-----------------------------------------------------------------------------
(* Starting                                                                *)

\* Too many sessions, or parameters the validation rejects.
Refused(c, o) ==
    /\ Awaiting(c, "idle")
    /\ op' = [op EXCEPT ![c] = o]
    /\ Answer(c, "error")
    /\ UNCHANGED <<worker, port, arg, entry, live, sid, nextId, timers, paused,
                   cards, engine, files>>

StartServer(c, p) ==
    /\ Awaiting(c, "idle") /\ HasCapacity
    /\ op' = [op EXCEPT ![c] = "server"]
    /\ port' = [port EXCEPT ![c] = p]
    /\ OpenEngine(c)
    /\ Await(c, "listen")
    /\ UNCHANGED <<worker, arg, entry, live, sid, nextId, timers, paused, cards,
                   files>>

\* connectClient or startFilemanager up to the first await: with an explicit
\* port the bind of the proxy or the file server, else the choice of a port.
StartOnPort(c, o, p) ==
    /\ Awaiting(c, "idle") /\ HasCapacity
    /\ op' = [op EXCEPT ![c] = o]
    /\ port' = [port EXCEPT ![c] = p]
    /\ Await(c, IF p = NoPort THEN "pick" ELSE "bind")
    /\ IF o = "client" /\ p # NoPort THEN OpenEngine(c) ELSE UNCHANGED engine
    /\ UNCHANGED <<worker, arg, entry, live, sid, nextId, timers, paused, cards,
                   files>>

\* The system gave a free port, which may be taken again before it is bound.
PortPicked(c, p) ==
    /\ Awaiting(c, "pick") /\ ~Bound(p)
    /\ port' = [port EXCEPT ![c] = p]
    /\ Await(c, "bind")
    /\ IF op[c] = "client" THEN OpenEngine(c) ELSE UNCHANGED engine
    /\ UNCHANGED <<worker, op, arg, entry, live, sid, nextId, timers, paused,
                   cards, files>>

PickFails(c) ==
    /\ Awaiting(c, "pick")
    /\ Answer(c, "error")
    /\ UNCHANGED <<worker, op, port, arg, entry, live, sid, nextId, timers,
                   paused, cards, engine, files>>

FilesReady(c) ==
    /\ Awaiting(c, "bind") /\ op[c] = "filemanager" /\ ~Bound(port[c])
    /\ files' = [files EXCEPT ![c] = "open"]
    /\ OpenEngine(c)
    /\ Await(c, "listen")
    /\ UNCHANGED <<worker, op, port, arg, entry, live, sid, nextId, timers,
                   paused, cards>>

\* The listen error of the file server rejects ready().
FilesRefused(c) ==
    /\ Awaiting(c, "bind") /\ op[c] = "filemanager" /\ Bound(port[c])
    /\ Answer(c, "error")
    /\ UNCHANGED <<worker, op, port, arg, entry, live, sid, nextId, timers,
                   paused, cards, engine, files>>

\* server.listen resolved; ready() goes on to publish the record.
EngineListens(c) ==
    /\ Awaiting(c, "listen")
    /\ engine' = [engine EXCEPT ![c] = "open"]
    /\ Await(c, "put")
    /\ UNCHANGED <<worker, op, port, arg, entry, live, sid, nextId, timers,
                   paused, cards, files>>

\* server.listen or mutablePut rejects; nobody closes what is already open.
EngineFails(c) ==
    /\ Awaiting(c, "listen") \/ Awaiting(c, "put")
    /\ Answer(c, "error")
    /\ UNCHANGED <<worker, op, port, arg, entry, live, sid, nextId, timers,
                   paused, cards, engine, files>>

\* The record is published: startServer and startFilemanager complete.
RecordPut(c) ==
    /\ Awaiting(c, "put")
    /\ Register(c)
    /\ Answer(c, "ok")
    /\ UNCHANGED <<worker, op, port, arg, entry, paused, engine, files>>

\* The proxy is bound: connectClient completes.
ClientListens(c) ==
    /\ Awaiting(c, "bind") /\ op[c] = "client" /\ ~Bound(port[c])
    /\ engine' = [engine EXCEPT ![c] = "open"]
    /\ Register(c)
    /\ Answer(c, "ok")
    /\ UNCHANGED <<worker, op, port, arg, entry, paused, files>>

-----------------------------------------------------------------------------
(* Stopping, pausing, resuming                                             *)

NoSession(c, o, i) ==
    /\ Awaiting(c, "idle") /\ \A e \in live : ~HasId(e, i)
    /\ op' = [op EXCEPT ![c] = o]
    /\ arg' = [arg EXCEPT ![c] = i]
    /\ Answer(c, "error")
    /\ UNCHANGED <<worker, port, entry, live, sid, nextId, timers, paused, cards,
                   engine, files>>

\* The call finds entry e and asks its engine to close.
StopSession(c, i, e) ==
    /\ Awaiting(c, "idle") /\ HasId(e, i)
    /\ op' = [op EXCEPT ![c] = "stop"]
    /\ arg' = [arg EXCEPT ![c] = i]
    /\ entry' = [entry EXCEPT ![c] = e]
    /\ timers' = timers \ {i}
    /\ Closing(e)
    /\ Await(c, "closing")
    /\ UNCHANGED <<worker, port, live, sid, nextId, paused, cards, files>>

\* sessions.delete(id) and the "stopped" event.
Forget(c) ==
    /\ live' = {e \in live : sid[e] # arg[c]}
    /\ cards' = cards \ {arg[c]}

\* Mutant of TunnelClosed: the file server is left alone.
TunnelClosedOnly(c) ==
    /\ Awaiting(c, "closing") /\ engine[entry[c]] = "closed"
    /\ Forget(c) /\ Answer(c, "ok")
    /\ UNCHANGED <<worker, op, port, arg, entry, sid, nextId, timers, paused,
                   engine, files>>

\* Mutant of TunnelClosed: a stop whose session an error removed is dropped.
TunnelClosedIfListed(c) ==
    /\ Awaiting(c, "closing") /\ engine[entry[c]] = "closed"
    /\ entry[c] \in live /\ files[entry[c]] = "none"
    /\ Forget(c) /\ Answer(c, "ok")
    /\ UNCHANGED <<worker, op, port, arg, entry, sid, nextId, timers, paused,
                   engine, files>>

\* hs.close() is over: a folder share closes its file server next, any other
\* session is forgotten.
TunnelClosed(c) ==
    /\ Awaiting(c, "closing") /\ engine[entry[c]] = "closed"
    /\ IF files[entry[c]] = "none"
       THEN Forget(c) /\ Answer(c, "ok") /\ UNCHANGED files
       ELSE /\ files' = [files EXCEPT ![entry[c]] = IF @ = "open" THEN "closing" ELSE @]
            /\ Await(c, "fsclosing")
            /\ UNCHANGED <<live, cards>>
    /\ UNCHANGED <<worker, op, port, arg, entry, sid, nextId, timers, paused, engine>>

FilesClosed(c) ==
    /\ Awaiting(c, "fsclosing") /\ files[entry[c]] = "closed"
    /\ Forget(c)
    /\ Answer(c, "ok")
    /\ UNCHANGED <<worker, op, port, arg, entry, sid, nextId, timers, paused,
                   engine, files>>

PauseOrResume(c, o, i, e) ==
    /\ Awaiting(c, "idle") /\ HasId(e, i)
    /\ op' = [op EXCEPT ![c] = o]
    /\ arg' = [arg EXCEPT ![c] = i]
    /\ entry' = [entry EXCEPT ![c] = e]
    /\ Await(c, "suspending")
    /\ UNCHANGED <<worker, port, live, sid, nextId, timers, paused, cards, engine,
                   files>>

\* The node is suspended or resumed: the captured entry is updated and its id
\* announced, whether or not it is still in the Map.
Suspended(c) ==
    /\ Awaiting(c, "suspending")
    /\ paused' = IF op[c] = "pause" THEN paused \cup {entry[c]} ELSE paused \ {entry[c]}
    /\ cards' = cards \cup {arg[c]}
    /\ Answer(c, "ok")
    /\ UNCHANGED <<worker, op, port, arg, entry, live, sid, nextId, timers, engine,
                   files>>

SuspendFails(c) ==
    /\ Awaiting(c, "suspending")
    /\ Answer(c, "error")
    /\ UNCHANGED <<worker, op, port, arg, entry, live, sid, nextId, timers,
                   paused, cards, engine, files>>

-----------------------------------------------------------------------------
(* Asynchronous errors                                                     *)

\* Mutant of Contain: the card is not cleared.
ContainSilently(e) ==
    /\ live' = {d \in live : sid[d] # sid[e]}
    /\ timers' = timers \ {sid[e]}
    /\ Closing(e)
    /\ UNCHANGED <<op, reply, arg, entry, sid, nextId, paused, files, port, cards>>

\* Mutant of Contain: the instance is not closed.
ContainOpen(e) ==
    /\ live' = {d \in live : sid[d] # sid[e]}
    /\ timers' = timers \ {sid[e]}
    /\ cards' = cards \ {sid[e]}
    /\ UNCHANGED <<op, reply, arg, entry, sid, nextId, paused, files, port, engine>>

\* onAsyncError drops the session it blames and closes its engine.
Contain(e) ==
    /\ live' = {d \in live : sid[d] # sid[e]}
    /\ timers' = timers \ {sid[e]}
    /\ cards' = cards \ {sid[e]}
    /\ Closing(e)
    /\ UNCHANGED <<op, reply, arg, entry, sid, nextId, paused, files, port>>

\* A dial that failed for good, or a backlog over the limiter's ceiling: the
\* wrappers of stats.js raise it with err.sessionId.
SessionFails(e) ==
    /\ worker # "dead" /\ e \in live
    /\ Contain(e)
    /\ UNCHANGED <<worker, pc>>

\* sessionForError for an error that names port p and no session.
Matches(e, p) == port[e] = p \/ <<port[e], p>> \in PortPrefix
Blamed(p) ==
    {e \in live : Matches(e, p) /\ \A d \in live : Matches(d, p) => sid[e] <= sid[d]}

\* The local bind of a client fails.  The listen error has no handler, so it
\* reaches onAsyncError with the port, and ready() never settles.
BindFails(c) ==
    /\ Awaiting(c, "bind") /\ op[c] = "client" /\ Bound(port[c])
    /\ pc' = [pc EXCEPT ![c] = "stuck"]
    /\ IF Blamed(port[c]) # {}
       THEN \E e \in Blamed(port[c]) : Contain(e) /\ UNCHANGED worker
       ELSE /\ worker' = "exiting"
            /\ UNCHANGED <<op, reply, arg, entry, live, sid, nextId, timers,
                           paused, cards, engine, files, port>>

Exit ==
    /\ worker = "exiting"
    /\ worker' = "dead"
    /\ UNCHANGED <<op, pc, reply, port, arg, entry, live, sid, nextId, timers,
                   paused, cards, engine, files>>

-----------------------------------------------------------------------------
(* Timers and the outside                                                  *)

\* Mutant of StatsTick: the timer is not armed again.
StatsTickOnce(i) ==
    /\ worker # "dead" /\ i \in timers
    /\ cards' = IF \E e \in live : sid[e] = i THEN cards \cup {i} ELSE cards
    /\ timers' = timers \ {i}
    /\ UNCHANGED <<worker, op, pc, reply, port, arg, entry, live, sid, nextId,
                   paused, engine, files>>

\* The throttled statistics event of armStatsEmit, which re-arms itself.
StatsTick(i) ==
    /\ worker # "dead" /\ i \in timers
    /\ IF \E e \in live : sid[e] = i
       THEN cards' = cards \cup {i} /\ UNCHANGED timers
       ELSE timers' = timers \ {i} /\ UNCHANGED cards
    /\ UNCHANGED <<worker, op, pc, reply, port, arg, entry, live, sid, nextId,
                   paused, engine, files>>

\* node.destroy() is over.
EngineClosed(e) ==
    /\ worker # "dead" /\ engine[e] = "closing"
    /\ engine' = [engine EXCEPT ![e] = "closed"]
    /\ UNCHANGED <<worker, op, pc, reply, port, arg, entry, live, sid, nextId,
                   timers, paused, cards, files>>

\* The last visitor of a closing file server has left.
VisitorsLeave(e) ==
    /\ worker # "dead" /\ files[e] = "closing"
    /\ files' = [files EXCEPT ![e] = "closed"]
    /\ UNCHANGED <<worker, op, pc, reply, port, arg, entry, live, sid, nextId,
                   timers, paused, cards, engine>>

-----------------------------------------------------------------------------
\* The ids a caller can know.
Ids == 1 .. nextId - 1

Receive(c) ==
    \/ \E o \in StartOps : Refused(c, o)
    \/ \E p \in Ports : StartServer(c, p)
    \/ \E o \in {"client", "filemanager"}, p \in Ports \cup {NoPort} :
          StartOnPort(c, o, p)
    \/ \E o \in PauseOps \cup {"stop"}, i \in Ids : NoSession(c, o, i)
    \/ \E i \in Ids, e \in live : StopSession(c, i, e)
    \/ \E o \in PauseOps, i \in Ids, e \in live : PauseOrResume(c, o, i, e)

Continue(c) ==
    \/ \E p \in Ports : PortPicked(c, p)
    \/ PickFails(c)
    \/ FilesReady(c) \/ FilesRefused(c)
    \/ EngineListens(c) \/ EngineFails(c)
    \/ RecordPut(c) \/ ClientListens(c) \/ BindFails(c)
    \/ TunnelClosed(c) \/ FilesClosed(c)
    \/ Suspended(c) \/ SuspendFails(c)

Next ==
    \/ \E c \in Calls : Receive(c) \/ Continue(c)
    \/ \E c \in Calls : SessionFails(c) \/ EngineClosed(c) \/ VisitorsLeave(c)
    \/ \E i \in timers : StatsTick(i)
    \/ Exit

Spec == Init /\ [][Next]_vars

\* The promises a call awaits settle: the DHT answers or rejects, and
\* node.destroy() ends (hs.js swallows its errors).  Nothing makes a visitor
\* of a file server leave, or a request arrive.
Fairness ==
    /\ \A c \in Calls : WF_vars(Continue(c)) /\ WF_vars(EngineClosed(c))
    /\ WF_vars(Exit)

FairSpec == Spec /\ Fairness

-----------------------------------------------------------------------------
(* Properties                                                              *)

\* The type invariant.
TypeOK ==
    /\ worker \in {"up", "exiting", "dead"}
    /\ op     \in [Calls -> Ops \cup {"none"}]
    /\ pc     \in [Calls -> {"idle", "pick", "bind", "listen", "put", "stuck",
                             "closing", "fsclosing", "suspending", "done"}]
    /\ reply  \in [Calls -> {"none", "ok", "error"}]
    /\ port   \in [Calls -> Ports \cup {NoPort}]
    /\ arg    \in [Calls -> Nat]
    /\ entry  \in [Calls -> Calls \cup {NoCall}]
    /\ live   \in SUBSET Calls
    /\ sid    \in [Calls -> Nat]
    /\ nextId \in Nat \ {0}
    /\ timers \in SUBSET Nat
    /\ paused \in SUBSET Calls
    /\ cards  \in SUBSET Nat
    /\ engine \in [Calls -> {"none", "node", "open", "closing", "closed"}]
    /\ files  \in [Calls -> {"none", "open", "closing", "closed"}]

\* A stopSession that has found its entry and not answered yet.
StopInFlight(e) ==
    \E c \in Calls : pc[c] \in {"closing", "fsclosing"} /\ entry[c] = e

\* Two starts never get the same id, though each takes its id only after its
\* engine came up: a stop or pause can only reach the tunnel its caller saw.
IdsNameOneTunnel ==
    \A c, d \in Calls : sid[c] # 0 /\ sid[c] = sid[d] => c = d

\* Every session in the Map has a card, and a card without a session exists
\* only where a pause or resume of it has answered: no other path of
\* tunnels.js, stats.js or errors.js announces a session that is gone or
\* forgets to announce that it went.
CardsFollowSessions ==
    /\ \A e \in live : sid[e] \in cards
    /\ \A i \in cards :
          \/ \E e \in live : sid[e] = i
          \/ \E c \in Calls : op[c] \in PauseOps /\ arg[c] = i /\ reply[c] = "ok"

\* The statistics of a session keep flowing until its stop is asked for or an
\* error removes it, and no timer outlives its session.
StatsFollowSessions ==
    timers = {sid[e] : e \in {d \in live : ~StopInFlight(d)}}

\* A tunnel that ever got an id carries traffic exactly while it is listed and
\* nobody has asked to stop it: no interleaving of stops, pauses and contained
\* errors lists a dead tunnel or leaves an unlisted one open.
TunnelMatchesSession ==
    \A e \in Calls : sid[e] # 0 =>
        (engine[e] = "open" <=> e \in live /\ ~StopInFlight(e))

\* When a stop answers, the session is unlisted and everything it owned is
\* closed, also when a second stop or an error got there in between.
StopReleasesAll ==
    \A c \in Calls : op[c] = "stop" /\ reply[c] = "ok" =>
        /\ \A e \in live : sid[e] # arg[c]
        /\ engine[entry[c]] = "closed"
        /\ files[entry[c]] \in {"none", "closed"}

\* Every request is answered, but for a client whose bind failed and a stop
\* that waits for visitors of a file server who never leave.
CallsSettle ==
    \A c \in Calls : op[c] # "none" ~>
        \/ reply[c] # "none" \/ worker = "dead" \/ pc[c] = "stuck"
        \/ [](pc[c] = "fsclosing" /\ files[entry[c]] = "closing")

-----------------------------------------------------------------------------
(* The abstract life of a tunnel                                           *)

Phase(t) ==
    IF op[t] \notin StartOps THEN "new"
    ELSE IF sid[t] = 0 THEN IF reply[t] = "error" THEN "failed" ELSE "starting"
    ELSE IF t \notin live THEN "gone"
    ELSE IF StopInFlight(t) THEN "stopping" ELSE "running"

\* The tunnels whose stop was answered.
Confirmed ==
    {e \in Calls : \E c \in Calls : op[c] = "stop" /\ reply[c] = "ok" /\ entry[c] = e}

Lifecycle == INSTANCE TunnelLifecycle WITH
    Tunnels   <- Calls,
    phase     <- [t \in Calls |-> Phase(t)],
    confirmed <- Confirmed

\* The session table implements TunnelLifecycle: every handler of tunnels.js
\* and errors.js moves at most one tunnel, and only forward.
LifecycleSpec == Lifecycle!Spec

-----------------------------------------------------------------------------
(* What a comment of the code claims and the code does not do              *)

\* errors.js: "blaming the wrong tunnel would kill a healthy one".  A client
\* that cannot bind has no session yet, so no session is to blame.
BindFailureIsContained ==
    [][\A c \in Calls : pc[c] = "bind" /\ pc'[c] = "stuck" => live' = live]_vars
=============================================================================
