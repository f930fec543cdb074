------------------------------ MODULE Renderer ------------------------------
(***************************************************************************)
(* What the renderer knows of the worker: the cards of its sessions, the   *)
(* parameters to reconnect them, and the asynchronous functions that bring *)
(* the total speed limit and the saved tunnels back when a worker starts   *)
(* (worker.js, sessions.js, saved.js, limit.js, reconnect.js, app.js).     *)
(*                                                                         *)
(* Each such function is a chain of calls; a step of a chain runs up to    *)
(* its next call.  The events of a worker and its answers leave Rust in    *)
(* the order in which the worker wrote them, but an answer resumes its     *)
(* chain later, maybe after events that follow it.  Only the exit of a     *)
(* worker can overtake lines the worker wrote.  A call that Rust refuses,  *)
(* because no worker is ready, fails at once, and with it the calls of the *)
(* chain that follow.  Every worker numbers its sessions from one.         *)
(*                                                                         *)
(* A worker takes longer to start than the renderer to get through with    *)
(* what it was sent before (Settled); one that crashed is started again a  *)
(* second later at the earliest (worker.rs).  A manual restart waits for   *)
(* nothing.                                                                *)
(***************************************************************************)
EXTENDS Naturals, Sequences, FiniteSets, SequencesExt

CONSTANTS
    Saved,      \* the saved tunnels that start with the application, in order
    Recognised, \* those whose session savedSession can tell
    MaxLives,   \* how many workers there are (a bound)
    MaxFaults   \* how many calls fail, sessions die or are stopped, and
                \* buttons are pressed (a bound)

ASSUME RendererAssumption ==
    /\ Saved \in Seq(Range(Saved)) /\ IsInjective(Saved)
    /\ Recognised \subseteq Range(Saved)
    /\ MaxLives \in Nat \ {0} /\ MaxFaults \in Nat

Tunnels == Range(Saved)
Lives   == 1 .. MaxLives

\* The boot, the button that restarts the worker, the other buttons, and the
\* ready handshake of each worker.
Boot   == <<"boot", 1>>
Button == <<"restart", 1>>
User   == <<"user", 1>>
Chains == {Boot, Button, User} \cup ({"ready"} \X Lives)

VARIABLES
    life,        \* the worker: its number,
    up,          \* whether it is starting, up or down,
    sessions,    \* its sessions, by id,
    nextId,      \* the next id,
    capped,      \* whether it has the total speed limit,
    late,        \* the tunnels it is starting for calls that timed out
    events,      \* what Rust has sent to the renderer
    restartHidden, \* the button that restarts the worker is hidden
    loaded,      \* state.saved has been read
    cards,       \* state.sessions: the tunnel of each id
    blank,       \* and the ids of those it knows no tunnel of
    replay,      \* state.replay
    errored,     \* flags.errored
    offers,      \* the Reconnect buttons in the log
    loop,        \* flags.autostartRunning: the worker it began with, or 0
    chain,       \* where each chain is
    faults,      \* how many faults there were
    odd          \* history: what the properties except

worker == <<life, up, sessions, nextId, capped, late>>
status == <<restartHidden, loaded>>
screen == <<cards, blank, replay, errored, offers>>
vars   == <<worker, events, status, screen, loop, chain, faults, odd>>

\* stale: the cards of sessions that were gone when they were drawn, or whose
\* worker was; used: the sessions whose Reconnect was answered; skipped: the
\* tunnels not started because of such a card; touched: those somebody started
\* or stopped, or whose start or session failed; orphans: the parameters of
\* sessions that ended or failed before their start was remembered, or of an
\* earlier worker; heldOff: an autostart gave way to one that began with an
\* earlier worker; gaveUp: a chain gave up although the worker was up;
\* uncapped: the limit could not be set in this worker, or a button or a chain
\* that began with an earlier worker started a tunnel in it.
Nothing == [stale |-> {}, used |-> {}, skipped |-> {}, touched |-> {}, orphans |-> {},
            heldOff |-> FALSE, gaveUp |-> FALSE, uncapped |-> FALSE]

-----------------------------------------------------------------------------
\* A chain: its next call (pc, of the i-th tunnel or of session i), whether
\* that was answered (st), after how many of the present events (after), by
\* which worker (life); the worker the chain began with; the answer.
Idle == [pc |-> "idle", i |-> 0, st |-> "none", after |-> 0, life |-> 0, born |-> 0,
         got |-> <<>>]

\* The ready event of the first worker may come before anyone listens.
Init ==
    /\ life = 1 /\ up \in {"starting", "up"}
    /\ sessions = <<>> /\ nextId = 1 /\ capped = FALSE /\ late = {}
    /\ events = <<>>
    /\ restartHidden = TRUE /\ loaded = FALSE
    /\ cards = <<>> /\ blank = {} /\ replay = <<>> /\ errored = {} /\ offers = {}
    /\ loop = 0
    /\ chain = [[c \in Chains |-> Idle] EXCEPT ![Boot].pc = "wait", ![Boot].born = 1]
    /\ faults = 0
    /\ odd = Nothing

Put(f, i, x) == [j \in DOMAIN f \cup {i} |-> IF j = i THEN x ELSE f[j]]
Drop(f, i)   == [j \in DOMAIN f \ {i} |-> f[j]]

Event(name, id, t) == <<[ev |-> name, id |-> id, t |-> t, life |-> life]>>

-----------------------------------------------------------------------------
(* The worker                                                              *)

Fault == faults < MaxFaults /\ faults' = faults + 1

\* A call that waits for the present worker.
Asks(c) == chain[c].st = "sent" /\ chain[c].life = life /\ up = "up"

Starts(c) == chain[c].pc \in {"start", "reconnect"}

Target(r) == IF r.pc = "reconnect" THEN r.got[r.i] ELSE Saved[r.i]

\* The answer of c, after the events es.
Answer(c, st, got, es) ==
    /\ events' = events \o es
    /\ chain' = [chain EXCEPT ![c] = [@ EXCEPT !.st = st, !.after = Len(events'), !.got = got]]

\* ping, sessions:list and limit:global
Answers(c) ==
    /\ Asks(c) /\ ~Starts(c)
    /\ Answer(c, "ok", IF chain[c].pc = "list" THEN sessions ELSE <<>>, <<>>)
    /\ capped' = (capped \/ chain[c].pc = "limit")
    /\ UNCHANGED <<life, up, sessions, nextId, late, status, screen, loop, faults, odd>>

NewSession(t) == sessions' = Put(sessions, nextId, t) /\ nextId' = nextId + 1

StartsTunnel(c) ==
    LET t == Target(chain[c]) IN
    /\ Asks(c) /\ Starts(c)
    /\ NewSession(t)
    /\ Answer(c, "ok", [i \in {nextId} |-> t], Event("update", nextId, t))
    /\ odd' = [odd EXCEPT !.uncapped = @ \/ c = User \/ chain[c].born # life]
    /\ UNCHANGED <<life, up, capped, late, status, screen, loop, faults>>

StartFails(c) ==
    /\ Asks(c) /\ Starts(c) /\ Fault
    /\ Answer(c, "failed", <<>>, <<>>)
    /\ odd' = [odd EXCEPT !.touched = @ \cup {Target(chain[c])}]
    /\ UNCHANGED <<worker, status, screen, loop>>

\* Thirty seconds, or ninety for a start.  The worker goes on with it.
TimeOut(c) ==
    /\ chain[c].st = "sent"
    /\ chain' = [chain EXCEPT ![c].st = "failed", ![c].got = <<>>]
    /\ IF ~Asks(c)
       THEN UNCHANGED <<late, faults, odd>>
       ELSE /\ Fault
            /\ late' = IF Starts(c) THEN late \cup {Target(chain[c])} ELSE late
            /\ odd' = [odd EXCEPT
                  !.touched = IF Starts(c) THEN @ \cup {Target(chain[c])} ELSE @,
                  !.gaveUp = @ \/ chain[c].pc \in {"ping", "list"},
                  !.uncapped = @ \/ chain[c].pc = "limit"]
    /\ UNCHANGED <<life, up, sessions, nextId, capped, events, status, screen, loop>>

LateFails(t) ==
    /\ t \in late /\ up = "up"
    /\ late' = late \ {t}
    /\ UNCHANGED <<life, up, sessions, nextId, capped, events, status, screen, loop,
                   chain, faults, odd>>

StartsLate(t) ==
    /\ t \in late /\ up = "up"
    /\ NewSession(t)
    /\ late' = late \ {t}
    /\ events' = events \o Event("update", nextId, t)
    /\ odd' = [odd EXCEPT !.uncapped = TRUE]
    /\ UNCHANGED <<life, up, capped, status, screen, loop, chain, faults>>

Ends(id, es) ==
    /\ id \in DOMAIN sessions /\ Fault
    /\ sessions' = Drop(sessions, id)
    /\ events' = events \o es
    /\ odd' = [odd EXCEPT !.touched = @ \cup {sessions[id]}]
    /\ UNCHANGED <<life, up, nextId, capped, late, status, screen, loop, chain>>

\* An error is announced, and contained.
SessionFails(id) ==
    Ends(id, Event("error", id, sessions[id]) \o Event("stopped", id, sessions[id]))

\* The button of a card or of a saved tunnel, or "stop all" of the tray.
Stop(id) == id \in DOMAIN cards \cup blank /\ Ends(id, Event("stopped", id, sessions[id]))

\* A pause or a resume is announced when it ends, which may be after the stop
\* or the error of its session (tunnels.js).  One at a time (a bound).
Suspends(id) ==
    /\ up = "up" /\ \A k \in 1 .. Len(events) : events[k].ev # "state"
    /\ events' = events \o Event("state", id, 0)
    /\ UNCHANGED <<worker, status, screen, loop, chain, faults, odd>>

Settled == events = <<>> /\ \A c \in Chains : chain[c].st \notin {"ok", "failed"}

Ready ==
    /\ up = "starting" /\ Settled
    /\ up' = "up"
    /\ events' = events \o Event("ready", 0, 0)
    /\ UNCHANGED <<life, sessions, nextId, capped, late, status, screen, loop, chain, faults, odd>>

\* A call whose answer was not read yet when d of the present events were.
Unread(r, d) == r.st = "sent" \/ (r.st \in {"ok", "failed"} /\ r.after > d)

\* The watcher fails these calls, those to an earlier worker too, and announces
\* the exit.  The thread that reads the lines of the worker goes on to their end.
Crash == \E k \in 0 .. Len(events), d \in 0 .. Len(events) :
    /\ up # "down" /\ life < MaxLives /\ d <= k
    /\ up' = "down"
    /\ sessions' = <<>> /\ late' = {}
    /\ chain' = [c \in Chains |->
                   IF Unread(chain[c], d)
                   THEN [chain[c] EXCEPT !.st = "failed", !.after = 0, !.got = <<>>]
                   ELSE chain[c]]
    /\ events' = SubSeq(events, 1, k) \o Event("exit", 0, 0) \o SubSeq(events, k + 1, Len(events))
    /\ UNCHANGED <<life, nextId, capped, status, screen, loop, faults, odd>>

Spawned(stale, orphans) ==
    /\ life < MaxLives
    /\ life' = life + 1 /\ up' = "starting"
    /\ sessions' = <<>> /\ nextId' = 1 /\ capped' = FALSE /\ late' = {}
    /\ odd' = [Nothing EXCEPT !.stale = stale, !.orphans = orphans]
    /\ UNCHANGED <<events, status, screen, loop, faults>>

Respawn ==
    /\ up = "down" /\ Settled
    /\ Spawned(odd.stale, DOMAIN replay)
    /\ UNCHANGED chain

-----------------------------------------------------------------------------
(* Chains                                                                  *)

\* Mutant of Ask: a refused call leaves its chain waiting.
AskUnanswered(r, pc, i) ==
    [r EXCEPT !.pc = pc, !.i = i, !.got = <<>>, !.life = life, !.after = 0,
              !.st = IF up = "up" THEN "sent" ELSE "none"]

\* The next call of a chain, or its end.
Ask(r, pc, i) ==
    IF up = "up"
    THEN [r EXCEPT !.pc = pc, !.i = i, !.got = <<>>, !.st = "sent", !.after = 0, !.life = life]
    ELSE Idle

Goto(c, r) == chain' = [chain EXCEPT ![c] = r]

\* savedSession
Shown(t) == t \in Recognised /\ \E id \in DOMAIN cards : cards[id] = t

Alive(t) == \E id \in DOMAIN sessions : sessions[id] = t

\* The loop of autostartSaved, from the i-th tunnel on.
StartFrom(c, i, o) ==
    LET rest == {j \in i .. Len(Saved) : ~Shown(Saved[j])}
        next == IF rest = {} THEN Len(Saved) + 1 ELSE CHOOSE j \in rest : \A k \in rest : j <= k
    IN /\ Goto(c, IF rest = {} THEN Idle ELSE Ask(chain[c], "start", next))
       /\ loop' = IF rest = {} \/ up # "up" THEN 0 ELSE IF loop = 0 THEN life ELSE loop
       /\ odd' = [o EXCEPT !.skipped =
                     @ \cup {t \in {Saved[j] : j \in i .. next - 1} : ~Alive(t)}]

\* Mutant of autostartSaved: no guard.
AutostartAnyway(c, isLoaded) ==
    IF isLoaded THEN StartFrom(c, 1, odd) ELSE Goto(c, Idle) /\ UNCHANGED <<loop, odd>>

autostartSaved(c, isLoaded) ==
    CASE loop # 0 -> /\ Goto(c, Idle)
                     /\ odd' = [odd EXCEPT !.heldOff = @ \/ loop # life]
                     /\ UNCHANGED loop
      [] loop = 0 /\ isLoaded  -> StartFrom(c, 1, odd)
      [] loop = 0 /\ ~isLoaded -> Goto(c, Idle) /\ UNCHANGED <<loop, odd>>

\* The answer of a call has come through.
Arrived(c, pc, sts) == chain[c].pc = pc /\ chain[c].st \in sts /\ chain[c].after = 0

\* The boot waits for flags.workerReady, ten seconds at most, the restart for
\* five; after a restart the flag may still be that of the worker before, so
\* the wait may end at any time.  Then they call; a refusal is the end.
WaitEnds(c) ==
    /\ chain[c].pc = "wait"
    /\ Goto(c, Ask(chain[c], "ping", 0))
    /\ restartHidden' = (restartHidden /\ up = "up")
    /\ UNCHANGED <<worker, events, loaded, screen, loop, faults, odd>>

\* A chain whose worker does not answer its ping or its list.
GivesUp(c) ==
    /\ \E pc \in {"ping", "list"} : Arrived(c, pc, {"failed"})
    /\ restartHidden' = FALSE
    /\ Goto(c, Idle)
    /\ UNCHANGED <<worker, events, loaded, screen, loop, faults, odd>>

\* syncWorker
Pinged(c) ==
    /\ Arrived(c, "ping", {"ok"})
    /\ restartHidden' = (up = "up")
    /\ Goto(c, Ask(chain[c], "list", 0))
    /\ UNCHANGED <<worker, events, loaded, screen, loop, faults, odd>>

\* The sessions of an answer that are gone, their end told already or never.
Gone(c) ==
    LET told(id) == \A k \in 1 .. Len(events) : events[k].ev = "stopped" => events[k].id # id
    IN {id \in DOMAIN chain[c].got :
           chain[c].life # life \/ (id \notin DOMAIN sessions /\ told(id))}

\* Mutant of Listed: the tunnels start before the limit is back.
ListedStarts(c) ==
    LET list == chain[c].got IN
    /\ Arrived(c, "list", {"ok"})
    /\ cards' = [id \in DOMAIN cards \cup DOMAIN list |->
                   IF id \in DOMAIN list THEN list[id] ELSE cards[id]]
    /\ loaded' = (loaded \/ c = Boot)
    /\ StartFrom(c, 1, odd)
    /\ UNCHANGED <<worker, events, restartHidden, blank, replay, errored, offers, faults>>

\* The boot reads the saved tunnels before it starts them; nobody else does.
\* That and the rest of a chain whose worker is gone happen at once.
Listed(c) ==
    LET list == chain[c].got IN
    /\ Arrived(c, "list", {"ok"})
    /\ cards' = [id \in DOMAIN cards \cup DOMAIN list |->
                   IF id \in DOMAIN list THEN list[id] ELSE cards[id]]
    /\ odd' = [odd EXCEPT !.stale = (@ \ DOMAIN list) \cup Gone(c)]
    /\ blank' = blank \ DOMAIN list
    /\ loaded' = (loaded \/ (c = Boot /\ up # "up"))
    /\ Goto(c, Ask(chain[c], "limit", 0))
    /\ UNCHANGED <<worker, events, restartHidden, replay, errored, offers, loop, faults>>

\* Mutant of Limited: only the boot starts the saved tunnels.
LimitedAtBoot(c) ==
    /\ Arrived(c, "limit", {"ok", "failed"})
    /\ loaded' = (loaded \/ c = Boot)
    /\ IF c = Boot THEN autostartSaved(c, loaded') ELSE Goto(c, Idle) /\ UNCHANGED <<loop, odd>>
    /\ UNCHANGED <<worker, events, restartHidden, screen, faults>>

\* restoreGlobalLimit swallows its errors.
Limited(c) ==
    /\ Arrived(c, "limit", {"ok", "failed"})
    /\ loaded' = (loaded \/ c = Boot)
    /\ autostartSaved(c, loaded')
    /\ UNCHANGED <<worker, events, restartHidden, screen, faults>>

\* rememberSession.  A start that failed is only reported.
Started(c) ==
    LET new == DOMAIN chain[c].got
        o   == [odd EXCEPT !.orphans = (@ \ new) \cup Gone(c) \cup (new \cap errored)]
    IN /\ Arrived(c, "start", {"ok", "failed"})
       /\ replay' = [id \in DOMAIN replay \cup new |->
                       IF id \in new THEN chain[c].got[id] ELSE replay[id]]
       /\ IF c = User
          THEN Goto(c, Idle) /\ odd' = o /\ UNCHANGED loop
          ELSE StartFrom(c, chain[c].i + 1, o)
       /\ UNCHANGED <<worker, events, status, cards, blank, errored, offers, faults>>

\* reconnectSession forgets the session, and does not remember the new one.
\* The buttons stay; they do nothing until there is a session of that id again.
Reconnected(c) ==
    /\ Arrived(c, "reconnect", {"ok", "failed"})
    /\ IF chain[c].st = "ok"
       THEN /\ replay' = Drop(replay, chain[c].i)
            /\ odd' = [odd EXCEPT !.used = @ \cup {chain[c].i}]
       ELSE UNCHANGED <<replay, odd>>
    /\ Goto(c, Idle)
    /\ UNCHANGED <<worker, events, status, cards, blank, errored, offers, loop, faults>>

Step(c) ==
    \/ WaitEnds(c) \/ GivesUp(c) \/ Pinged(c) \/ Listed(c) \/ Limited(c)
    \/ Started(c) \/ Reconnected(c)

-----------------------------------------------------------------------------
(* Buttons                                                                 *)

StartSaved(i) ==
    /\ chain[User] = Idle /\ loaded /\ ~Shown(Saved[i]) /\ up = "up" /\ Fault
    /\ Goto(User, Ask([Idle EXCEPT !.born = life], "start", i))
    /\ odd' = [odd EXCEPT !.touched = @ \cup {Saved[i]}]
    /\ UNCHANGED <<worker, events, status, screen, loop>>

Reconnect(o) ==
    /\ chain[User] = Idle /\ o.id \in DOMAIN replay /\ up = "up"
    /\ Goto(User, [Ask([Idle EXCEPT !.born = life], "reconnect", o.id) EXCEPT
                     !.got = [id \in {o.id} |-> replay[id]]])
    /\ odd' = [odd EXCEPT !.touched = @ \cup {replay[o.id]}]
    /\ UNCHANGED <<worker, events, status, screen, loop, faults>>

\* A restart does not end in a worker:exit.
Restart ==
    /\ ~restartHidden /\ chain[Button] = Idle
    /\ Spawned(DOMAIN cards \cup blank, DOMAIN replay)
    /\ Goto(Button, [Idle EXCEPT !.pc = "wait", !.born = life'])

-----------------------------------------------------------------------------
(* Events                                                                  *)

Delivers(name) == events # <<>> /\ Head(events).ev = name /\ events' = Tail(events)

e == Head(events)

Passed == [c \in Chains |-> [chain[c] EXCEPT !.after = IF @ = 0 THEN 0 ELSE @ - 1]]

OnReady ==
    /\ Delivers("ready")
    /\ restartHidden' = (restartHidden /\ up = "up")
    /\ chain' = [Passed EXCEPT ![<<"ready", e.life>>] =
                    Ask([Idle EXCEPT !.born = life], "ping", 0)]
    /\ UNCHANGED <<worker, loaded, screen, loop, faults, odd>>

\* Mutant of OnExit: the sessions of the worker are not forgotten.
OnExitKept ==
    /\ Delivers("exit") /\ chain' = Passed
    /\ restartHidden' = FALSE
    /\ UNCHANGED <<worker, loaded, screen, loop, faults, odd>>

OnExit ==
    /\ Delivers("exit") /\ chain' = Passed
    /\ restartHidden' = FALSE
    /\ cards' = <<>> /\ blank' = {} /\ replay' = <<>> /\ errored' = {}
    /\ odd' = [odd EXCEPT !.stale = {}, !.orphans = {}]
    /\ UNCHANGED <<worker, loaded, offers, loop, faults>>

\* Rust has announced the exit of this worker already.
ExitTold == up = "down" /\ \A k \in 1 .. Len(events') : events'[k].ev # "exit"

\* upsertSession, in its four forms.
OnUpdate ==
    /\ Delivers("update") /\ chain' = Passed
    /\ cards' = Put(cards, e.id, e.t)
    /\ blank' = blank \ {e.id}
    /\ odd' = [odd EXCEPT !.stale = IF e.life = life /\ ~ExitTold THEN @ \ {e.id}
                                    ELSE @ \cup {e.id}]
    /\ UNCHANGED <<worker, status, replay, errored, offers, loop, faults>>

\* An event that names no tunnel draws a card all the same.
Draws(id) == blank' = IF id \in DOMAIN cards THEN blank ELSE blank \cup {id}

OnState ==
    /\ Delivers("state") /\ chain' = Passed
    /\ Draws(e.id)
    /\ odd' = [odd EXCEPT !.stale = IF e.id \in DOMAIN cards \cup blank THEN @
                                    ELSE @ \cup {e.id}]
    /\ UNCHANGED <<worker, status, cards, replay, errored, offers, loop, faults>>

Offer == IF e.id \in DOMAIN replay THEN {[id |-> e.id, t |-> e.t, life |-> e.life]} ELSE {}

\* Mutant of OnError: an offer is made without the mark.
OnErrorUnmarked ==
    /\ Delivers("error") /\ chain' = Passed
    /\ offers' = offers \cup Offer
    /\ Draws(e.id)
    /\ UNCHANGED <<worker, status, cards, replay, errored, loop, faults, odd>>

OnError ==
    /\ Delivers("error") /\ chain' = Passed
    /\ errored' = errored \cup {e.id}
    /\ offers' = offers \cup Offer
    /\ Draws(e.id)
    /\ UNCHANGED <<worker, status, cards, replay, loop, faults, odd>>

\* Mutant of OnStopped: the parameters stay.
OnStoppedKept ==
    /\ Delivers("stopped") /\ chain' = Passed
    /\ cards' = Drop(cards, e.id) /\ blank' = blank \ {e.id}
    /\ errored' = errored \ {e.id}
    /\ odd' = [odd EXCEPT !.stale = @ \ {e.id}]
    /\ UNCHANGED <<worker, status, replay, offers, loop, faults>>

\* dropSession
OnStopped ==
    /\ Delivers("stopped") /\ chain' = Passed
    /\ cards' = Drop(cards, e.id) /\ blank' = blank \ {e.id}
    /\ replay' = IF e.id \in errored THEN replay ELSE Drop(replay, e.id)
    /\ errored' = errored \ {e.id}
    /\ odd' = [odd EXCEPT !.stale = @ \ {e.id}]
    /\ UNCHANGED <<worker, status, offers, loop, faults>>

Next ==
    \/ \E c \in Chains : Answers(c) \/ StartsTunnel(c) \/ StartFails(c) \/ TimeOut(c) \/ Step(c)
    \/ \E t \in Tunnels : StartsLate(t) \/ LateFails(t)
    \/ \E id \in DOMAIN sessions : SessionFails(id) \/ Stop(id)
    \/ \E id \in 1 .. nextId - 1 : Suspends(id)
    \/ Ready \/ Crash \/ Respawn
    \/ \E i \in 1 .. Len(Saved) : StartSaved(i)
    \/ \E o \in offers : Reconnect(o)
    \/ Restart
    \/ OnReady \/ OnExit \/ OnUpdate \/ OnState \/ OnError \/ OnStopped

Spec == Init /\ [][Next]_vars

-----------------------------------------------------------------------------
(* Properties                                                              *)

Quiet ==
    /\ up = "up" /\ events = <<>> /\ late = {}
    /\ \A c \in Chains : chain[c].pc = "idle"

TypeOK ==
    /\ life \in Lives /\ up \in {"starting", "up", "down"}
    /\ Range(sessions) \cup Range(cards) \cup Range(replay) \cup late \subseteq Tunnels
    /\ DOMAIN sessions \subseteq 1 .. nextId - 1
    /\ blank \subseteq Nat \ DOMAIN cards
    /\ {capped, restartHidden, loaded} \subseteq BOOLEAN
    /\ \A c \in Chains :
          /\ chain[c].pc \in {"idle", "wait", "ping", "list", "limit", "start", "reconnect"}
          /\ chain[c].st \in {"none", "sent", "ok", "failed"} /\ chain[c].after \in Nat
          /\ chain[c].st = "none" <=> chain[c].pc \in {"idle", "wait"}
          /\ {chain[c].life, chain[c].born} \subseteq 0 .. life
    /\ loop \in 0 .. life /\ faults \in 0 .. MaxFaults

\* saved.js: "concurrent callers (boot + worker:spawned) never double-start a
\* tunnel", in any order of the chains and over restarts of every kind, if
\* savedSession can tell its session, and nobody pressed a button and no start
\* timed out.
NoSecondCopy == \A t \in Recognised \ odd.touched :
    Cardinality({id \in DOMAIN sessions : sessions[id] = t}) <= 1

\* app.js: "the all-tunnels cap must be back in the worker BEFORE any tunnel
\* starts".  It is unless it cannot be set, or a button or a chain that began
\* with an earlier worker starts one.
CapFirst == DOMAIN sessions # {} => capped \/ odd.uncapped

\* When nothing is under way there is a card for each session and no other,
\* except the cards a manual restart left, and those that were drawn for a
\* session that was gone: by an overtaken list, by a pause or a resume that
\* ended last, or by a line read after the exit of its worker.
CardsTrue ==
    Quiet => \A id \in (DOMAIN cards \cup blank \cup DOMAIN sessions) \ odd.stale :
        /\ id \in DOMAIN cards \cap DOMAIN sessions
        /\ cards[id] = sessions[id]

\* "Auto-restart saved tunnels (autostart = on) after the worker connects":
\* when nothing is under way every saved tunnel runs, after any crash.  The
\* exceptions are a boot that never read them, a worker that did not answer, a
\* card of another worker, and an autostart that began with another worker.
BackWhenQuiet ==
    Quiet /\ loaded /\ ~odd.heldOff /\ ~odd.gaveUp =>
        \A t \in Tunnels \ (odd.touched \cup odd.skipped) : Alive(t)

\* sessions.js: "Its params are what make the button work".  While the worker
\* lives, the Reconnect button of a session starts its tunnel and no other,
\* until it is answered.
OfferHolds ==
    \A o \in offers : o.life = life /\ up # "down" /\ o.id \notin odd.orphans \cup odd.used =>
        o.id \in DOMAIN replay /\ replay[o.id] = o.t

\* sessions.js: "Bounded: one entry per failed dial".  No parameters are kept
\* of a session that is gone, except to offer its reconnect, and when it ended
\* before its start was remembered.
ReplayBounded ==
    Quiet => DOMAIN replay \subseteq
        DOMAIN cards \cup {o.id : o \in offers} \cup odd.orphans
=============================================================================
