--------------------------- MODULE Renderer_proof ---------------------------
(***************************************************************************)
(* Proofs about Renderer, for any saved tunnels, workers and faults.       *)
(*                                                                         *)
(* One invariant, Sound, carries the seven theorems at the end.  Worker is *)
(* what holds of the worker, its events and the calls to it: an event is   *)
(* that of the present worker while this is up, a call that is answered    *)
(* was answered by it, a ready event finds its chain idle, and all that is *)
(* said of an id (by the worker, an event, an answer, a button or the      *)
(* parameters kept) names one tunnel.  Each other part relates it to one   *)
(* thing the renderer does: Cap to the limit, Cards and Announced to the   *)
(* cards, OneLoop and Copies to the start of the saved tunnels, Progress   *)
(* and Synced to how far that has come, ReplayKept and OffersKept to the   *)
(* Reconnect buttons.                                                      *)
(*                                                                         *)
(* Of each operation a lemma (AnswersDoes, TimeOutDoes, Turning, Hearing,  *)
(* ...) says what the later proofs need; then every part has its Step.     *)
(***************************************************************************)
EXTENDS Renderer, FiniteSetTheorems, SequenceTheorems, WellFoundedInduction, TLAPS

-----------------------------------------------------------------------------
(* Types.                                                                   *)

\* What tells the tunnel of some ids.
Maps == UNION {[D -> Tunnels] : D \in SUBSET (Nat \ {0})}

Steps  == {"idle", "wait", "ping", "list", "limit", "start", "reconnect"}
Calls  == [pc : Steps, i : Nat, st : {"none", "sent", "ok", "failed"}, after : Nat,
           life : Nat, born : Nat, got : Maps]
Told   == {"update", "error", "stopped"}
Events == [ev : {"ready", "exit"}, id : {0}, t : {0}, life : Lives]
          \cup [ev : {"state"}, id : Nat \ {0}, t : {0}, life : Lives]
          \cup [ev : Told, id : Nat \ {0}, t : Tunnels, life : Lives]
Histories == [stale : SUBSET Nat, used : SUBSET Nat,
              skipped : SUBSET Tunnels, touched : SUBSET Tunnels,
              orphans : SUBSET Nat, heldOff : BOOLEAN, gaveUp : BOOLEAN, uncapped : BOOLEAN]

Typed ==
    /\ life \in Lives /\ up \in {"starting", "up", "down"}
    /\ {sessions, cards, replay} \subseteq Maps
    /\ blank \subseteq Nat \ {0} /\ blank \cap DOMAIN cards = {}
    /\ nextId \in Nat \ {0} /\ \A id \in DOMAIN sessions : id < nextId
    /\ {capped, restartHidden, loaded} \subseteq BOOLEAN
    /\ late \subseteq Tunnels /\ errored \subseteq Nat
    /\ events \in Seq(Events)
    /\ offers \subseteq [id : Nat \ {0}, t : Tunnels, life : Lives]
    /\ chain \in [Chains -> Calls]
    /\ loop \in 0 .. life /\ faults \in 0 .. MaxFaults
    /\ odd \in Histories

\* The call of a chain.
CallOK(r) ==
    /\ r.st = "none" <=> r.pc \in {"idle", "wait"}
    /\ r.st # "none" => r.born <= r.life
    /\ r.life <= life /\ r.born <= life
    /\ r.after <= Len(events)
    /\ r.pc = "start" => r.i \in 1 .. Len(Saved)
    /\ r.pc = "reconnect" /\ r.st = "sent" => r.i \in DOMAIN r.got
    /\ r.st = "sent" /\ r.life = life => up = "up"
    /\ r.st = "ok" /\ up = "up" => r.life = life
    /\ r.st = "failed" => DOMAIN r.got = {}

CallsOK ==
    /\ \A c \in Chains : CallOK(chain[c])
    /\ \A c \in Chains : chain[c].pc = "reconnect" => c = User
    /\ chain[User].pc \in {"idle", "start", "reconnect"}

-----------------------------------------------------------------------------
(* The worker and what it wrote.                                            *)

\* The events of the present worker, of which there are none before it is up
\* and none but those of it while it is.
EventOK(k) ==
    LET ev == events[k] IN
    /\ ev.life <= life
    /\ up = "up" => ev.life = life
    /\ up = "starting" => ev.life < life
    /\ ev.life = life /\ ev.ev \in {"stopped", "error"} => ev.id \notin DOMAIN sessions
    /\ ev.ev = "exit" /\ ev.life = life => up = "down"

EventsOK ==
    /\ up # "up" => DOMAIN sessions = {} /\ late = {}
    /\ \A k \in DOMAIN events : EventOK(k)
    /\ \A o \in offers : o.life <= life /\ (up = "starting" => o.life < life)

\* A ready event finds the chain it begins idle.
ReadyOnce ==
    /\ \A l \in Lives : l > life \/ (l = life /\ up = "starting")
          => chain[<<"ready", l>>].pc = "idle"
    /\ \A k \in DOMAIN events : events[k].ev = "ready" =>
          /\ chain[<<"ready", events[k].life>>].pc = "idle"
          /\ \A m \in DOMAIN events :
                events[m].ev = "ready" /\ events[m].life = events[k].life => m = k

\* The id of a session of the present worker stands for one tunnel.
Runs(id, t)  == id \in DOMAIN sessions /\ sessions[id] = t
Hear(id, t)  == \E k \in DOMAIN events :
                   /\ events[k].life = life /\ events[k].ev \in Told
                   /\ events[k].id = id /\ events[k].t = t
Reply(id, t) == \E c \in Chains :
                   /\ chain[c].life = life /\ chain[c].st = "ok"
                   /\ chain[c].pc \in {"list", "start"}
                   /\ id \in DOMAIN chain[c].got /\ chain[c].got[id] = t
Shows(id, t) == \E o \in offers : o.life = life /\ o.id = id /\ o.t = t
Keeps(id, t) == id \in DOMAIN replay \ odd.orphans /\ replay[id] = t

Says(id, t) == Runs(id, t) \/ Hear(id, t) \/ Reply(id, t) \/ Shows(id, t) \/ Keeps(id, t)

OneTunnelPerId ==
    \A id \in Nat, t \in Tunnels :
        Says(id, t) => id < nextId /\ \A u \in Tunnels : Says(id, u) => u = t

Worker == Typed /\ CallsOK /\ EventsOK /\ ReadyOnce /\ OneTunnelPerId

-----------------------------------------------------------------------------
(* The limit.                                                               *)

CapReady ==
    \A c \in Chains \ {User} :
        /\ chain[c].born = life
        /\ \/ chain[c].pc = "start"
           \/ chain[c].pc = "limit" /\ chain[c].st \in {"ok", "failed"}
        => capped \/ odd.uncapped \/ up = "down"

Cap == CapFirst /\ CapReady

-----------------------------------------------------------------------------
(* Cards.                                                                   *)

Pending(name, id) == \E k \in DOMAIN events : events[k].ev = name /\ events[k].id = id

Exits == \E k \in DOMAIN events : events[k].ev = "exit"

Drawn(id) == id \in DOMAIN cards /\ cards[id] = sessions[id]

Comes(id, n) == \E k \in 1 .. n : events[k].ev = "update" /\ events[k].id = id

\* Everything that is left of a session that is gone is told to go.
Undone(k) ==
    LET ev == events[k] IN
    /\ ev.ev = "error" =>
          \E m \in DOMAIN events : m > k /\ events[m].ev = "stopped" /\ events[m].id = ev.id
    /\ up # "down" /\ ev.ev = "update" /\ ev.life = life /\ ev.id \notin DOMAIN sessions =>
          \E m \in DOMAIN events :
             m > k /\ (events[m].ev = "exit" \/ (events[m].ev = "stopped" /\ events[m].id = ev.id))

Cards ==
    /\ \A id \in DOMAIN sessions : Drawn(id) \/ Comes(id, Len(events))
    /\ \A id \in (DOMAIN cards \cup blank) \ DOMAIN sessions :
          id \in odd.stale \/ Pending("stopped", id) \/ Exits
    /\ \A k \in DOMAIN events : Undone(k)

\* The answer of a start comes through after the event that draws its card.
Announced ==
    \A c \in Chains : chain[c].pc = "start" /\ chain[c].st = "ok" /\ chain[c].life = life =>
        \A id \in DOMAIN chain[c].got \cap DOMAIN sessions :
            Drawn(id) \/ Comes(id, chain[c].after)

-----------------------------------------------------------------------------
(* Starting the saved tunnels.                                              *)

Loops(c) == c # User /\ chain[c].pc = "start"

OneLoop ==
    /\ \A c, d \in Chains : Loops(c) /\ Loops(d) => c = d
    /\ \A c \in Chains : Loops(c) => loop # 0

Quietly == Recognised \ odd.touched

\* A session that nobody else started has its card, or its start is answered
\* but not done; and a tunnel that is being started does not run.
Copies ==
    /\ late \subseteq odd.touched
    /\ chain[User].st = "sent" /\ chain[User].life = life =>
          Target(chain[User]) \in odd.touched
    /\ \A a, b \in DOMAIN sessions : sessions[a] = sessions[b] /\ sessions[a] \in Quietly => a = b
    /\ \A id \in DOMAIN sessions : sessions[id] \in Quietly =>
          \/ Drawn(id)
          \/ \E c \in Chains : Loops(c) /\ chain[c].st = "ok" /\ chain[c].life = life
                               /\ id \in DOMAIN chain[c].got
    /\ \A c \in Chains : Loops(c) /\ chain[c].st = "sent" /\ chain[c].life = life
          /\ Saved[chain[c].i] \in Quietly => ~Alive(Saved[chain[c].i])

-----------------------------------------------------------------------------
(* Bringing them back.                                                      *)

Covered(t) == Alive(t) \/ t \in odd.touched \cup odd.skipped

\* How far the loop has come that began with the present worker.
Progress ==
    /\ up = "starting" => loop < life
    /\ up = "up" /\ loop = life => \E c \in Chains :
          /\ Loops(c) /\ chain[c].life = life
          /\ \A j \in 1 .. chain[c].i - 1 : Covered(Saved[j])
          /\ chain[c].st \in {"ok", "failed"} => Covered(Saved[chain[c].i])

ReadyComes == \E k \in DOMAIN events : events[k].ev = "ready"

Syncs(r) ==
    /\ r.pc \in {"ping", "list", "limit"} /\ r.life = life
    /\ r.pc # "limit" => r.st # "failed"

\* A worker that is up is synced, or was.
Synced ==
    up = "up" /\ loaded /\ ~odd.heldOff /\ ~odd.gaveUp =>
        \/ ReadyComes \/ Syncs(chain[<<"ready", life>>])
        \/ loop = life \/ \A t \in Tunnels : Covered(t)

-----------------------------------------------------------------------------
(* The Reconnect buttons.                                                   *)

Offered(id) == \E o \in offers : o.id = id

ReplayKept ==
    /\ \A id \in DOMAIN replay :
          id \in DOMAIN cards \/ Offered(id) \/ id \in odd.orphans \/ Pending("stopped", id)
    /\ \A id \in errored \cap DOMAIN replay : Offered(id) \/ id \in odd.orphans

\* The end of a session is told once, and comes after its error.
OffersKept ==
    /\ \A k, m \in DOMAIN events :
          /\ events[k].ev = "stopped" /\ events[m].ev = "stopped"
          /\ events[k].id = events[m].id /\ events[k].life = events[m].life
          => k = m
    /\ \A o \in offers : o.life = life /\ up # "down" =>
          /\ o.id \notin DOMAIN sessions
          /\ Pending("stopped", o.id) => o.id \in errored
          /\ o.id \notin odd.orphans \cup odd.used => o.id \in DOMAIN replay

-----------------------------------------------------------------------------
(* Lemmas about the operators of the model.                                 *)

LEMMA Constants ==
  /\ Saved \in Seq(Tunnels) /\ Len(Saved) \in Nat /\ DOMAIN Saved = 1 .. Len(Saved)
  /\ \A i \in 1 .. Len(Saved) : Saved[i] \in Tunnels
  /\ \A t \in Tunnels : \E i \in 1 .. Len(Saved) : t = Saved[i]
  /\ Recognised \subseteq Tunnels
  /\ MaxLives \in Nat \ {0} /\ MaxFaults \in Nat /\ 1 \in Lives
<1>1. Saved \in Seq(Tunnels) /\ Recognised \subseteq Tunnels
      /\ MaxLives \in Nat \ {0} /\ MaxFaults \in Nat
  BY RendererAssumption DEF Tunnels
<1>2. \A t \in Tunnels : \E i \in DOMAIN Saved : t = Saved[i]
  BY DEF Tunnels, Range
<1>3. 1 \in Lives
  BY <1>1 DEF Lives
<1>4. QED
  BY <1>1, <1>2, <1>3

(* The chains are different from each other.                                *)
LEMMA ChainNames ==
  /\ {Boot, Button, User} \subseteq Chains
  /\ Boot # Button /\ Boot # User /\ Button # User
  /\ \A l \in Lives : <<"ready", l>> \in Chains /\ <<"ready", l>> \notin {Boot, Button, User}
  /\ \A l, m \in Lives : <<"ready", l>> = <<"ready", m>> => l = m
  BY DEF Chains, Boot, Button, User

LEMMA MapHas ==
  ASSUME NEW f \in Maps
  PROVE  DOMAIN f \subseteq Nat \ {0} /\ \A i \in DOMAIN f : f[i] \in Tunnels
  BY DEF Maps

LEMMA MapMade ==
  ASSUME NEW D \in SUBSET (Nat \ {0}), NEW f \in [D -> Tunnels]
  PROVE  f \in Maps
  BY DEF Maps

LEMMA EmptyMap == <<>> \in Maps /\ DOMAIN <<>> = {}
<1>1. <<>> \in [{} -> Tunnels]
  OBVIOUS
<1>2. QED
  BY <1>1, MapMade

LEMMA PutIs ==
  ASSUME NEW f \in Maps, NEW i \in Nat \ {0}, NEW x \in Tunnels
  PROVE  /\ Put(f, i, x) \in Maps /\ DOMAIN Put(f, i, x) = DOMAIN f \cup {i}
         /\ Put(f, i, x)[i] = x
         /\ \A j \in DOMAIN f : j # i => Put(f, i, x)[j] = f[j]
<1>1. Put(f, i, x) \in [DOMAIN f \cup {i} -> Tunnels]
  BY MapHas DEF Put
<1>2. QED
  BY <1>1, MapHas, MapMade DEF Put

LEMMA DropIs ==
  ASSUME NEW f \in Maps, NEW i
  PROVE  /\ Drop(f, i) \in Maps /\ DOMAIN Drop(f, i) = DOMAIN f \ {i}
         /\ \A j \in DOMAIN f : j # i => Drop(f, i)[j] = f[j]
<1>1. Drop(f, i) \in [DOMAIN f \ {i} -> Tunnels]
  BY MapHas DEF Drop
<1>2. QED
  BY <1>1, MapHas, MapMade DEF Drop

LEMMA DropLess ==
  ASSUME NEW f \in Maps, NEW i, NEW h, h = f \/ h = Drop(f, i)
  PROVE  DOMAIN h \subseteq DOMAIN f /\ \A j \in DOMAIN h : h[j] = f[j]
<1>1. CASE h = f
  BY <1>1
<1>2. CASE h = Drop(f, i)
  BY <1>2 DEF Drop
<1>3. QED
  BY <1>1, <1>2

(* What a list draws, or what is remembered, over what was there.           *)
LEMMA OverlayIs ==
  ASSUME NEW f \in Maps, NEW g \in Maps,
         NEW h, h = [id \in DOMAIN f \cup DOMAIN g |-> IF id \in DOMAIN g THEN g[id] ELSE f[id]]
  PROVE  /\ h \in Maps /\ DOMAIN h = DOMAIN f \cup DOMAIN g
         /\ \A id \in DOMAIN g : h[id] = g[id]
         /\ \A id \in DOMAIN f : id \notin DOMAIN g => h[id] = f[id]
<1>1. h \in [DOMAIN f \cup DOMAIN g -> Tunnels]
  BY MapHas
<1>2. QED
  BY <1>1, MapHas, MapMade

LEMMA OneIs ==
  ASSUME NEW i \in Nat \ {0}, NEW x \in Tunnels
  PROVE  [j \in {i} |-> x] \in Maps /\ DOMAIN [j \in {i} |-> x] = {i} /\ [j \in {i} |-> x][i] = x
<1>1. [j \in {i} |-> x] \in [{i} -> Tunnels]
  OBVIOUS
<1>2. QED
  BY <1>1, MapMade

LEMMA IdleIs ==
  /\ Idle \in Calls /\ Idle.pc = "idle" /\ Idle.st = "none" /\ Idle.i = 0
  /\ Idle.after = 0 /\ Idle.life = 0 /\ Idle.born = 0 /\ Idle.got = <<>>
  BY EmptyMap DEF Idle, Calls, Steps

LEMMA CallsAre ==
  ASSUME NEW r \in Calls
  PROVE  /\ r.pc \in Steps /\ r.i \in Nat /\ r.st \in {"none", "sent", "ok", "failed"}
         /\ r.after \in Nat /\ r.life \in Nat /\ r.born \in Nat /\ r.got \in Maps
  BY DEF Calls

LEMMA AskIs ==
  ASSUME NEW r \in Calls, NEW pc \in Steps, NEW i \in Nat, life \in Nat
  PROVE  LET a == Ask(r, pc, i) IN
         /\ a \in Calls
         /\ up # "up" => a = Idle
         /\ up = "up" => /\ a.pc = pc /\ a.i = i /\ a.got = <<>> /\ a.st = "sent"
                         /\ a.after = 0 /\ a.life = life /\ a.born = r.born
<1>1. CASE up = "up"
  BY <1>1, EmptyMap DEF Ask, Calls
<1>2. CASE up # "up"
  BY <1>2, IdleIs DEF Ask
<1>3. QED
  BY <1>1, <1>2

LEMMA Least ==
  ASSUME NEW S \in SUBSET Nat, S # {}
  PROVE  \E m \in S : \A n \in S : m <= n
<1> DEFINE R == {ss \in Nat \X Nat : ss[1] < ss[2]}
<1>1. IsWellFoundedOn(R, Nat)
  BY NatLessThanWellFounded DEF OpToRel
<1> HIDE DEF R
<1>2. PICK m \in S : \A n \in S : ~(<<n, m>> \in R)
  BY <1>1, WFMin
<1>3. \A n \in S : ~(n < m)
  BY <1>2 DEF R
<1>4. QED
  BY <1>3

\* The loop goes from the i-th tunnel on to the n-th, if there is one and a
\* worker is up to start it.
GoesOn(c, i, n, o) ==
    /\ n \in i .. Len(Saved) + 1
    /\ \A j \in i .. n - 1 : Shown(Saved[j])
    /\ n <= Len(Saved) => ~Shown(Saved[n])
    /\ odd' = [o EXCEPT !.skipped =
                  @ \cup {t \in {Saved[j] : j \in i .. n - 1} : ~Alive(t)}]
    /\ n > Len(Saved) \/ up # "up" => chain' = [chain EXCEPT ![c] = Idle] /\ loop' = 0
    /\ n <= Len(Saved) /\ up = "up" =>
          /\ chain' = [chain EXCEPT ![c] = Ask(chain[c], "start", n)]
          /\ loop' = IF loop = 0 THEN life ELSE loop

LEMMA StartFromIs ==
  ASSUME NEW c \in Chains, NEW i \in 1 .. Len(Saved) + 1, NEW o, StartFrom(c, i, o)
  PROVE  \E n \in Nat : GoesOn(c, i, n, o)
<1> DEFINE rest == {j \in i .. Len(Saved) : ~Shown(Saved[j])}
           next == IF rest = {} THEN Len(Saved) + 1
                   ELSE CHOOSE j \in rest : \A k \in rest : j <= k
<1>1. /\ chain' = [chain EXCEPT ![c] = IF rest = {} THEN Idle ELSE Ask(chain[c], "start", next)]
      /\ loop' = IF rest = {} \/ up # "up" THEN 0 ELSE IF loop = 0 THEN life ELSE loop
      /\ odd' = [o EXCEPT !.skipped =
                    @ \cup {t \in {Saved[j] : j \in i .. next - 1} : ~Alive(t)}]
  BY DEF StartFrom, Goto
<1>2. Len(Saved) \in Nat /\ rest \in SUBSET Nat
  BY Constants
<1>3. CASE rest = {}
  <2>1. next = Len(Saved) + 1
    BY <1>3
  <2>2. \A j \in i .. next - 1 : Shown(Saved[j])
    BY <1>2, <1>3, <2>1
  <2> HIDE DEF next
  <2>3. GoesOn(c, i, next, o)
    BY <1>1, <1>2, <1>3, <2>1, <2>2 DEF GoesOn
  <2>4. QED
    BY <1>2, <2>1, <2>3
<1>4. CASE rest # {}
  <2>1. next \in rest /\ \A k \in rest : next <= k
    <3>1. \E j \in rest : \A k \in rest : j <= k
      BY <1>2, <1>4, Least
    <3> HIDE DEF rest
    <3>2. next = CHOOSE j \in rest : \A k \in rest : j <= k
      BY <1>4
    <3>3. QED
      BY <3>1, <3>2
  <2> HIDE DEF next
  <2>2. next \in i .. Len(Saved) + 1 /\ next <= Len(Saved) /\ ~Shown(Saved[next])
    BY <1>2, <2>1
  <2>3. \A j \in i .. next - 1 : Shown(Saved[j])
    BY <1>2, <2>1, <2>2
  <2>4. up # "up" => Ask(chain[c], "start", next) = Idle
    BY DEF Ask
  <2> HIDE DEF rest
  <2>5. /\ chain' = [chain EXCEPT ![c] = Ask(chain[c], "start", next)]
        /\ up # "up" => chain' = [chain EXCEPT ![c] = Idle]
        /\ loop' = IF up # "up" THEN 0 ELSE IF loop = 0 THEN life ELSE loop
    BY <1>1, <1>4, <2>4
  <2>6. GoesOn(c, i, next, o)
    <3>1. CASE up = "up"
      <4>1. loop' = IF loop = 0 THEN life ELSE loop
        BY <2>5, <3>1
      <4>2. ~(next > Len(Saved) \/ up # "up")
        BY <1>2, <2>2, <3>1
      <4>3. QED
        BY <1>1, <2>2, <2>3, <2>5, <4>1, <4>2, Zenon DEF GoesOn
    <3>2. CASE up # "up"
      BY <1>1, <1>2, <2>2, <2>3, <2>5, <3>2 DEF GoesOn
    <3>3. QED
      BY <3>1, <3>2
  <2>7. QED
    BY <1>2, <2>2, <2>6
<1>5. QED
  BY <1>3, <1>4

-----------------------------------------------------------------------------
(* The events.                                                              *)

LEMMA EventIs ==
  ASSUME life \in Lives, NEW name \in Told, NEW id \in Nat \ {0}, NEW t \in Tunnels
  PROVE  /\ Event(name, id, t) \in Seq(Events) /\ Len(Event(name, id, t)) = 1
         /\ Event(name, id, t)[1] = [ev |-> name, id |-> id, t |-> t, life |-> life]
<1>1. [ev |-> name, id |-> id, t |-> t, life |-> life] \in Events
  BY DEF Events
<1>2. QED
  BY <1>1 DEF Event

LEMMA SignalIs ==
  ASSUME life \in Lives, NEW name \in {"ready", "exit"}
  PROVE  /\ Event(name, 0, 0) \in Seq(Events) /\ Len(Event(name, 0, 0)) = 1
         /\ Event(name, 0, 0)[1] = [ev |-> name, id |-> 0, t |-> 0, life |-> life]
<1>1. [ev |-> name, id |-> 0, t |-> 0, life |-> life] \in Events
  BY DEF Events
<1>2. QED
  BY <1>1 DEF Event

(* The first event is delivered, and the others move up.                    *)
LEMMA Delivered ==
  ASSUME events \in Seq(Events), NEW name, Delivers(name)
  PROVE  /\ events # <<>> /\ e = events[1] /\ e.ev = name /\ e \in Events
         /\ Len(events) \in Nat /\ Len(events) >= 1 /\ Len(events') = Len(events) - 1
         /\ events' \in Seq(Events)
         /\ DOMAIN events = 1 .. Len(events) /\ DOMAIN events' = 1 .. Len(events')
         /\ \A k \in DOMAIN events' : k + 1 \in DOMAIN events /\ events'[k] = events[k + 1]
         /\ \A k \in DOMAIN events : k = 1 \/ (k - 1 \in DOMAIN events' /\ events'[k - 1] = events[k])
<1>1. events # <<>> /\ e = Head(events) /\ e.ev = name /\ events' = Tail(events)
  BY DEF Delivers, e
<1>2. /\ Len(events) \in Nat /\ Len(events) >= 1 /\ DOMAIN events = 1 .. Len(events)
      /\ Head(events) = events[1] /\ events[1] \in Events
  BY <1>1
<1>3. /\ events' \in Seq(Events) /\ Len(events') = Len(events) - 1
      /\ \A k \in 1 .. Len(events') : events'[k] = events[k + 1]
      /\ DOMAIN events' = 1 .. Len(events')
  BY <1>1, HeadTailProperties
<1>4. \A k \in 1 .. Len(events) : k = 1 \/ (k - 1 \in 1 .. Len(events') /\ events'[k - 1] = events[k])
  BY <1>2, <1>3
<1>5. QED
  BY <1>1, <1>2, <1>3, <1>4

(* An event follows the others.                                             *)
LEMMA Appended ==
  ASSUME events \in Seq(Events), NEW es \in Seq(Events), events' = events \o es
  PROVE  /\ events' \in Seq(Events) /\ Len(events) \in Nat /\ Len(es) \in Nat
         /\ Len(events') = Len(events) + Len(es)
         /\ DOMAIN events = 1 .. Len(events) /\ DOMAIN events' = 1 .. Len(events')
         /\ \A k \in DOMAIN events : k \in DOMAIN events' /\ events'[k] = events[k]
         /\ \A k \in 1 .. Len(es) : Len(events) + k \in DOMAIN events'
                                    /\ events'[Len(events) + k] = es[k]
<1>1. /\ events' \in Seq(Events) /\ Len(events) \in Nat /\ Len(es) \in Nat
      /\ Len(events') = Len(events) + Len(es)
      /\ DOMAIN events = 1 .. Len(events) /\ DOMAIN events' = 1 .. Len(events')
  OBVIOUS
<1>2. \A i \in 1 .. Len(events) + Len(es) :
         events'[i] = IF i <= Len(events) THEN events[i] ELSE es[i - Len(events)]
  BY ConcatProperties
<1>3. QED
  BY <1>1, <1>2

\* t is s with x put after the k-th.
Placed(S, s, x, k, t) ==
    /\ t \in Seq(S) /\ Len(t) = Len(s) + 1 /\ t[k + 1] = x
    /\ \A m \in 1 .. k : t[m] = s[m]
    /\ \A m \in k + 1 .. Len(s) : t[m + 1] = s[m]

LEMMA Between ==
  ASSUME NEW S, NEW s \in Seq(S), NEW x \in S, NEW k \in Nat, k <= Len(s)
  PROVE  Placed(S, s, x, k, SubSeq(s, 1, k) \o <<x>> \o SubSeq(s, k + 1, Len(s)))
<1> DEFINE n == Len(s)
<1>0. n \in Nat /\ k <= n
  OBVIOUS
<1>1. PICK a : a = SubSeq(s, 1, k)
  OBVIOUS
<1>2. PICK b : b = SubSeq(s, k + 1, n)
  OBVIOUS
<1>3. a \in Seq(S) /\ Len(a) = k /\ \A m \in 1 .. k : a[m] = s[m]
  BY <1>1
<1>4. b \in Seq(S) /\ Len(b) = n - k /\ \A m \in 1 .. n - k : b[m] = s[k + m]
  BY <1>2
<1> HIDE DEF n
<1> DEFINE t == a \o <<x>> \o b
<1>5. t = SubSeq(s, 1, k) \o <<x>> \o SubSeq(s, k + 1, n)
  BY <1>1, <1>2
<1>6. /\ t \in Seq(S) /\ Len(t) = Len(a) + 1 + Len(b) /\ t[Len(a) + 1] = x
      /\ \A m \in 1 .. Len(a) : t[m] = a[m]
      /\ \A m \in 1 .. Len(b) : t[Len(a) + 1 + m] = b[m]
  <2>1. a \in Seq(S) /\ b \in Seq(S)
    BY <1>3, <1>4
  <2>2. QED
    BY <2>1
<1> HIDE DEF t
<1>7. ASSUME NEW m \in k + 1 .. n PROVE t[m + 1] = s[m]
  <2>1. m - k \in 1 .. Len(b) /\ k + 1 + (m - k) = m + 1 /\ k + (m - k) = m
    BY <1>0, <1>4
  <2>2. t[Len(a) + 1 + (m - k)] = b[m - k] /\ b[m - k] = s[k + (m - k)]
    BY <1>4, <1>6, <2>1, Zenon
  <2>3. QED
    BY <1>3, <2>1, <2>2, Zenon
<1>8. t \in Seq(S) /\ Len(t) = n + 1 /\ t[k + 1] = x
  <2>1. k + 1 + (n - k) = n + 1
    BY <1>0
  <2>2. QED
    BY <1>3, <1>4, <1>6, <2>1, Zenon
<1>9. \A m \in 1 .. k : t[m] = s[m]
  BY <1>3, <1>6, Zenon
<1>10. QED
  BY <1>5, <1>7, <1>8, <1>9, Zenon DEF n, Placed

-----------------------------------------------------------------------------
(* What the steps do to the chains.                                         *)

Others(c) == \A d \in Chains \ {c} : chain'[d] = chain[d]

Chained == chain \in [Chains -> Calls]

LEMMA GotoDoes ==
  ASSUME Chained, NEW c \in Chains, NEW r \in Calls, chain' = [chain EXCEPT ![c] = r]
  PROVE  Chained' /\ chain'[c] = r /\ Others(c)
  BY DEF Chained, Others

LEMMA AnswerDoes ==
  ASSUME Chained, NEW c \in Chains, NEW st \in {"ok", "failed"}, NEW got \in Maps,
         events \in Seq(Events), NEW es \in Seq(Events), Answer(c, st, got, es)
  PROVE  /\ Chained' /\ Others(c)
         /\ LET r == chain[c] q == chain'[c] IN
            /\ q.pc = r.pc /\ q.i = r.i /\ q.life = r.life /\ q.born = r.born
            /\ q.st = st /\ q.got = got /\ q.after = Len(events')
         /\ events' = events \o es
<1> DEFINE r == chain[c]
           q == [r EXCEPT !.st = st, !.after = Len(events'), !.got = got]
<1>1. events' = events \o es /\ chain' = [chain EXCEPT ![c] = q]
  BY DEF Answer
<1>2. Len(events') \in Nat
  BY <1>1
<1>3. r \in Calls
  BY DEF Chained
<1>4. /\ q \in Calls /\ q.pc = r.pc /\ q.i = r.i /\ q.life = r.life /\ q.born = r.born
      /\ q.st = st /\ q.got = got /\ q.after = Len(events')
  BY <1>2, <1>3 DEF Calls
<1> HIDE DEF q
<1>5. QED
  BY <1>1, <1>4, GotoDoes

LEMMA TimeOutDoes ==
  ASSUME Chained, NEW c \in Chains, TimeOut(c)
  PROVE  /\ Chained' /\ Others(c)
         /\ LET r == chain[c] q == chain'[c] IN
            /\ q.pc = r.pc /\ q.i = r.i /\ q.life = r.life /\ q.born = r.born
            /\ q.after = r.after /\ r.st = "sent" /\ q.st = "failed" /\ q.got = <<>>
<1> DEFINE r == chain[c]
           q == [r EXCEPT !.st = "failed", !.got = <<>>]
<1>1. r.st = "sent" /\ chain' = [chain EXCEPT ![c] = q]
  BY DEF TimeOut, Chained
<1>2. r \in Calls
  BY DEF Chained
<1>3. /\ q \in Calls /\ q.pc = r.pc /\ q.i = r.i /\ q.life = r.life /\ q.born = r.born
      /\ q.after = r.after /\ q.st = "failed" /\ q.got = <<>>
  BY <1>2, EmptyMap DEF Calls
<1> HIDE DEF q
<1>4. QED
  BY <1>1, <1>3, GotoDoes

\* What becomes of the calls when d of the events were read.
Drains(d) ==
    /\ Chained'
    /\ \A c \in Chains : LET r == chain[c] q == chain'[c] IN
       /\ q.pc = r.pc /\ q.i = r.i /\ q.life = r.life /\ q.born = r.born
       /\ IF Unread(r, d) THEN q.st = "failed" /\ q.got = <<>> /\ q.after = 0 ELSE q = r

LEMMA CrashDoes ==
  ASSUME Chained, NEW d \in Nat,
         chain' = [c \in Chains |->
                     IF Unread(chain[c], d)
                     THEN [chain[c] EXCEPT !.st = "failed", !.after = 0, !.got = <<>>]
                     ELSE chain[c]]
  PROVE  Drains(d)
<1> DEFINE Fails(r) == [r EXCEPT !.st = "failed", !.after = 0, !.got = <<>>]
<1>1. chain' = [c \in Chains |-> IF Unread(chain[c], d) THEN Fails(chain[c]) ELSE chain[c]]
  OBVIOUS
<1>2. ASSUME NEW r \in Calls
      PROVE  /\ Fails(r) \in Calls
             /\ Fails(r).pc = r.pc /\ Fails(r).i = r.i /\ Fails(r).life = r.life
             /\ Fails(r).born = r.born /\ Fails(r).after = 0
             /\ Fails(r).st = "failed" /\ Fails(r).got = <<>>
  BY <1>2, EmptyMap DEF Calls
<1> HIDE DEF Fails
<1>3. \A c \in Chains : chain[c] \in Calls
  BY DEF Chained
<1>4. Chained'
  BY <1>1, <1>2, <1>3 DEF Chained
<1>5. ASSUME NEW c \in Chains
      PROVE  LET r == chain[c] q == chain'[c] IN
             /\ q.pc = r.pc /\ q.i = r.i /\ q.life = r.life /\ q.born = r.born
             /\ IF Unread(r, d) THEN q.st = "failed" /\ q.got = <<>> /\ q.after = 0 ELSE q = r
  <2>1. CASE Unread(chain[c], d)
    <3>1. chain'[c] = Fails(chain[c])
      BY <1>1, <2>1
    <3>2. chain[c] \in Calls
      BY <1>3
    <3>3. LET r == chain[c] q == Fails(chain[c]) IN
          /\ q.pc = r.pc /\ q.i = r.i /\ q.life = r.life /\ q.born = r.born
          /\ q.st = "failed" /\ q.got = <<>> /\ q.after = 0
      BY <1>2, <3>2
    <3>4. QED
      BY <2>1, <3>1, <3>3
  <2>2. CASE ~Unread(chain[c], d)
    <3>1. chain'[c] = chain[c]
      BY <1>1, <2>2
    <3>2. QED
      BY <2>2, <3>1
  <2>3. QED
    BY <2>1, <2>2
<1>6. QED
  BY <1>4, <1>5 DEF Drains

LEMMA PassedDoes ==
  ASSUME Chained
  PROVE  /\ Passed \in [Chains -> Calls]
         /\ \A c \in Chains : LET r == chain[c] q == Passed[c] IN
            /\ q.pc = r.pc /\ q.i = r.i /\ q.life = r.life /\ q.born = r.born
            /\ q.st = r.st /\ q.got = r.got
            /\ q.after = IF r.after = 0 THEN 0 ELSE r.after - 1
<1> DEFINE Moves(r) == [r EXCEPT !.after = IF @ = 0 THEN 0 ELSE @ - 1]
<1>1. Passed = [c \in Chains |-> Moves(chain[c])]
  BY DEF Passed
<1>2. ASSUME NEW r \in Calls
      PROVE  /\ Moves(r) \in Calls
             /\ Moves(r).pc = r.pc /\ Moves(r).i = r.i /\ Moves(r).life = r.life
             /\ Moves(r).born = r.born /\ Moves(r).st = r.st /\ Moves(r).got = r.got
             /\ Moves(r).after = IF r.after = 0 THEN 0 ELSE r.after - 1
  BY <1>2 DEF Calls
<1> HIDE DEF Moves
<1>3. \A c \in Chains : chain[c] \in Calls
  BY DEF Chained
<1>4. QED
  BY <1>1, <1>2, <1>3

-----------------------------------------------------------------------------
(* Types hold in every step.                                                *)

(* What the types say, with Chained apart.                                  *)
LEMMA TypedSays ==
  ASSUME Typed
  PROVE  /\ Chained /\ life \in Lives /\ life \in Nat \ {0} /\ Lives \subseteq Nat
         /\ sessions \in Maps /\ cards \in Maps /\ replay \in Maps
         /\ events \in Seq(Events) /\ Len(events) \in Nat /\ DOMAIN events = 1 .. Len(events)
         /\ \A k \in DOMAIN events : events[k] \in Events
         /\ \A c \in Chains : chain[c] \in Calls
  BY Constants DEF Typed, Chained, Lives

(* The tunnel a call starts.                                                *)
LEMMA TargetIs ==
  ASSUME Typed, NEW c \in Chains, CallOK(chain[c]), Starts(c), chain[c].st = "sent"
  PROVE  Target(chain[c]) \in Tunnels
<1>1. chain[c].got \in Maps
  BY TypedSays, CallsAre
<1>2. QED
  BY <1>1, MapHas, Constants DEF CallOK, Starts, Target

LEMMA FaultIs ==
  ASSUME faults \in 0 .. MaxFaults, Fault
  PROVE  faults' \in 0 .. MaxFaults
  BY Constants DEF Fault

LEMMA TypedAnswers ==
  ASSUME Typed, CallsOK, NEW c \in Chains, Answers(c)
  PROVE  Typed'
<1> DEFINE got == IF chain[c].pc = "list" THEN sessions ELSE <<>>
<1>1. <<>> \in Seq(Events) /\ got \in Maps /\ Answer(c, "ok", got, <<>>)
  BY EmptyMap DEF Typed, Answers
<1> HIDE DEF got
<1>2. Chained' /\ events' = events \o <<>>
  BY <1>1, TypedSays, AnswerDoes
<1>3. events' \in Seq(Events)
  BY <1>2 DEF Typed
<1>4. QED
  BY <1>2, <1>3 DEF Answers, Typed, Chained, status, screen

LEMMA NewSessionIs ==
  ASSUME Typed, NEW t \in Tunnels, NewSession(t)
  PROVE  /\ sessions' \in Maps /\ nextId' \in Nat \ {0} /\ nextId' = nextId + 1
         /\ nextId \in Nat \ {0} /\ nextId \notin DOMAIN sessions
         /\ DOMAIN sessions' = DOMAIN sessions \cup {nextId}
         /\ sessions'[nextId] = t /\ \A id \in DOMAIN sessions : sessions'[id] = sessions[id]
         /\ \A id \in DOMAIN sessions' : id < nextId'
<1>1. sessions \in Maps /\ nextId \in Nat \ {0} /\ \A id \in DOMAIN sessions : id < nextId
  BY DEF Typed
<1>2. DOMAIN sessions \subseteq Nat /\ nextId \notin DOMAIN sessions
  BY <1>1, MapHas
<1>3. /\ sessions' \in Maps /\ DOMAIN sessions' = DOMAIN sessions \cup {nextId}
      /\ sessions'[nextId] = t
      /\ \A id \in DOMAIN sessions : id # nextId => sessions'[id] = sessions[id]
      /\ nextId' = nextId + 1
  BY <1>1, PutIs DEF NewSession
<1>4. \A id \in DOMAIN sessions' : id < nextId'
  BY <1>1, <1>2, <1>3
<1>5. QED
  BY <1>1, <1>2, <1>3, <1>4

LEMMA TypedStartsTunnel ==
  ASSUME Typed, CallsOK, NEW c \in Chains, StartsTunnel(c)
  PROVE  Typed'
<1> DEFINE t == Target(chain[c])
<1>1. t \in Tunnels
  BY TargetIs DEF StartsTunnel, Asks, CallsOK
<1>2. NewSession(t) /\ Answer(c, "ok", [i \in {nextId} |-> t], Event("update", nextId, t))
  BY DEF StartsTunnel
<1> HIDE DEF t
<1>3. nextId \in Nat \ {0} /\ life \in Lives
  BY DEF Typed
<1>4. Event("update", nextId, t) \in Seq(Events)
  BY <1>1, <1>3, EventIs DEF Told
<1>5. Chained' /\ events' = events \o Event("update", nextId, t)
  <2> DEFINE got == [i \in {nextId} |-> t]
  <2>1. got \in Maps
    BY <1>1, <1>3, OneIs
  <2> HIDE DEF got
  <2>2. Answer(c, "ok", got, Event("update", nextId, t))
    BY <1>2 DEF got
  <2>3. QED
    BY <1>4, <2>1, <2>2, TypedSays, AnswerDoes
<1>6. events' \in Seq(Events)
  BY <1>4, <1>5 DEF Typed
<1>7. odd' \in Histories
  BY DEF StartsTunnel, Typed, Histories
<1>8. QED
  BY <1>1, <1>2, <1>5, <1>6, <1>7, NewSessionIs DEF StartsTunnel, Typed, Chained, status, screen

LEMMA TypedStartFails ==
  ASSUME Typed, CallsOK, NEW c \in Chains, StartFails(c)
  PROVE  Typed'
<1>1. Target(chain[c]) \in Tunnels
  BY TargetIs DEF StartFails, Asks, CallsOK
<1>2. Chained' /\ events' = events \o <<>>
  <2>1. <<>> \in Seq(Events)
    OBVIOUS
  <2>2. QED
    BY <2>1, TypedSays, EmptyMap, AnswerDoes DEF StartFails
<1>3. events' \in Seq(Events)
  BY <1>2 DEF Typed
<1>4. odd' \in Histories /\ faults' \in 0 .. MaxFaults
  <2>1. odd' \in Histories
    BY <1>1 DEF StartFails, Typed, Histories
  <2>2. QED
    BY <2>1, FaultIs DEF StartFails, Typed
<1>5. QED
  BY <1>2, <1>3, <1>4 DEF StartFails, Typed, Chained, worker, status, screen

LEMMA TypedTimeOut ==
  ASSUME Typed, CallsOK, NEW c \in Chains, TimeOut(c)
  PROVE  Typed'
<1>1. Chained'
  BY TypedSays, TimeOutDoes
<1>2. Starts(c) => Target(chain[c]) \in Tunnels
  BY TargetIs DEF TimeOut, CallsOK
<1>3. odd' \in Histories /\ late' \subseteq Tunnels /\ faults' \in 0 .. MaxFaults
  <2>1. CASE ~Asks(c)
    BY <2>1 DEF TimeOut, Typed
  <2>2. CASE Asks(c)
    <3>1. Fault
      BY <2>2 DEF TimeOut
    <3>2. late' \subseteq Tunnels
      BY <1>2, <2>2 DEF TimeOut, Typed
    <3>3. odd' \in Histories
      <4> DEFINE tt == IF Starts(c) THEN odd.touched \cup {Target(chain[c])} ELSE odd.touched
      <4>1. tt \in SUBSET Tunnels
        BY <1>2 DEF Typed, Histories
      <4>2. odd' = [odd EXCEPT !.touched = tt,
                       !.gaveUp = @ \/ chain[c].pc \in {"ping", "list"},
                       !.uncapped = @ \/ chain[c].pc = "limit"]
        BY <2>2 DEF TimeOut
      <4> HIDE DEF tt
      <4>3. QED
        BY <4>1, <4>2 DEF Typed, Histories
    <3>4. QED
      BY <3>1, <3>2, <3>3, FaultIs DEF Typed
  <2>3. QED
    BY <2>1, <2>2
<1>4. QED
  BY <1>1, <1>3 DEF TimeOut, Typed, Chained, status, screen

LEMMA TypedStartsLate ==
  ASSUME Typed, NEW t \in Tunnels, StartsLate(t)
  PROVE  Typed'
<1>1. Event("update", nextId, t) \in Seq(Events)
  BY EventIs DEF Typed, Told
<1>2. events' \in Seq(Events)
  BY <1>1 DEF StartsLate, Typed
<1>3. odd' \in Histories
  BY DEF StartsLate, Typed, Histories
<1>4. QED
  BY <1>2, <1>3, NewSessionIs DEF StartsLate, Typed, status, screen

\* A late start fails, or a pause or a resume is announced.
Murmurs == (\E t \in Tunnels : LateFails(t)) \/ (\E id \in 1 .. nextId - 1 : Suspends(id))

LEMMA StateIs ==
  ASSUME Typed, NEW id \in 1 .. nextId - 1
  PROVE  [ev |-> "state", id |-> id, t |-> 0, life |-> life] \in Events
<1>1. id \in Nat \ {0} /\ life \in Lives
  BY DEF Typed
<1>2. QED
  BY <1>1 DEF Events

LEMMA TypedMurmurs ==
  ASSUME Typed, Murmurs
  PROVE  Typed'
<1>1. ASSUME NEW t \in Tunnels, LateFails(t) PROVE Typed'
  BY <1>1 DEF LateFails, Typed, status, screen
<1>2. ASSUME NEW id \in 1 .. nextId - 1, Suspends(id) PROVE Typed'
  <2>1. Event("state", id, 0) \in Seq(Events)
    BY StateIs DEF Event
  <2>2. events' \in Seq(Events)
    BY <1>2, <2>1 DEF Suspends, Typed
  <2>3. QED
    BY <1>2, <2>2 DEF Suspends, Typed, worker, status, screen
<1>3. QED
  BY <1>1, <1>2 DEF Murmurs

LEMMA TypedEnds ==
  ASSUME Typed, NEW id \in DOMAIN sessions, NEW es \in Seq(Events), Ends(id, es)
  PROVE  Typed'
<1>1. sessions \in Maps /\ sessions[id] \in Tunnels
  BY MapHas DEF Typed
<1>2. sessions' \in Maps /\ DOMAIN sessions' = DOMAIN sessions \ {id}
  BY <1>1, DropIs DEF Ends
<1>3. odd' \in Histories /\ faults' \in 0 .. MaxFaults
  <2>1. odd' \in Histories
    BY <1>1 DEF Ends, Typed, Histories
  <2>2. QED
    BY <2>1, FaultIs DEF Ends, Typed
<1>4. events' \in Seq(Events)
  BY DEF Ends, Typed
<1>5. QED
  BY <1>2, <1>3, <1>4 DEF Ends, Typed, status, screen

(* The events of the end of a session.                                      *)
LEMMA EndEvents ==
  ASSUME Typed, NEW id \in DOMAIN sessions
  PROVE  /\ Event("stopped", id, sessions[id]) \in Seq(Events)
         /\ Event("error", id, sessions[id]) \in Seq(Events)
         /\ Event("error", id, sessions[id]) \o Event("stopped", id, sessions[id]) \in Seq(Events)
<1>1. id \in Nat \ {0} /\ sessions[id] \in Tunnels /\ life \in Lives
  BY MapHas DEF Typed
<1>2. /\ Event("stopped", id, sessions[id]) \in Seq(Events)
      /\ Event("error", id, sessions[id]) \in Seq(Events)
  BY <1>1, EventIs DEF Told
<1>3. QED
  BY <1>2

LEMMA TypedSpawned ==
  ASSUME Typed, NEW stale \in SUBSET Nat, NEW orphans \in SUBSET Nat,
         Spawned(stale, orphans), Chained'
  PROVE  Typed'
<1>1. odd' \in Histories
  <2>1. Nothing \in Histories
    BY DEF Nothing, Histories
  <2>2. QED
    BY <2>1 DEF Spawned, Histories
<1>2. life' \in Lives /\ loop' \in 0 .. life'
  BY Constants DEF Spawned, Typed, Lives
<1>3. sessions' \in Maps /\ DOMAIN sessions' = {}
  BY EmptyMap DEF Spawned
<1>4. /\ up' = "starting" /\ nextId' = 1 /\ capped' = FALSE /\ late' = {} /\ events' = events
      /\ restartHidden' = restartHidden /\ loaded' = loaded /\ cards' = cards
      /\ blank' = blank /\ replay' = replay /\ errored' = errored /\ offers' = offers /\ faults' = faults
  BY DEF Spawned, status, screen
<1>5. {sessions', cards', replay'} \subseteq Maps /\ \A id \in DOMAIN sessions' : id < nextId'
  BY <1>3, <1>4 DEF Typed
<1>6. {capped', restartHidden', loaded'} \subseteq BOOLEAN /\ faults' \in 0 .. MaxFaults
  BY <1>4 DEF Typed
<1>7. QED
  BY <1>1, <1>2, <1>4, <1>5, <1>6 DEF Typed, Chained

\* Where the event at m was, and where it gets to, when one is put after the k-th.
Was(k, m)  == IF m <= k THEN m ELSE m - 1
Gets(k, m) == IF m <= k THEN m ELSE m + 1

Inserts(k) ==
    /\ events' \in Seq(Events) /\ Len(events) \in Nat /\ k \in 0 .. Len(events)
    /\ Len(events') = Len(events) + 1
    /\ DOMAIN events = 1 .. Len(events) /\ DOMAIN events' = 1 .. Len(events')
    /\ k + 1 \in DOMAIN events'
    /\ events'[k + 1] = [ev |-> "exit", id |-> 0, t |-> 0, life |-> life]
    /\ \A m \in DOMAIN events' :
          m = k + 1 \/ (Was(k, m) \in DOMAIN events /\ events'[m] = events[Was(k, m)])
    /\ \A m \in DOMAIN events :
          Gets(k, m) \in DOMAIN events' /\ events'[Gets(k, m)] = events[m]

ExitPut(k) ==
    events' = SubSeq(events, 1, k) \o Event("exit", 0, 0) \o SubSeq(events, k + 1, Len(events))

LEMMA Inserting ==
  ASSUME Typed, NEW k \in 0 .. Len(events), ExitPut(k)
  PROVE  Inserts(k)
<1> DEFINE x == [ev |-> "exit", id |-> 0, t |-> 0, life |-> life]
           n == Len(events)
           t == SubSeq(events, 1, k) \o <<x>> \o SubSeq(events, k + 1, Len(events))
<1>1. events \in Seq(Events) /\ n \in Nat /\ DOMAIN events = 1 .. n /\ k \in Nat /\ k <= n
  BY TypedSays
<1>2. x \in Events
  BY DEF Events, Typed
<1>3. events' = t
  BY DEF Event, ExitPut
<1> HIDE DEF x
<1>4. /\ events' \in Seq(Events) /\ Len(events') = n + 1
      /\ events'[k + 1] = x
      /\ \A m \in 1 .. k : events'[m] = events[m]
      /\ \A m \in k + 1 .. n : events'[m + 1] = events[m]
  <2>1. Placed(Events, events, x, k, t)
    BY <1>1, <1>2, Between, Zenon
  <2> HIDE DEF t
  <2>2. QED
    BY <1>3, <2>1, Zenon DEF Placed
<1>5. DOMAIN events' = 1 .. n + 1
  BY <1>1, <1>4
<1> HIDE DEF n
<1>6. \A m \in 1 .. n + 1 : m > k + 1 => events'[m] = events[m - 1]
  <2>1. ASSUME NEW m \in 1 .. n + 1, m > k + 1 PROVE events'[m] = events[m - 1]
    <3>1. m - 1 \in k + 1 .. n /\ (m - 1) + 1 = m
      BY <1>1, <2>1
    <3>2. QED
      BY <1>4, <3>1
  <2>2. QED
    BY <2>1
<1>7. \A m \in 1 .. n + 1 :
         m = k + 1 \/ (Was(k, m) \in 1 .. n /\ events'[m] = events[Was(k, m)])
  <2>1. ASSUME NEW m \in 1 .. n + 1, m # k + 1
        PROVE  Was(k, m) \in 1 .. n /\ events'[m] = events[Was(k, m)]
    <3>1. CASE m <= k
      <4>1. Was(k, m) = m /\ m \in 1 .. k /\ m \in 1 .. n
        BY <1>1, <3>1 DEF Was
      <4>2. QED
        BY <1>4, <4>1, Zenon
    <3>2. CASE ~(m <= k)
      <4>1. Was(k, m) = m - 1 /\ m > k + 1 /\ m - 1 \in 1 .. n
        BY <1>1, <2>1, <3>2 DEF Was
      <4>2. QED
        BY <1>6, <4>1, Zenon
    <3>3. QED
      BY <3>1, <3>2
  <2>2. QED
    BY <2>1
<1>8. \A m \in 1 .. n : Gets(k, m) \in 1 .. n + 1 /\ events'[Gets(k, m)] = events[m]
  <2>1. ASSUME NEW m \in 1 .. n
        PROVE  Gets(k, m) \in 1 .. n + 1 /\ events'[Gets(k, m)] = events[m]
    <3>1. CASE m <= k
      <4>1. Gets(k, m) = m /\ m \in 1 .. k /\ m \in 1 .. n + 1
        BY <1>1, <3>1 DEF Gets
      <4>2. QED
        BY <1>4, <4>1, Zenon
    <3>2. CASE ~(m <= k)
      <4>1. Gets(k, m) = m + 1 /\ m \in k + 1 .. n /\ m + 1 \in 1 .. n + 1
        BY <1>1, <3>2 DEF Gets
      <4>2. QED
        BY <1>4, <4>1, Zenon
    <3>3. QED
      BY <3>1, <3>2
  <2>2. QED
    BY <2>1
<1>9. k + 1 \in 1 .. n + 1
  BY <1>1
<1>10. QED
  BY <1>1, <1>4, <1>5, <1>7, <1>8, <1>9 DEF Inserts, x, n

LEMMA CrashIs ==
  ASSUME Typed, Crash
  PROVE  \E k \in Nat, d \in Nat : d <= k /\ Inserts(k) /\ Drains(d)
<1>1. PICK k \in 0 .. Len(events), d \in 0 .. Len(events) :
         /\ d <= k
         /\ chain' = [c \in Chains |->
                        IF Unread(chain[c], d)
                        THEN [chain[c] EXCEPT !.st = "failed", !.after = 0, !.got = <<>>]
                        ELSE chain[c]]
         /\ ExitPut(k)
  BY Zenon DEF Crash, ExitPut
<1>2. k \in Nat /\ d \in Nat
  OBVIOUS
<1>3. Drains(d)
  BY <1>1, <1>2, TypedSays, CrashDoes
<1>4. Inserts(k)
  BY <1>1, Inserting
<1>5. QED
  BY <1>1, <1>2, <1>3, <1>4

LEMMA TypedUps ==
  ASSUME Typed, Ready \/ Crash \/ Respawn
  PROVE  Typed'
<1>1. CASE Ready
  <2>1. events' \in Seq(Events)
    BY <1>1, SignalIs DEF Ready, Typed
  <2>2. QED
    BY <1>1, <2>1 DEF Ready, Typed, status, screen
<1>2. CASE Crash
  <2>1. events' \in Seq(Events) /\ Chained'
    BY <1>2, CrashIs DEF Inserts, Drains
  <2>2. QED
    BY <1>2, <2>1, EmptyMap DEF Crash, Typed, Chained, status, screen
<1>3. CASE Respawn
  <2>1. odd.stale \in SUBSET Nat /\ DOMAIN replay \in SUBSET Nat
    BY MapHas DEF Typed, Histories
  <2>2. Chained'
    BY <1>3 DEF Respawn, Typed, Chained
  <2>3. QED
    BY <1>3, <2>1, <2>2, TypedSpawned DEF Respawn
<1>4. QED
  BY <1>1, <1>2, <1>3

LEMMA AskDoes ==
  ASSUME Typed, NEW c \in Chains, NEW pc \in Steps, NEW i \in Nat,
         chain' = [chain EXCEPT ![c] = Ask(chain[c], pc, i)]
  PROVE  /\ Chained' /\ Others(c)
         /\ up # "up" => chain'[c] = Idle
         /\ up = "up" => LET q == chain'[c] IN
               /\ q.pc = pc /\ q.i = i /\ q.got = <<>> /\ q.st = "sent" /\ q.after = 0
               /\ q.life = life /\ q.born = chain[c].born
<1> DEFINE a == Ask(chain[c], pc, i)
<1>1. /\ a \in Calls
      /\ up # "up" => a = Idle
      /\ up = "up" => /\ a.pc = pc /\ a.i = i /\ a.got = <<>> /\ a.st = "sent"
                      /\ a.after = 0 /\ a.life = life /\ a.born = chain[c].born
  BY TypedSays, AskIs
<1>2. chain' = [chain EXCEPT ![c] = a]
  OBVIOUS
<1> HIDE DEF a
<1>3. Chained' /\ Others(c) /\ chain'[c] = a
  BY <1>1, <1>2, TypedSays, GotoDoes
<1>4. QED
  BY <1>1, <1>3

LEMMA EndsIdle ==
  ASSUME Typed, NEW c \in Chains, chain' = [chain EXCEPT ![c] = Idle]
  PROVE  Chained' /\ Others(c) /\ chain'[c] = Idle
  BY IdleIs, TypedSays, GotoDoes

LEMMA GoesOnDoes ==
  ASSUME Typed, NEW c \in Chains, NEW i \in 1 .. Len(Saved) + 1, NEW n \in Nat,
         NEW o \in Histories, GoesOn(c, i, n, o)
  PROVE  /\ Chained' /\ Others(c) /\ loop' \in 0 .. life /\ odd' \in Histories
         /\ n > Len(Saved) \/ up # "up" => chain'[c] = Idle /\ loop' = 0
         /\ n <= Len(Saved) /\ up = "up" =>
               LET q == chain'[c] IN
               /\ q.pc = "start" /\ q.i = n /\ q.got = <<>> /\ q.st = "sent" /\ q.after = 0
               /\ q.life = life /\ q.born = chain[c].born
               /\ loop' = IF loop = 0 THEN life ELSE loop
<1>1. n \in i .. Len(Saved) + 1 /\ Len(Saved) \in Nat /\ life \in Nat /\ loop \in 0 .. life
  BY Constants, TypedSays DEF GoesOn, Typed
<1>2. odd' \in Histories
  <2> DEFINE more == {t \in {Saved[j] : j \in i .. n - 1} : ~Alive(t)}
  <2>1. more \subseteq Tunnels
    BY <1>1, Constants
  <2>2. odd' = [o EXCEPT !.skipped = @ \cup more]
    BY DEF GoesOn
  <2> HIDE DEF more
  <2>3. QED
    BY <2>1, <2>2 DEF Histories
<1>3. CASE n > Len(Saved) \/ up # "up"
  <2>1. chain' = [chain EXCEPT ![c] = Idle] /\ loop' = 0
    BY <1>3 DEF GoesOn
  <2>2. ~(n <= Len(Saved) /\ up = "up")
    BY <1>1, <1>3
  <2>3. Chained' /\ Others(c) /\ chain'[c] = Idle
    BY <2>1, EndsIdle
  <2>4. QED
    BY <1>1, <1>2, <2>1, <2>2, <2>3
<1>4. CASE n <= Len(Saved) /\ up = "up"
  <2>1. /\ chain' = [chain EXCEPT ![c] = Ask(chain[c], "start", n)]
        /\ loop' = IF loop = 0 THEN life ELSE loop
    BY <1>4 DEF GoesOn
  <2>2. ~(n > Len(Saved) \/ up # "up")
    BY <1>1, <1>4
  <2>3. "start" \in Steps
    BY DEF Steps
  <2>4. /\ Chained' /\ Others(c)
        /\ LET q == chain'[c] IN
           /\ q.pc = "start" /\ q.i = n /\ q.got = <<>> /\ q.st = "sent" /\ q.after = 0
           /\ q.life = life /\ q.born = chain[c].born
    BY <1>4, <2>1, <2>3, AskDoes
  <2>5. QED
    BY <1>1, <1>2, <2>1, <2>2, <2>4
<1>5. QED
  BY <1>1, <1>3, <1>4

(* Either the chain ends here, or it starts the saved tunnels.              *)
LEMMA LimitedDoes ==
  ASSUME Typed, NEW c \in Chains, Limited(c)
  PROVE  /\ chain[c].pc = "limit" /\ chain[c].st \in {"ok", "failed"} /\ chain[c].after = 0
         /\ Chained' /\ Others(c) /\ odd' \in Histories /\ loop' \in 0 .. life
         /\ \/ /\ chain'[c] = Idle /\ loop' = loop
               /\ loop # 0 => odd' = [odd EXCEPT !.heldOff = @ \/ loop # life]
               /\ loop = 0 => odd' = odd /\ ~loaded'
            \/ loop = 0 /\ \E n \in Nat : GoesOn(c, 1, n, odd)
<1>1. odd \in Histories /\ loop \in 0 .. life
  BY DEF Typed
<1>2. autostartSaved(c, loaded')
  BY DEF Limited
<1>3. CASE loop # 0
  <2>1. /\ chain' = [chain EXCEPT ![c] = Idle] /\ loop' = loop
        /\ odd' = [odd EXCEPT !.heldOff = @ \/ loop # life]
    BY <1>2, <1>3 DEF autostartSaved, Goto
  <2>2. odd' \in Histories
    BY <1>1, <2>1 DEF Histories
  <2>3. QED
    BY <1>1, <1>3, <2>1, <2>2, EndsIdle DEF Limited, Arrived
<1>4. CASE loop = 0 /\ loaded'
  <2>1. StartFrom(c, 1, odd)
    BY <1>2, <1>4 DEF autostartSaved
  <2>2. 1 \in 1 .. Len(Saved) + 1
    BY Constants
  <2>3. PICK n \in Nat : GoesOn(c, 1, n, odd)
    BY <2>1, <2>2, StartFromIs
  <2>4. Chained' /\ Others(c) /\ odd' \in Histories /\ loop' \in 0 .. life
    BY <1>1, <2>2, <2>3, GoesOnDoes
  <2>5. QED
    BY <1>4, <2>3, <2>4 DEF Limited, Arrived
<1>5. CASE loop = 0 /\ ~loaded'
  <2>1. chain' = [chain EXCEPT ![c] = Idle] /\ loop' = loop /\ odd' = odd
    BY <1>2, <1>5 DEF autostartSaved, Goto
  <2>2. QED
    BY <1>1, <1>5, <2>1, EndsIdle DEF Limited, Arrived
<1>6. QED
  BY <1>3, <1>4, <1>5

LEMMA GoneIs ==
  ASSUME Typed, NEW c \in Chains
  PROVE  Gone(c) \subseteq DOMAIN chain[c].got /\ DOMAIN chain[c].got \subseteq Nat \ {0}
<1>1. chain[c].got \in Maps
  BY TypedSays, CallsAre
<1>2. QED
  BY <1>1, MapHas DEF Gone

(* What is remembered of a start, and where the chain goes on.              *)
LEMMA StartedDoes ==
  ASSUME Typed, CallsOK, NEW c \in Chains, Started(c)
  PROVE  LET new == DOMAIN chain[c].got
             o   == [odd EXCEPT !.orphans = (@ \ new) \cup Gone(c) \cup (new \cap errored)]
         IN /\ chain[c].pc = "start" /\ chain[c].st \in {"ok", "failed"} /\ chain[c].after = 0
            /\ Chained' /\ Others(c) /\ odd' \in Histories /\ loop' \in 0 .. life
            /\ odd'.orphans = o.orphans /\ replay' \in Maps
            /\ DOMAIN replay' = DOMAIN replay \cup new
            /\ \A id \in new : replay'[id] = chain[c].got[id]
            /\ \A id \in DOMAIN replay : id \notin new => replay'[id] = replay[id]
            /\ o \in Histories
            /\ \/ c = User /\ chain'[c] = Idle /\ loop' = loop /\ odd' = o
               \/ c # User /\ \E n \in Nat : GoesOn(c, chain[c].i + 1, n, o)
<1> DEFINE new == DOMAIN chain[c].got
           o   == [odd EXCEPT !.orphans = (@ \ new) \cup Gone(c) \cup (new \cap errored)]
<1>1. o \in Histories /\ o.orphans = (odd.orphans \ new) \cup Gone(c) \cup (new \cap errored)
  BY GoneIs DEF Typed, Histories
<1>2. /\ replay' \in Maps /\ DOMAIN replay' = DOMAIN replay \cup new
      /\ \A id \in new : replay'[id] = chain[c].got[id]
      /\ \A id \in DOMAIN replay : id \notin new => replay'[id] = replay[id]
  <2>1. replay \in Maps /\ chain[c].got \in Maps
    BY TypedSays, CallsAre
  <2>2. replay' = [id \in DOMAIN replay \cup new |->
                      IF id \in new THEN chain[c].got[id] ELSE replay[id]]
    BY DEF Started
  <2>3. QED
    BY <2>1, <2>2, OverlayIs
<1>3. /\ IF c = User THEN Goto(c, Idle) /\ odd' = o /\ UNCHANGED loop
         ELSE StartFrom(c, chain[c].i + 1, o)
      /\ chain[c].pc = "start" /\ chain[c].st \in {"ok", "failed"} /\ chain[c].after = 0
  BY DEF Started, Arrived
<1> HIDE DEF o
<1>4. CASE c = User
  <2>1. chain' = [chain EXCEPT ![c] = Idle] /\ odd' = o /\ loop' = loop
    BY <1>3, <1>4 DEF Goto
  <2>2. Chained' /\ Others(c) /\ chain'[c] = Idle /\ loop' \in 0 .. life
    BY <2>1, EndsIdle DEF Typed
  <2>3. QED
    BY <1>1, <1>2, <1>3, <1>4, <2>1, <2>2 DEF o
<1>5. CASE c # User
  <2>1. chain[c].i + 1 \in 1 .. Len(Saved) + 1
    BY <1>3, Constants DEF CallsOK, CallOK
  <2>2. PICK n \in Nat : GoesOn(c, chain[c].i + 1, n, o)
    BY <1>3, <1>5, <2>1, StartFromIs
  <2>3. Chained' /\ Others(c) /\ odd' \in Histories /\ loop' \in 0 .. life
    BY <1>1, <2>1, <2>2, GoesOnDoes
  <2>4. odd'.orphans = o.orphans
    BY <1>1, <2>2 DEF GoesOn, Histories
  <2>5. QED
    BY <1>1, <1>2, <1>3, <1>5, <2>2, <2>3, <2>4 DEF o
<1>6. QED
  BY <1>4, <1>5

LEMMA StepsAre == {"idle", "wait", "ping", "list", "limit", "start", "reconnect"} = Steps
  BY DEF Steps

LEMMA TypedSteps ==
  ASSUME Typed, CallsOK, NEW c \in Chains, Step(c)
  PROVE  Typed'
<1>1. {restartHidden, loaded} \subseteq BOOLEAN /\ up \in {"starting", "up", "down"}
  BY DEF Typed
<1>2. CASE WaitEnds(c)
  <2>1. Chained'
    BY <1>2, AskDoes, StepsAre DEF WaitEnds, Goto
  <2>2. restartHidden' \in BOOLEAN
    BY <1>1, <1>2 DEF WaitEnds
  <2>3. QED
    BY <1>2, <2>1, <2>2 DEF WaitEnds, Typed, Chained, worker, screen
<1>3. CASE GivesUp(c)
  <2>1. Chained'
    BY <1>3, EndsIdle DEF GivesUp, Goto
  <2>2. QED
    BY <1>3, <2>1 DEF GivesUp, Typed, Chained, worker, screen
<1>4. CASE Pinged(c)
  <2>1. Chained'
    BY <1>4, AskDoes, StepsAre DEF Pinged, Goto
  <2>2. QED
    BY <1>4, <2>1 DEF Pinged, Typed, Chained, worker, screen
<1>5. CASE Listed(c)
  <2>1. Chained'
    BY <1>5, AskDoes, StepsAre DEF Listed, Goto
  <2>2. cards' \in Maps
    <3>1. cards \in Maps /\ chain[c].got \in Maps
      BY TypedSays, CallsAre
    <3>2. QED
      BY <1>5, <3>1, OverlayIs DEF Listed
  <2>6. blank' \subseteq Nat \ {0} /\ blank' \cap DOMAIN cards' = {}
    <3>1. DOMAIN cards' = DOMAIN cards \cup DOMAIN chain[c].got
      BY <1>5 DEF Listed
    <3>2. blank' = blank \ DOMAIN chain[c].got
      BY <1>5 DEF Listed
    <3>3. QED
      BY <3>1, <3>2 DEF Typed
  <2>3. odd' \in Histories
    BY <1>5, GoneIs DEF Listed, Typed, Histories
  <2>4. loaded' \in BOOLEAN
    BY <1>1, <1>5 DEF Listed
  <2>5. QED
    BY <1>5, <2>1, <2>2, <2>3, <2>4, <2>6 DEF Listed, Typed, Chained, worker
<1>6. CASE Limited(c)
  <2>1. Chained' /\ odd' \in Histories /\ loop' \in 0 .. life
    BY <1>6, LimitedDoes
  <2>2. loaded' \in BOOLEAN
    BY <1>1, <1>6 DEF Limited
  <2>3. QED
    BY <1>6, <2>1, <2>2 DEF Limited, Typed, Chained, worker, screen
<1>7. CASE Started(c)
  <2>1. Chained' /\ odd' \in Histories /\ loop' \in 0 .. life /\ replay' \in Maps
    BY <1>7, StartedDoes
  <2>2. QED
    BY <1>7, <2>1 DEF Started, Typed, Chained, worker, status
<1>8. CASE Reconnected(c)
  <2>1. Chained'
    BY <1>8, EndsIdle DEF Reconnected, Goto
  <2>2. replay' \in Maps /\ odd' \in Histories
    <3>1. CASE chain[c].st = "ok"
      <4>1. replay' = Drop(replay, chain[c].i) /\ chain[c].i \in Nat
        BY <1>8, <3>1, TypedSays, CallsAre DEF Reconnected
      <4>2. odd' = [odd EXCEPT !.used = @ \cup {chain[c].i}]
        BY <1>8, <3>1 DEF Reconnected
      <4>3. odd' \in Histories
        BY <4>1, <4>2 DEF Typed, Histories
      <4>4. QED
        BY <4>1, <4>3, DropIs, TypedSays
    <3>2. CASE chain[c].st # "ok"
      BY <1>8, <3>2, TypedSays DEF Reconnected, Typed
    <3>3. QED
      BY <3>1, <3>2
  <2>3. QED
    BY <1>8, <2>1, <2>2 DEF Reconnected, Typed, Chained, worker, status
<1>9. QED
  BY <1>2, <1>3, <1>4, <1>5, <1>6, <1>7, <1>8 DEF Step

(* The buttons begin chains with the present worker.                        *)
LEMMA StartSavedDoes ==
  ASSUME Typed, NEW i \in 1 .. Len(Saved), StartSaved(i)
  PROVE  /\ Chained' /\ Others(User) /\ odd' \in Histories
         /\ LET q == chain'[User] IN
            /\ q.pc = "start" /\ q.i = i /\ q.got = <<>> /\ q.st = "sent" /\ q.after = 0
            /\ q.life = life /\ q.born = life
<1> DEFINE q == Ask([Idle EXCEPT !.born = life], "start", i)
<1>1. up = "up" /\ chain' = [chain EXCEPT ![User] = q]
  BY DEF StartSaved, Goto
<1>2. q = [pc |-> "start", i |-> i, st |-> "sent", after |-> 0, life |-> life, born |-> life,
           got |-> <<>>]
  BY <1>1 DEF Ask, Idle
<1>3. i \in Nat /\ User \in Chains /\ "start" \in Steps /\ <<>> \in Maps
  BY ChainNames, StepsAre, Constants, EmptyMap
<1> HIDE DEF q
<1>4. q \in Calls
  BY <1>2, <1>3, TypedSays DEF Calls
<1>5. odd' \in Histories
  BY Constants DEF StartSaved, Typed, Histories
<1>6. Chained' /\ Others(User) /\ chain'[User] = q
  BY <1>1, <1>3, <1>4, TypedSays, GotoDoes
<1>7. QED
  BY <1>2, <1>5, <1>6

LEMMA ReconnectDoes ==
  ASSUME Typed, NEW o \in offers, Reconnect(o)
  PROVE  /\ Chained' /\ Others(User) /\ odd' \in Histories /\ o.id \in DOMAIN replay
         /\ LET q == chain'[User] IN
            /\ q.pc = "reconnect" /\ q.i = o.id /\ q.st = "sent" /\ q.after = 0
            /\ DOMAIN q.got = {o.id} /\ q.got[o.id] = replay[o.id]
            /\ q.life = life /\ q.born = life
<1>1. o.id \in DOMAIN replay /\ o.id \in Nat \ {0} /\ replay[o.id] \in Tunnels
  BY MapHas DEF Reconnect, Typed
<1> DEFINE got == [id \in {o.id} |-> replay[id]]
           a   == Ask([Idle EXCEPT !.born = life], "reconnect", o.id)
           q   == [a EXCEPT !.got = got]
<1>2. got \in Maps /\ DOMAIN got = {o.id} /\ got[o.id] = replay[o.id]
  BY <1>1, MapMade
<1>3. up = "up" /\ chain' = [chain EXCEPT ![User] = q]
  BY DEF Reconnect, Goto
<1> HIDE DEF got
<1>4. q = [pc |-> "reconnect", i |-> o.id, st |-> "sent", after |-> 0, life |-> life,
           born |-> life, got |-> got]
  <2>1. a = [pc |-> "reconnect", i |-> o.id, st |-> "sent", after |-> 0, life |-> life,
             born |-> life, got |-> <<>>]
    BY <1>3 DEF Ask, Idle
  <2> HIDE DEF a
  <2>2. QED
    BY <2>1
<1> HIDE DEF q
<1>5. User \in Chains /\ "reconnect" \in Steps
  BY ChainNames, StepsAre
<1>6. q \in Calls
  BY <1>1, <1>2, <1>4, <1>5, TypedSays DEF Calls
<1>7. Chained' /\ Others(User) /\ chain'[User] = q
  BY <1>3, <1>5, <1>6, TypedSays, GotoDoes
<1>8. odd' \in Histories
  BY <1>1 DEF Reconnect, Typed, Histories
<1>9. QED
  BY <1>1, <1>2, <1>4, <1>7, <1>8

LEMMA RestartDoes ==
  ASSUME Typed, Restart
  PROVE  /\ Chained' /\ Others(Button) /\ life' = life + 1
         /\ LET q == chain'[Button] IN
            /\ q.pc = "wait" /\ q.i = 0 /\ q.got = <<>> /\ q.st = "none" /\ q.after = 0
            /\ q.life = 0 /\ q.born = life'
<1> DEFINE q == [Idle EXCEPT !.pc = "wait", !.born = life']
<1>1. life' \in Nat /\ life' = life + 1
  BY TypedSays DEF Restart, Spawned
<1>2. /\ q \in Calls /\ q.pc = "wait" /\ q.i = 0 /\ q.got = <<>> /\ q.st = "none"
      /\ q.after = 0 /\ q.life = 0 /\ q.born = life'
  BY <1>1, EmptyMap DEF Calls, Idle, Steps
<1>3. chain' = [chain EXCEPT ![Button] = q]
  BY DEF Restart, Goto
<1> HIDE DEF q
<1>4. QED
  BY <1>1, <1>2, <1>3, ChainNames, TypedSays, GotoDoes

LEMMA TypedButtons ==
  ASSUME Typed,
         \/ \E i \in 1 .. Len(Saved) : StartSaved(i)
         \/ \E o \in offers : Reconnect(o)
         \/ Restart
  PROVE  Typed'
<1>1. ASSUME NEW i \in 1 .. Len(Saved), StartSaved(i) PROVE Typed'
  <2>1. Chained' /\ odd' \in Histories
    BY <1>1, StartSavedDoes
  <2>2. faults' \in 0 .. MaxFaults
    BY <1>1, FaultIs DEF StartSaved, Typed
  <2>3. QED
    BY <1>1, <2>1, <2>2 DEF StartSaved, Typed, Chained, worker, status, screen
<1>2. ASSUME NEW o \in offers, Reconnect(o) PROVE Typed'
  <2>1. Chained' /\ odd' \in Histories
    BY <1>2, ReconnectDoes
  <2>2. QED
    BY <1>2, <2>1 DEF Reconnect, Typed, Chained, worker, status, screen
<1>3. CASE Restart
  <2>1. Chained'
    BY <1>3, RestartDoes
  <2>2. DOMAIN cards \cup blank \subseteq Nat /\ DOMAIN replay \subseteq Nat
    BY MapHas, TypedSays DEF Typed
  <2>3. QED
    BY <1>3, <2>1, <2>2, TypedSpawned DEF Restart
<1>4. QED
  BY <1>1, <1>2, <1>3

LEMMA OnReadyDoes ==
  ASSUME Typed, OnReady
  PROVE  LET c == <<"ready", e.life>> IN
         /\ c \in Chains /\ e.life \in Lives /\ Chained'
         /\ \A d \in Chains \ {c} : chain'[d] = Passed[d]
         /\ up # "up" => chain'[c] = Idle
         /\ up = "up" => LET q == chain'[c] IN
               /\ q.pc = "ping" /\ q.i = 0 /\ q.got = <<>> /\ q.st = "sent" /\ q.after = 0
               /\ q.life = life /\ q.born = life
<1> DEFINE c == <<"ready", e.life>>
           b == [Idle EXCEPT !.born = life]
           a == Ask(b, "ping", 0)
<1>1. e \in Events
  BY TypedSays, Delivered, Zenon DEF OnReady
<1>2. e.life \in Lives /\ c \in Chains
  BY <1>1, ChainNames DEF Events
<1>3. b \in Calls /\ b.born = life
  BY IdleIs, TypedSays DEF Calls
<1>4. chain' = [Passed EXCEPT ![c] = a]
  BY DEF OnReady
<1> HIDE DEF b, c
<1>5. /\ a \in Calls
      /\ up # "up" => a = Idle
      /\ up = "up" => /\ a.pc = "ping" /\ a.i = 0 /\ a.got = <<>> /\ a.st = "sent"
                      /\ a.after = 0 /\ a.life = life /\ a.born = life
  <2>1. "ping" \in Steps /\ 0 \in Nat /\ life \in Nat
    BY TypedSays DEF Steps
  <2>2. QED
    BY <1>3, <2>1, AskIs
<1> HIDE DEF a
<1>6. Passed \in [Chains -> Calls]
  BY TypedSays, PassedDoes
<1>7. Chained' /\ chain'[c] = a /\ \A d \in Chains \ {c} : chain'[d] = Passed[d]
  BY <1>2, <1>4, <1>5, <1>6 DEF Chained
<1>8. /\ c \in Chains /\ e.life \in Lives /\ Chained'
      /\ \A d \in Chains \ {c} : chain'[d] = Passed[d]
      /\ up # "up" => chain'[c] = Idle
      /\ up = "up" => LET q == chain'[c] IN
            /\ q.pc = "ping" /\ q.i = 0 /\ q.got = <<>> /\ q.st = "sent" /\ q.after = 0
            /\ q.life = life /\ q.born = life
  BY <1>2, <1>5, <1>7
<1>9. QED
  BY <1>8, Zenon DEF c

(* The event that tells of a session.                                       *)
LEMMA Telling ==
  ASSUME Typed, NEW name \in Told, Delivers(name)
  PROVE  e.id \in Nat \ {0} /\ e.t \in Tunnels /\ e.life \in Lives /\ events' \in Seq(Events)
<1>1. e \in Events /\ e.ev = name /\ events' \in Seq(Events)
  BY TypedSays, Delivered, Zenon
<1>2. ASSUME NEW x \in Events, x.ev \in Told
      PROVE  x.id \in Nat \ {0} /\ x.t \in Tunnels /\ x.life \in Lives
  BY <1>2 DEF Events, Told
<1>3. QED
  BY <1>1, <1>2, Zenon

LEMMA TellingState ==
  ASSUME Typed, Delivers("state")
  PROVE  e.id \in Nat \ {0} /\ e.life \in Lives /\ events' \in Seq(Events)
<1>1. e \in Events /\ e.ev = "state" /\ events' \in Seq(Events)
  BY TypedSays, Delivered, Zenon
<1>2. ASSUME NEW x \in Events, x.ev = "state"
      PROVE  x.id \in Nat \ {0} /\ x.life \in Lives
  BY <1>2 DEF Events, Told
<1>3. QED
  BY <1>1, <1>2, Zenon

LEMMA TypedEvents ==
  ASSUME Typed, OnReady \/ OnExit \/ OnUpdate \/ OnState \/ OnError \/ OnStopped
  PROVE  Typed'
<1>1. up \in {"starting", "up", "down"} /\ {restartHidden, loaded} \subseteq BOOLEAN
  BY DEF Typed
<1>2. Passed \in [Chains -> Calls]
  BY TypedSays, PassedDoes
<1>3. CASE OnReady
  <2>1. Chained' /\ events' \in Seq(Events)
    BY <1>3, OnReadyDoes, TypedSays, Delivered, Zenon DEF OnReady
  <2>2. restartHidden' \in BOOLEAN
    BY <1>1, <1>3 DEF OnReady
  <2>3. UNCHANGED <<worker, loaded, screen, loop, faults, odd>>
    BY <1>3 DEF OnReady
  <2>4. QED
    BY <2>1, <2>2, <2>3 DEF Typed, Chained, worker, screen
<1>4. CASE OnExit
  <2>1. events' \in Seq(Events)
    BY <1>4, TypedSays, Delivered, Zenon DEF OnExit
  <2>2. odd' \in Histories
    BY <1>4 DEF OnExit, Typed, Histories
  <2>3. /\ UNCHANGED <<worker, loaded, offers, loop, faults>> /\ chain' = Passed
        /\ restartHidden' = FALSE /\ cards' = <<>> /\ blank' = {} /\ replay' = <<>>
        /\ errored' = {}
    BY <1>4 DEF OnExit
  <2>4. QED
    BY <1>2, <2>1, <2>2, <2>3, EmptyMap DEF Typed, worker
<1>5. CASE OnUpdate
  <2>1. e.id \in Nat \ {0} /\ e.t \in Tunnels /\ events' \in Seq(Events)
    BY <1>5, Telling DEF OnUpdate, Told
  <2>2. odd' \in Histories
    BY <1>5, <2>1 DEF OnUpdate, Typed, Histories
  <2>3. cards' \in Maps /\ blank' \subseteq Nat \ {0} /\ blank' \cap DOMAIN cards' = {}
    <3>1. cards' \in Maps /\ DOMAIN cards' = DOMAIN cards \cup {e.id}
      BY <1>5, <2>1, TypedSays, PutIs DEF OnUpdate
    <3>2. blank' = blank \ {e.id}
      BY <1>5 DEF OnUpdate
    <3>3. QED
      BY <3>1, <3>2 DEF Typed
  <2>4. QED
    BY <1>2, <1>5, <2>1, <2>2, <2>3 DEF OnUpdate, Typed, worker, status
<1>9. CASE OnState
  <2>1. e.id \in Nat \ {0} /\ events' \in Seq(Events)
    BY <1>9, TellingState DEF OnState
  <2>2. blank' \subseteq Nat \ {0} /\ blank' \cap DOMAIN cards = {}
    BY <1>9, <2>1 DEF OnState, Draws, Typed
  <2>3. odd' \in Histories
    BY <1>9, <2>1 DEF OnState, Typed, Histories
  <2>4. QED
    BY <1>2, <1>9, <2>1, <2>2, <2>3 DEF OnState, Typed, worker, status
<1>6. CASE OnError
  <2>1. /\ e.id \in Nat \ {0} /\ e.t \in Tunnels /\ e.life \in Lives
        /\ events' \in Seq(Events)
    BY <1>6, Telling DEF OnError, Told
  <2>2. blank' \subseteq Nat \ {0} /\ blank' \cap DOMAIN cards = {}
    BY <1>6, <2>1 DEF OnError, Draws, Typed
  <2>3. Offer \subseteq [id : Nat \ {0}, t : Tunnels, life : Lives]
    BY <2>1 DEF Offer
  <2>4. errored' \subseteq Nat /\ offers' \subseteq [id : Nat \ {0}, t : Tunnels, life : Lives]
    BY <1>6, <2>1, <2>3 DEF OnError, Typed
  <2>5. QED
    BY <1>2, <1>6, <2>1, <2>2, <2>4 DEF OnError, Typed, worker, status
<1>7. CASE OnStopped
  <2>1. events' \in Seq(Events)
    BY <1>7, Telling DEF OnStopped, Told
  <2>2. odd' \in Histories
    BY <1>7 DEF OnStopped, Typed, Histories
  <2>3. /\ cards' \in Maps /\ replay' \in Maps
        /\ blank' \subseteq Nat \ {0} /\ blank' \cap DOMAIN cards' = {}
    <3>1. cards' \in Maps /\ DOMAIN cards' \subseteq DOMAIN cards /\ replay' \in Maps
      <4>1. cards' = Drop(cards, e.id) /\ (replay' = replay \/ replay' = Drop(replay, e.id))
        BY <1>7 DEF OnStopped
      <4>2. cards \in Maps /\ replay \in Maps
        BY TypedSays
      <4>3. cards' \in Maps /\ DOMAIN cards' = DOMAIN cards \ {e.id}
        BY <4>1, <4>2, DropIs
      <4>4. replay' \in Maps
        <5>1. Drop(replay, e.id) \in Maps
          BY <4>2, DropIs
        <5>2. QED
          BY <4>1, <4>2, <5>1
      <4>5. QED
        BY <4>3, <4>4
    <3>2. blank' = blank \ {e.id}
      BY <1>7 DEF OnStopped
    <3>3. QED
      BY <3>1, <3>2 DEF Typed
  <2>4. errored' \subseteq Nat
    BY <1>7 DEF OnStopped, Typed
  <2>5. QED
    BY <1>2, <1>7, <2>1, <2>2, <2>3, <2>4 DEF OnStopped, Typed, worker, status
<1>8. QED
  BY <1>3, <1>4, <1>5, <1>6, <1>7, <1>9

LEMMA TypedStep ==
  ASSUME Typed, CallsOK, [Next]_vars
  PROVE  Typed'
<1>1. ASSUME NEW c \in Chains,
             Answers(c) \/ StartsTunnel(c) \/ StartFails(c) \/ TimeOut(c) \/ Step(c)
      PROVE  Typed'
  BY <1>1, TypedAnswers, TypedStartsTunnel, TypedStartFails, TypedTimeOut, TypedSteps
<1>2. ASSUME NEW t \in Tunnels, StartsLate(t) PROVE Typed'
  BY <1>2, TypedStartsLate
<1>3. ASSUME NEW id \in DOMAIN sessions, SessionFails(id) \/ Stop(id) PROVE Typed'
  BY <1>3, EndEvents, TypedEnds DEF SessionFails, Stop
<1>4. CASE Ready \/ Crash \/ Respawn
  BY <1>4, TypedUps
<1>5. CASE \/ \E i \in 1 .. Len(Saved) : StartSaved(i)
           \/ \E o \in offers : Reconnect(o)
           \/ Restart
  BY <1>5, TypedButtons
<1>6. CASE OnReady \/ OnExit \/ OnUpdate \/ OnState \/ OnError \/ OnStopped
  BY <1>6, TypedEvents
<1>7. CASE UNCHANGED vars
  BY <1>7 DEF vars, worker, status, screen, Typed
<1>8. CASE Murmurs
  BY <1>8, TypedMurmurs
<1>9. QED
  BY <1>1, <1>2, <1>3, <1>4, <1>5, <1>6, <1>7, <1>8 DEF Next, Murmurs


-----------------------------------------------------------------------------
(* The calls.                                                               *)

(* The worker stays, and what it wrote.                                     *)
Stays == life' = life /\ up' = up /\ Len(events') \in Nat /\ Len(events) <= Len(events')

LEMMA CallsKept ==
  ASSUME Typed, CallsOK, Stays, NEW c \in Chains, Others(c), CallOK(chain[c])',
         chain'[c].pc = "reconnect" => c = User,
         c = User => chain'[c].pc \in {"idle", "start", "reconnect"}
  PROVE  CallsOK'
<1>1. ASSUME NEW d \in Chains PROVE CallOK(chain[d])'
  <2>1. CASE d = c
    BY <2>1
  <2>2. CASE d # c
    <3>1. chain'[d] = chain[d] /\ CallOK(chain[d]) /\ chain[d] \in Calls
      BY <2>2, TypedSays DEF Others, CallsOK
    <3>2. chain[d].after <= Len(events')
      BY <3>1, TypedSays, CallsAre DEF CallOK, Stays
    <3>3. QED
      BY <3>1, <3>2 DEF CallOK, Stays
  <2>3. QED
    BY <2>1, <2>2
<1>2. \A d \in Chains : chain'[d].pc = "reconnect" => d = User
  BY DEF Others, CallsOK
<1>3. chain'[User].pc \in {"idle", "start", "reconnect"}
  BY ChainNames DEF Others, CallsOK
<1>4. QED
  BY <1>1, <1>2, <1>3 DEF CallsOK

(* A call is answered, or fails.                                            *)
LEMMA CallEnds ==
  ASSUME Typed, CallsOK, Stays, NEW c \in Chains, Others(c), chain[c].st = "sent",
         LET r == chain[c] q == chain'[c] IN
            /\ q.pc = r.pc /\ q.i = r.i /\ q.life = r.life /\ q.born = r.born
            /\ q.st \in {"ok", "failed"} /\ q.after <= Len(events')
            /\ q.st = "ok" => r.life = life
            /\ q.st = "failed" => DOMAIN q.got = {}
  PROVE  CallsOK'
<1>1. CallOK(chain[c]) /\ chain[c] \in Calls
  BY TypedSays DEF CallsOK
<1>2. CallOK(chain[c])'
  BY <1>1, CallsAre DEF CallOK, Stays
<1>3. QED
  BY <1>2, CallsKept DEF CallsOK

(* A chain ends, or makes its next call.                                    *)
Turns(c) ==
    /\ Others(c)
    /\ \/ chain'[c] = Idle
       \/ LET q == chain'[c] IN
          /\ up = "up" /\ q.st = "sent" /\ q.after = 0 /\ q.life = life /\ q.born <= life
          /\ \/ q.pc \in {"ping", "list", "limit"} /\ c # User
             \/ q.pc = "start" /\ q.i \in 1 .. Len(Saved)
             \/ q.pc = "reconnect" /\ c = User /\ q.i \in DOMAIN q.got

LEMMA CallTurns ==
  ASSUME Typed, CallsOK, Stays, NEW c \in Chains, Turns(c)
  PROVE  CallsOK'
<1>1. life \in Nat /\ Len(events) \in Nat
  BY TypedSays
<1>2. CASE chain'[c] = Idle
  <2>1. CallOK(Idle)'
    BY <1>1, IdleIs DEF CallOK, Stays
  <2>2. QED
    BY <1>2, <2>1, IdleIs, CallsKept DEF Turns
<1>3. CASE chain'[c] # Idle
  <2>1. CallOK(chain[c])'
    BY <1>1, <1>3 DEF CallOK, Stays, Turns
  <2>2. QED
    BY <1>3, <2>1, CallsKept DEF Turns
<1>4. QED
  BY <1>2, <1>3

LEMMA Staying ==
  ASSUME Typed, life' = life, up' = up,
         events' = events \/ \E es \in Seq(Events) : events' = events \o es
  PROVE  Stays
<1>1. events \in Seq(Events) /\ Len(events) \in Nat
  BY TypedSays
<1>2. ASSUME NEW es \in Seq(Events), events' = events \o es
      PROVE  Len(events') \in Nat /\ Len(events) <= Len(events')
  <2>1. Len(es) \in Nat /\ Len(events') = Len(events) + Len(es)
    BY <1>1, <1>2, Appended
  <2>2. QED
    BY <1>1, <2>1
<1>3. QED
  BY <1>1, <1>2 DEF Stays

(* A chain goes on from where it was.                                       *)
LEMMA Turning ==
  ASSUME Typed, CallsOK, NEW c \in Chains, Step(c)
  PROVE  /\ Turns(c) /\ Chained' /\ life' = life /\ up' = up /\ events' = events
         /\ chain'[c] # Idle => chain'[c].born = chain[c].born
         /\ chain[c].st # "sent" /\ chain[c].pc # "idle"
<1>1. chain[c] \in Calls /\ CallOK(chain[c]) /\ life \in Nat
  BY TypedSays DEF CallsOK
<1>2. chain[c].born <= life /\ chain[c].pc = "reconnect" => c = User
  BY <1>1 DEF CallsOK, CallOK
<1>3. c = User => chain[c].pc \in {"idle", "start", "reconnect"}
  BY DEF CallsOK
<1>4. ASSUME NEW pc \in {"ping", "list", "limit"}, c # User,
             chain' = [chain EXCEPT ![c] = Ask(chain[c], pc, 0)]
      PROVE  Turns(c) /\ Chained' /\ (chain'[c] # Idle => chain'[c].born = chain[c].born)
  <2>1. pc \in Steps /\ 0 \in Nat
    BY DEF Steps
  <2>2. /\ Chained' /\ Others(c)
        /\ up # "up" => chain'[c] = Idle
        /\ up = "up" => LET q == chain'[c] IN
              /\ q.pc = pc /\ q.i = 0 /\ q.got = <<>> /\ q.st = "sent" /\ q.after = 0
              /\ q.life = life /\ q.born = chain[c].born
    BY <1>4, <2>1, AskDoes
  <2>3. QED
    BY <1>1, <1>4, <2>2 DEF Turns, CallOK
<1>5. ASSUME NEW n \in Nat, NEW i \in 1 .. Len(Saved) + 1, NEW o \in Histories,
             GoesOn(c, i, n, o)
      PROVE  Turns(c) /\ (chain'[c] # Idle => chain'[c].born = chain[c].born)
  <2>1. n \in i .. Len(Saved) + 1 /\ Len(Saved) \in Nat
    BY <1>5, Constants DEF GoesOn
  <2>2. /\ Others(c)
        /\ n > Len(Saved) \/ up # "up" => chain'[c] = Idle
        /\ n <= Len(Saved) /\ up = "up" =>
               LET q == chain'[c] IN
               /\ q.pc = "start" /\ q.i = n /\ q.st = "sent" /\ q.after = 0
               /\ q.life = life /\ q.born = chain[c].born
    BY <1>5, GoesOnDoes
  <2>3. QED
    BY <1>1, <2>1, <2>2 DEF Turns, CallOK
<1>6. CASE WaitEnds(c)
  BY <1>1, <1>3, <1>4, <1>6 DEF WaitEnds, Goto, worker, CallOK
<1>7. CASE GivesUp(c)
  BY <1>7, EndsIdle DEF GivesUp, Goto, worker, Arrived, Turns
<1>8. CASE Pinged(c)
  BY <1>3, <1>4, <1>8 DEF Pinged, Goto, worker, Arrived
<1>9. CASE Listed(c)
  BY <1>3, <1>4, <1>9 DEF Listed, Goto, worker, Arrived
<1>10. CASE Limited(c)
  <2>1. 1 \in 1 .. Len(Saved) + 1 /\ odd \in Histories
    BY Constants DEF Typed
  <2>2. /\ Chained' /\ Others(c) /\ chain[c].st # "sent" /\ chain[c].pc # "idle"
        /\ chain'[c] = Idle \/ \E n \in Nat : GoesOn(c, 1, n, odd)
    BY <1>10, LimitedDoes
  <2>3. QED
    BY <1>5, <1>10, <2>1, <2>2 DEF Limited, worker, Turns
<1>11. CASE Started(c)
  <2>1. chain[c].i + 1 \in 1 .. Len(Saved) + 1
    <3>1. chain[c].pc = "start"
      BY <1>11 DEF Started, Arrived
    <3>2. chain[c].i \in 1 .. Len(Saved)
      BY <1>1, <3>1 DEF CallOK
    <3>3. QED
      BY <3>2, Constants
  <2>2. /\ Chained' /\ Others(c) /\ chain[c].st # "sent" /\ chain[c].pc # "idle"
        /\ chain'[c] = Idle \/ \E n \in Nat, o \in Histories : GoesOn(c, chain[c].i + 1, n, o)
    BY <1>11, StartedDoes
  <2>3. QED
    BY <1>5, <1>11, <2>1, <2>2 DEF Started, worker, Turns
<1>12. CASE Reconnected(c)
  BY <1>12, EndsIdle DEF Reconnected, Goto, worker, Arrived, Turns
<1>13. QED
  BY <1>6, <1>7, <1>8, <1>9, <1>10, <1>11, <1>12 DEF Step

-----------------------------------------------------------------------------
(* What the worker does.                                                    *)

Written(name, id, t) == [ev |-> name, id |-> id, t |-> t, life |-> life]

\* One event follows the others, or more.
Adds(es) ==
    /\ events' \in Seq(Events) /\ Len(events) \in Nat
    /\ Len(events') = Len(events) + Len(es)
    /\ DOMAIN events = 1 .. Len(events) /\ DOMAIN events' = 1 .. Len(events')
    /\ \A k \in DOMAIN events : k \in DOMAIN events' /\ events'[k] = events[k]
    /\ \A k \in DOMAIN events' : k \in DOMAIN events \/ k \in Len(events) + 1 .. Len(events')
    /\ \A k \in 1 .. Len(es) : events'[Len(events) + k] = es[k]

LEMMA Adding ==
  ASSUME Typed, NEW es \in Seq(Events), events' = events \o es
  PROVE  Adds(es)
<1>1. events \in Seq(Events)
  BY TypedSays
<1>2. /\ events' \in Seq(Events) /\ Len(events) \in Nat /\ Len(es) \in Nat
      /\ Len(events') = Len(events) + Len(es)
      /\ DOMAIN events = 1 .. Len(events) /\ DOMAIN events' = 1 .. Len(events')
      /\ \A k \in DOMAIN events : k \in DOMAIN events' /\ events'[k] = events[k]
      /\ \A k \in 1 .. Len(es) : events'[Len(events) + k] = es[k]
  BY <1>1, Appended
<1>3. QED
  BY <1>2 DEF Adds

\* The event x is the only one that follows.
Writes(x) ==
    /\ events' \in Seq(Events) /\ Len(events) \in Nat /\ Len(events') = Len(events) + 1
    /\ DOMAIN events = 1 .. Len(events) /\ DOMAIN events' = 1 .. Len(events')
    /\ \A k \in DOMAIN events : k \in DOMAIN events' /\ k # Len(events') /\ events'[k] = events[k]
    /\ \A k \in DOMAIN events' : k \in DOMAIN events \/ k = Len(events')
    /\ Len(events') \in DOMAIN events' /\ events'[Len(events')] = x

LEMMA Writing ==
  ASSUME Typed, NEW x \in Events, events' = events \o <<x>>
  PROVE  Writes(x)
<1>1. Adds(<<x>>)
  <2>1. <<x>> \in Seq(Events)
    OBVIOUS
  <2>2. QED
    BY <2>1, Adding
<1>2. Len(<<x>>) = 1 /\ <<x>>[1] = x
  OBVIOUS
<1>3. events'[Len(events) + 1] = x
  BY <1>1, <1>2 DEF Adds
<1>4. QED
  BY <1>1, <1>2, <1>3 DEF Adds, Writes

\* The answer st of c comes after the present events.
Ending(c, st) ==
    /\ Chained' /\ Others(c) /\ chain[c].st = "sent"
    /\ LET r == chain[c] q == chain'[c] IN
       /\ q.pc = r.pc /\ q.i = r.i /\ q.life = r.life /\ q.born = r.born
       /\ q.st = st

LEMMA AnswersDoes ==
  ASSUME Typed, NEW c \in Chains, Answers(c)
  PROVE  /\ Ending(c, "ok") /\ up = "up" /\ chain[c].life = life /\ ~Starts(c)
         /\ chain'[c].after = Len(events)
         /\ chain'[c].got = (IF chain[c].pc = "list" THEN sessions ELSE <<>>)
         /\ events' = events /\ life' = life /\ up' = up
<1> DEFINE got == IF chain[c].pc = "list" THEN sessions ELSE <<>>
<1>1. Answer(c, "ok", got, <<>>) /\ Asks(c) /\ ~Starts(c) /\ life' = life /\ up' = up
  BY DEF Answers
<1>2. got \in Maps /\ <<>> \in Seq(Events)
  BY EmptyMap, TypedSays
<1>3. got = (IF chain[c].pc = "list" THEN sessions ELSE <<>>)
  OBVIOUS
<1> HIDE DEF got
<1>4. /\ Chained' /\ Others(c)
      /\ LET r == chain[c] q == chain'[c] IN
         /\ q.pc = r.pc /\ q.i = r.i /\ q.life = r.life /\ q.born = r.born
         /\ q.st = "ok" /\ q.got = got /\ q.after = Len(events')
      /\ events' = events \o <<>>
  BY <1>1, <1>2, TypedSays, AnswerDoes
<1>5. events' = events
  BY <1>4, TypedSays
<1>6. QED
  BY <1>1, <1>3, <1>4, <1>5 DEF Asks, Ending

LEMMA StartsTunnelDoes ==
  ASSUME Typed, CallsOK, NEW c \in Chains, StartsTunnel(c)
  PROVE  LET t == Target(chain[c]) IN
         /\ t \in Tunnels /\ Ending(c, "ok") /\ up = "up" /\ chain[c].life = life /\ Starts(c)
         /\ chain'[c].after = Len(events') /\ DOMAIN chain'[c].got = {nextId}
         /\ chain'[c].got[nextId] = t
         /\ NewSession(t) /\ Writes(Written("update", nextId, t))
         /\ Len(events') \in Nat /\ life' = life /\ up' = up
<1> DEFINE t   == Target(chain[c])
           got == [i \in {nextId} |-> t]
<1>1. t \in Tunnels /\ nextId \in Nat \ {0} /\ life \in Lives
  BY TargetIs DEF StartsTunnel, Asks, CallsOK, Typed
<1>2. /\ NewSession(t) /\ Answer(c, "ok", got, Event("update", nextId, t)) /\ Asks(c)
      /\ Starts(c) /\ life' = life /\ up' = up
  BY DEF StartsTunnel
<1> HIDE DEF t
<1>3. got \in Maps /\ DOMAIN got = {nextId} /\ got[nextId] = t
  BY <1>1, OneIs
<1> HIDE DEF got
<1>4. Event("update", nextId, t) \in Seq(Events)
  BY <1>1, EventIs DEF Told
<1>5. /\ Chained' /\ Others(c)
      /\ LET r == chain[c] q == chain'[c] IN
         /\ q.pc = r.pc /\ q.i = r.i /\ q.life = r.life /\ q.born = r.born
         /\ q.st = "ok" /\ q.got = got /\ q.after = Len(events')
      /\ events' = events \o Event("update", nextId, t)
  BY <1>2, <1>3, <1>4, TypedSays, AnswerDoes
<1>6. Written("update", nextId, t) \in Events
  BY <1>1 DEF Written, Told, Events
<1>7. Writes(Written("update", nextId, t))
  BY <1>5, <1>6, Writing DEF Event, Written
<1>8. Len(events') \in Nat
  BY <1>7 DEF Writes
<1>9. QED
  BY <1>1, <1>2, <1>3, <1>5, <1>7, <1>8 DEF t, Ending, Asks

LEMMA StartFailsDoes ==
  ASSUME Typed, NEW c \in Chains, StartFails(c)
  PROVE  /\ Ending(c, "failed") /\ up = "up" /\ chain[c].life = life /\ Starts(c)
         /\ chain'[c].after = Len(events) /\ chain'[c].got = <<>>
         /\ events' = events /\ life' = life /\ up' = up
<1>1. Answer(c, "failed", <<>>, <<>>) /\ Asks(c) /\ Starts(c) /\ life' = life /\ up' = up
  BY DEF StartFails, worker
<1>2. <<>> \in Maps /\ <<>> \in Seq(Events)
  BY EmptyMap
<1>3. /\ Chained' /\ Others(c)
      /\ LET r == chain[c] q == chain'[c] IN
         /\ q.pc = r.pc /\ q.i = r.i /\ q.life = r.life /\ q.born = r.born
         /\ q.st = "failed" /\ q.got = <<>> /\ q.after = Len(events')
      /\ events' = events \o <<>>
  BY <1>1, <1>2, TypedSays, AnswerDoes
<1>4. events' = events
  BY <1>3, TypedSays
<1>5. QED
  BY <1>1, <1>3, <1>4 DEF Asks, Ending

LEMMA StartsLateDoes ==
  ASSUME Typed, NEW t \in Tunnels, StartsLate(t)
  PROVE  /\ NewSession(t) /\ Writes(Written("update", nextId, t)) /\ up = "up"
         /\ life' = life /\ up' = up
<1>1. Written("update", nextId, t) \in Events
  BY DEF Written, Told, Events, Typed
<1>2. QED
  BY <1>1, Writing DEF StartsLate, Event, Written

(* A session ends: the events of that, the last of which says so.           *)
LEMMA EndsDoes ==
  ASSUME Typed, NEW id \in DOMAIN sessions, SessionFails(id) \/ Stop(id)
  PROVE  /\ sessions' \in Maps /\ DOMAIN sessions' = DOMAIN sessions \ {id}
         /\ \A j \in DOMAIN sessions' : sessions'[j] = sessions[j]
         /\ events' \in Seq(Events) /\ Len(events) \in Nat /\ Len(events') \in Nat
         /\ Len(events') > Len(events)
         /\ DOMAIN events = 1 .. Len(events) /\ DOMAIN events' = 1 .. Len(events')
         /\ \A k \in DOMAIN events : k \in DOMAIN events' /\ events'[k] = events[k]
         /\ Len(events') \in DOMAIN events' \ DOMAIN events
         /\ events'[Len(events')] = Written("stopped", id, sessions[id])
         /\ \A k \in DOMAIN events' : \/ k \in DOMAIN events \/ k = Len(events')
                                      \/ events'[k] = Written("error", id, sessions[id])
         /\ odd' = [odd EXCEPT !.touched = @ \cup {sessions[id]}]
         /\ UNCHANGED <<life, up, nextId, capped, late, status, screen, loop, chain>>
<1> DEFINE x == Written("stopped", id, sessions[id])
           y == Written("error", id, sessions[id])
<1>1. id \in Nat \ {0} /\ sessions[id] \in Tunnels /\ life \in Lives
  BY MapHas DEF Typed
<1>2. x \in Events /\ y \in Events
  BY <1>1 DEF Written, Told, Events
<1>3. CASE SessionFails(id)
  <2>1. Ends(id, <<y>> \o <<x>>)
    BY <1>3 DEF SessionFails, Event, Written
  <2> HIDE DEF x, y
  <2>2. LET es == <<y>> \o <<x>> IN
        es \in Seq(Events) /\ Len(es) = 2 /\ es[1] = y /\ es[2] = x
    <3>1. <<y>> \in Seq(Events) /\ <<x>> \in Seq(Events)
      BY <1>2
    <3>2. Len(<<y>>) = 1 /\ Len(<<x>>) = 1 /\ <<y>>[1] = y /\ <<x>>[1] = x
      OBVIOUS
    <3>3. QED
      BY <3>1, <3>2, ConcatProperties
  <2> DEFINE es == <<y>> \o <<x>>
  <2>3. es \in Seq(Events) /\ Len(es) = 2 /\ es[1] = y /\ es[2] = x /\ Ends(id, es)
    BY <2>1, <2>2
  <2> HIDE DEF es
  <2>4. Adds(es)
    BY <2>3, Adding DEF Ends
  <2>5. /\ events'[Len(events) + 1] = y /\ events'[Len(events) + 2] = x
        /\ Len(events') = Len(events) + 2 /\ Len(events) \in Nat
    BY <2>3, <2>4 DEF Adds
  <2>6. /\ Len(events') \in DOMAIN events' \ DOMAIN events /\ events'[Len(events')] = x
        /\ \A k \in DOMAIN events' : \/ k \in DOMAIN events \/ k = Len(events')
                                     \/ events'[k] = y
    BY <2>4, <2>5 DEF Adds
  <2>7. /\ sessions' \in Maps /\ DOMAIN sessions' = DOMAIN sessions \ {id}
        /\ \A j \in DOMAIN sessions' : sessions'[j] = sessions[j]
    <3>1. sessions' = Drop(sessions, id) /\ sessions \in Maps
      BY <2>1, TypedSays DEF Ends
    <3>2. QED
      BY <3>1, DropIs, ZenonT(30)
  <2>8. QED
    BY <2>1, <2>4, <2>5, <2>6, <2>7 DEF Ends, Adds, x, y
<1>4. CASE Stop(id)
  <2>1. Ends(id, <<x>>)
    BY <1>4 DEF Stop, Event, Written
  <2> HIDE DEF x, y
  <2>2. Writes(x)
    BY <1>2, <2>1, Writing DEF Ends
  <2>3. /\ sessions' \in Maps /\ DOMAIN sessions' = DOMAIN sessions \ {id}
        /\ \A j \in DOMAIN sessions' : sessions'[j] = sessions[j]
    <3>1. sessions' = Drop(sessions, id) /\ sessions \in Maps
      BY <2>1, TypedSays DEF Ends
    <3>2. QED
      BY <3>1, DropIs, ZenonT(30)
  <2>4. QED
    BY <2>1, <2>2, <2>3 DEF Ends, Writes, x, y
<1>5. QED
  BY <1>3, <1>4

LEMMA ReadyDoes ==
  ASSUME Typed, Ready
  PROVE  Writes(Written("ready", 0, 0))
<1>1. Written("ready", 0, 0) \in Events
  BY DEF Written, Events, Typed
<1>2. QED
  BY <1>1, Writing DEF Ready, Event, Written

LEMMA MurmursDoes ==
  ASSUME Typed, Murmurs
  PROVE  /\ UNCHANGED <<life, up, sessions, nextId, capped, status, screen, loop, chain, faults, odd>>
         /\ up = "up" /\ late' \subseteq late
         /\ events' \in Seq(Events) /\ Len(events) \in Nat /\ Len(events') \in Nat
         /\ Len(events') >= Len(events)
         /\ DOMAIN events = 1 .. Len(events) /\ DOMAIN events' = 1 .. Len(events')
         /\ \A k \in DOMAIN events : k \in DOMAIN events' /\ events'[k] = events[k]
         /\ \A k \in DOMAIN events' : \/ k \in DOMAIN events
                                      \/ events'[k].ev = "state" /\ events'[k].life = life
<1>1. /\ events \in Seq(Events) /\ Len(events) \in Nat /\ DOMAIN events = 1 .. Len(events)
  BY TypedSays
<1>2. CASE \E t \in Tunnels : LateFails(t)
  BY <1>1, <1>2 DEF LateFails
<1>3. ASSUME NEW id \in 1 .. nextId - 1, Suspends(id)
      PROVE  /\ Writes(Written("state", id, 0)) /\ up = "up" /\ late' = late
             /\ UNCHANGED <<life, up, sessions, nextId, capped, status, screen, loop, chain,
                            faults, odd>>
  <2>1. Written("state", id, 0) \in Events
    BY StateIs DEF Written
  <2>2. QED
    BY <1>3, <2>1, Writing DEF Suspends, Event, Written, worker
<1>4. CASE \E id \in 1 .. nextId - 1 : Suspends(id)
  <2>1. PICK id \in 1 .. nextId - 1 : Suspends(id)
    BY <1>4
  <2> DEFINE x == Written("state", id, 0)
  <2>2. /\ Writes(x) /\ up = "up" /\ late' = late
        /\ UNCHANGED <<life, up, sessions, nextId, capped, status, screen, loop, chain,
                       faults, odd>>
    BY <1>3, <2>1
  <2>3. x.ev = "state" /\ x.life = life
    BY DEF Written
  <2> HIDE DEF x
  <2>4. Len(events') \in Nat /\ Len(events') >= Len(events)
    BY <2>2 DEF Writes
  <2>5. \A k \in DOMAIN events' : \/ k \in DOMAIN events
                                  \/ events'[k].ev = "state" /\ events'[k].life = life
    BY <2>2, <2>3 DEF Writes
  <2>6. QED
    BY <2>2, <2>4, <2>5 DEF Writes
<1>5. QED
  BY <1>2, <1>4 DEF Murmurs

-----------------------------------------------------------------------------
(* What the renderer is told.                                               *)

\* The first event is gone, and the others moved up.
Shifts ==
    /\ events # <<>> /\ e = events[1] /\ e \in Events /\ 1 \in DOMAIN events
    /\ Len(events) \in Nat /\ Len(events) >= 1 /\ Len(events') = Len(events) - 1
    /\ events' \in Seq(Events) /\ DOMAIN events = 1 .. Len(events) /\ DOMAIN events' = 1 .. Len(events')
    /\ \A k \in DOMAIN events' : k + 1 \in DOMAIN events /\ events'[k] = events[k + 1]
    /\ \A k \in DOMAIN events : k = 1 \/ (k - 1 \in DOMAIN events' /\ events'[k - 1] = events[k])
    /\ UNCHANGED <<life, up, sessions, nextId, capped, late, loop, faults>>

\* A call that is not new counts one event less before its answer.
Waits(c) ==
    LET r == chain[c] q == chain'[c] IN
    /\ q.pc = r.pc /\ q.i = r.i /\ q.life = r.life /\ q.born = r.born
    /\ q.st = r.st /\ q.got = r.got
    /\ q.after = IF r.after = 0 THEN 0 ELSE r.after - 1

Hears == OnReady \/ OnExit \/ OnUpdate \/ OnState \/ OnError \/ OnStopped

LEMMA Hearing ==
  ASSUME Typed, Hears
  PROVE  /\ Shifts /\ \A c \in Chains : (e.ev # "ready" \/ c # <<"ready", e.life>>) => Waits(c)
         /\ e.ev \in Told => ~OnReady /\ ~OnExit
         /\ OnReady <=> e.ev = "ready"
         /\ OnExit <=> e.ev = "exit"
         /\ OnUpdate <=> e.ev = "update"
         /\ OnState <=> e.ev = "state"
         /\ OnError <=> e.ev = "error"
         /\ OnStopped <=> e.ev = "stopped"
<1>1. PICK name \in {"ready", "exit", "update", "state", "error", "stopped"} : Delivers(name)
  BY DEF Hears, OnReady, OnExit, OnUpdate, OnState, OnError, OnStopped
<1>2. /\ events # <<>> /\ e = events[1] /\ e.ev = name /\ e \in Events
      /\ Len(events) \in Nat /\ Len(events) >= 1 /\ Len(events') = Len(events) - 1
      /\ events' \in Seq(Events)
      /\ DOMAIN events = 1 .. Len(events) /\ DOMAIN events' = 1 .. Len(events')
      /\ \A k \in DOMAIN events' : k + 1 \in DOMAIN events /\ events'[k] = events[k + 1]
      /\ \A k \in DOMAIN events : k = 1 \/ (k - 1 \in DOMAIN events' /\ events'[k - 1] = events[k])
  BY <1>1, TypedSays, Delivered, Zenon
<1>3. UNCHANGED <<life, up, sessions, nextId, capped, late, loop, faults>>
  BY DEF Hears, OnReady, OnExit, OnUpdate, OnState, OnError, OnStopped, worker
<1>4. 1 \in DOMAIN events
  BY <1>2
<1>5. Shifts
  BY <1>2, <1>3, <1>4 DEF Shifts
<1>6. \A nm : Delivers(nm) => nm = name
  BY <1>2 DEF Delivers, e
<1>7. /\ OnReady <=> e.ev = "ready"
      /\ OnExit <=> e.ev = "exit"
      /\ OnUpdate <=> e.ev = "update"
      /\ OnState <=> e.ev = "state"
      /\ OnError <=> e.ev = "error"
      /\ OnStopped <=> e.ev = "stopped"
  BY <1>2, <1>6 DEF Hears, OnReady, OnExit, OnUpdate, OnState, OnError, OnStopped
<1>8. \A c \in Chains : (e.ev # "ready" \/ c # <<"ready", e.life>>) => chain'[c] = Passed[c]
  <2>1. CASE OnReady
    BY <1>7, <2>1, OnReadyDoes
  <2>2. CASE ~OnReady
    <3>1. chain' = Passed
      BY <2>2 DEF Hears, OnExit, OnUpdate, OnState, OnError, OnStopped
    <3>2. QED
      BY <3>1
  <2>3. QED
    BY <2>1, <2>2
<1>9. \A c \in Chains : (e.ev # "ready" \/ c # <<"ready", e.life>>) => Waits(c)
  BY <1>8, TypedSays, PassedDoes DEF Waits
<1>10. QED
  BY <1>5, <1>7, <1>9 DEF Told

(* A chain waits on, or begins with its worker.                             *)
LEMMA Heard ==
  ASSUME Typed, Hears, NEW c \in Chains
  PROVE  \/ Waits(c)
         \/ /\ OnReady /\ e.ev = "ready" /\ e.life \in Lives /\ c = <<"ready", e.life>> /\ c # User
            /\ chain'[c].pc \in {"idle", "ping"} /\ chain'[c].st \in {"none", "sent"}
            /\ up # "up" => chain'[c] = Idle
            /\ up = "up" => LET q == chain'[c] IN
                  /\ q.pc = "ping" /\ q.st = "sent" /\ q.after = 0
                  /\ q.life = life /\ q.born = life
<1>1. CASE e.ev # "ready" \/ c # <<"ready", e.life>>
  BY <1>1, Hearing
<1>2. CASE e.ev = "ready" /\ c = <<"ready", e.life>>
  <2>1. OnReady
    BY <1>2, Hearing
  <2>2. /\ e.life \in Lives
        /\ up # "up" => chain'[c] = Idle
        /\ up = "up" => LET q == chain'[c] IN
              /\ q.pc = "ping" /\ q.st = "sent" /\ q.after = 0
              /\ q.life = life /\ q.born = life
    BY <1>2, <2>1, OnReadyDoes
  <2>3. c # User
    BY <1>2, <2>2, ChainNames
  <2>4. chain'[c].pc \in {"idle", "ping"} /\ chain'[c].st \in {"none", "sent"}
    BY <2>2, IdleIs
  <2>5. QED
    BY <1>2, <2>1, <2>2, <2>3, <2>4
<1>3. QED
  BY <1>1, <1>2

LEMMA NotHearing ==
  ASSUME Typed, events' = events \/ (Len(events') \in Nat /\ Len(events') >= Len(events))
  PROVE  ~Hears
<1>1. SUFFICES ASSUME Hears PROVE FALSE
  OBVIOUS
<1>2. Len(events) \in Nat /\ Len(events') = Len(events) - 1
  BY <1>1, Hearing DEF Shifts
<1>3. QED
  BY <1>2

LEMMA CallsHear ==
  ASSUME Typed, CallsOK, Hears
  PROVE  CallsOK'
<1>1. Shifts /\ \A c \in Chains : (e.ev # "ready" \/ c # <<"ready", e.life>>) => Waits(c)
  BY Hearing
<1>2. ASSUME NEW c \in Chains, Waits(c) PROVE CallOK(chain[c])'
  <2>1. CallOK(chain[c]) /\ chain[c] \in Calls /\ Len(events) \in Nat
    BY TypedSays DEF CallsOK
  <2>2. chain[c].after \in Nat
    BY <2>1, CallsAre
  <2>3. QED
    BY <1>1, <1>2, <2>1, <2>2 DEF CallOK, Waits, Shifts
<1>3. ASSUME NEW c \in Chains, e.ev = "ready", c = <<"ready", e.life>>
      PROVE  CallOK(chain[c])' /\ chain'[c].pc # "reconnect" /\ c # User
  <2>1. /\ OnReady /\ e.life \in Lives
        /\ up # "up" => chain'[c] = Idle
        /\ up = "up" => LET q == chain'[c] IN
               /\ q.pc = "ping" /\ q.st = "sent" /\ q.after = 0
               /\ q.life = life /\ q.born = life
    BY <1>3, Hearing, OnReadyDoes
  <2>2. life \in Nat /\ life' = life /\ up' = up /\ Len(events') \in Nat
    BY <1>1, TypedSays DEF Shifts
  <2>3. CASE up = "up"
    <3>1. CallOK(chain[c])'
      BY <2>1, <2>2, <2>3 DEF CallOK
    <3>2. QED
      BY <1>3, <2>1, <2>3, <3>1, ChainNames
  <2>4. CASE up # "up"
    <3>1. CallOK(Idle)'
      BY <2>2, IdleIs DEF CallOK
    <3>2. QED
      BY <1>3, <2>1, <2>4, <3>1, IdleIs, ChainNames
  <2>5. QED
    BY <2>3, <2>4
<1>4. \A c \in Chains : CallOK(chain[c])'
  BY <1>1, <1>2, <1>3
<1>5. \A c \in Chains : chain'[c].pc = "reconnect" => c = User
  BY <1>1, <1>3 DEF CallsOK, Waits
<1>6. chain'[User].pc \in {"idle", "start", "reconnect"}
  BY <1>1, <1>3, ChainNames DEF CallsOK, Waits
<1>7. QED
  BY <1>4, <1>5, <1>6 DEF CallsOK

LEMMA CallsSame ==
  ASSUME Typed, CallsOK, Stays, chain' = chain
  PROVE  CallsOK'
<1>1. User \in Chains /\ Others(User) /\ chain'[User] = chain[User]
  BY ChainNames DEF Others
<1>2. CallOK(chain[User]) /\ chain[User] \in Calls
  BY <1>1, TypedSays DEF CallsOK
<1>3. CallOK(chain[User])'
  BY <1>1, <1>2, TypedSays, CallsAre DEF CallOK, Stays
<1>4. QED
  BY <1>1, <1>3, CallsKept DEF CallsOK

LEMMA CallsUps ==
  ASSUME Typed, CallsOK, Ready \/ Crash \/ Respawn \/ Restart
  PROVE  CallsOK'
<1>1. life \in Nat /\ Len(events) \in Nat
      /\ \A c \in Chains : chain[c] \in Calls /\ CallOK(chain[c])
  BY TypedSays DEF CallsOK
<1>2. CASE Ready
  <2>1. Len(events') = Len(events) + 1 /\ life' = life /\ up' = "up" /\ chain' = chain
    BY <1>2, ReadyDoes DEF Writes, Ready
  <2>2. \A c \in Chains : chain[c].st \notin {"ok", "failed"}
    BY <1>2 DEF Ready, Settled
  <2>3. ASSUME NEW c \in Chains PROVE CallOK(chain[c])'
    <3>1. CallOK(chain[c]) /\ chain[c] \in Calls /\ chain[c].after \in Nat
      BY <1>1, CallsAre
    <3>2. QED
      BY <1>1, <2>1, <2>2, <3>1 DEF CallOK
  <2>4. QED
    BY <2>1, <2>3 DEF CallsOK
<1>3. CASE Crash
  <2>1. PICK k \in Nat, d \in Nat : d <= k /\ Inserts(k) /\ Drains(d)
    BY <1>3, CrashIs
  <2>2. Len(events') = Len(events) + 1 /\ life' = life /\ up' = "down"
    BY <1>3, <2>1 DEF Crash, Inserts
  <2>3. ASSUME NEW c \in Chains PROVE CallOK(chain[c])'
    <3>1. CallOK(chain[c]) /\ chain[c] \in Calls /\ chain[c].after \in Nat
      BY <1>1, CallsAre
    <3>2. CASE Unread(chain[c], d)
      <4>1. chain[c].st # "none"
        BY <3>2 DEF Unread
      <4>2. QED
        BY <1>1, <2>1, <2>2, <3>1, <3>2, <4>1, EmptyMap DEF CallOK, Drains
    <3>3. CASE ~Unread(chain[c], d)
      <4>1. chain'[c] = chain[c] /\ chain[c].st # "sent"
        BY <2>1, <3>3 DEF Drains, Unread
      <4>2. QED
        BY <1>1, <2>2, <3>1, <4>1 DEF CallOK
    <3>4. QED
      BY <3>2, <3>3
  <2>4. QED
    BY <2>1, <2>3, ChainNames DEF CallsOK, Drains
<1>4. ASSUME NEW c \in Chains, life' = life + 1, up' = "starting", events' = events,
             chain'[c] = chain[c]
      PROVE  CallOK(chain[c])'
  <2>1. CallOK(chain[c]) /\ chain[c] \in Calls
    BY <1>1
  <2>2. QED
    BY <1>1, <1>4, <2>1, CallsAre DEF CallOK
<1>5. CASE Respawn
  <2>1. life' = life + 1 /\ up' = "starting" /\ events' = events /\ chain' = chain
    BY <1>5 DEF Respawn, Spawned
  <2>2. QED
    BY <1>4, <2>1 DEF CallsOK
<1>6. CASE Restart
  <2>1. life' = life + 1 /\ up' = "starting" /\ events' = events
    BY <1>6 DEF Restart, Spawned
  <2>2. /\ Others(Button) /\ chain'[Button].pc = "wait" /\ chain'[Button].st = "none"
        /\ chain'[Button].after = 0 /\ chain'[Button].life = 0 /\ chain'[Button].born = life'
    BY <1>6, RestartDoes
  <2>3. CallOK(chain[Button])'
    BY <1>1, <2>1, <2>2 DEF CallOK
  <2>4. QED
    BY <1>4, <2>1, <2>2, <2>3, ChainNames DEF CallsOK, Others
<1>7. QED
  BY <1>2, <1>3, <1>5, <1>6

(* A button makes the user's call.                                          *)
LEMMA UserTurns ==
  ASSUME Typed, CallsOK,
         (\E i \in 1 .. Len(Saved) : StartSaved(i)) \/ (\E o \in offers : Reconnect(o))
  PROVE  /\ Turns(User) /\ life' = life /\ up' = up /\ events' = events /\ up = "up"
         /\ chain[User] = Idle /\ chain'[User] # Idle /\ chain'[User].st = "sent"
         /\ chain'[User].pc \in {"start", "reconnect"}
<1>1. life \in Nat
  BY TypedSays
<1>2. ASSUME NEW i \in 1 .. Len(Saved), StartSaved(i)
      PROVE  /\ Turns(User) /\ life' = life /\ up' = up /\ events' = events /\ up = "up"
             /\ chain[User] = Idle /\ chain'[User].st = "sent" /\ chain'[User].pc = "start"
  <2>1. /\ Others(User)
        /\ LET q == chain'[User] IN
            /\ q.pc = "start" /\ q.i = i /\ q.st = "sent" /\ q.after = 0
            /\ q.life = life /\ q.born = life
    BY <1>2, StartSavedDoes
  <2>2. QED
    BY <1>1, <1>2, <2>1 DEF Turns, StartSaved, worker
<1>3. ASSUME NEW o \in offers, Reconnect(o)
      PROVE  /\ Turns(User) /\ life' = life /\ up' = up /\ events' = events /\ up = "up"
             /\ chain[User] = Idle /\ chain'[User].st = "sent" /\ chain'[User].pc = "reconnect"
  <2>1. /\ Others(User)
        /\ LET q == chain'[User] IN
            /\ q.pc = "reconnect" /\ q.i = o.id /\ q.st = "sent" /\ q.after = 0
            /\ DOMAIN q.got = {o.id} /\ q.life = life /\ q.born = life
    BY <1>3, ReconnectDoes
  <2>2. QED
    BY <1>1, <1>3, <2>1 DEF Turns, Reconnect, worker
<1>4. QED
  BY <1>2, <1>3, IdleIs

LEMMA CallsStep ==
  ASSUME Typed, CallsOK, [Next]_vars
  PROVE  CallsOK'
<1>1. ASSUME NEW c \in Chains, Answers(c) \/ StartsTunnel(c) \/ StartFails(c) \/ TimeOut(c)
      PROVE  CallsOK'
  <2>1. CASE Answers(c)
    <3>1. /\ Ending(c, "ok") /\ chain[c].life = life /\ chain'[c].after = Len(events)
          /\ events' = events /\ life' = life /\ up' = up
      BY <2>1, AnswersDoes
    <3>2. Stays /\ chain'[c].after <= Len(events')
      BY <3>1, TypedSays, Staying
    <3>3. QED
      BY <3>1, <3>2, CallEnds DEF Ending
  <2>2. CASE StartsTunnel(c)
    <3>1. /\ Ending(c, "ok") /\ chain[c].life = life /\ chain'[c].after = Len(events')
          /\ Len(events') \in Nat /\ life' = life /\ up' = up
          /\ Writes(Written("update", nextId, Target(chain[c])))
      BY <2>2, StartsTunnelDoes
    <3>2. Stays /\ chain'[c].after <= Len(events')
      BY <3>1 DEF Stays, Writes
    <3>3. QED
      BY <3>1, <3>2, CallEnds DEF Ending
  <2>3. CASE StartFails(c)
    <3>1. /\ Ending(c, "failed") /\ chain'[c].after = Len(events) /\ chain'[c].got = <<>>
          /\ events' = events /\ life' = life /\ up' = up
      BY <2>3, StartFailsDoes
    <3>2. Stays /\ chain'[c].after <= Len(events')
      BY <3>1, TypedSays, Staying
    <3>3. QED
      BY <3>1, <3>2, EmptyMap, CallEnds DEF Ending
  <2>4. CASE TimeOut(c)
    <3>1. /\ Others(c)
          /\ LET r == chain[c] q == chain'[c] IN
             /\ q.pc = r.pc /\ q.i = r.i /\ q.life = r.life /\ q.born = r.born
             /\ q.after = r.after /\ r.st = "sent" /\ q.st = "failed" /\ q.got = <<>>
      BY <2>4, TypedSays, TimeOutDoes
    <3>2. Stays
      BY <2>4, Staying DEF TimeOut
    <3>3. CallOK(chain[c]) /\ events' = events
      BY <2>4 DEF CallsOK, TimeOut
    <3>4. QED
      BY <3>1, <3>2, <3>3, EmptyMap, CallEnds DEF CallOK
  <2>5. QED
    BY <1>1, <2>1, <2>2, <2>3, <2>4
<1>2. ASSUME NEW c \in Chains, Step(c) PROVE CallsOK'
  BY <1>2, Turning, Staying, CallTurns
<1>3. ASSUME NEW t \in Tunnels, StartsLate(t) PROVE CallsOK'
  <2>1. Stays /\ chain' = chain
    BY <1>3, StartsLateDoes DEF StartsLate, Writes, Stays
  <2>2. QED
    BY <2>1, CallsSame
<1>4. ASSUME NEW id \in DOMAIN sessions, SessionFails(id) \/ Stop(id) PROVE CallsOK'
  <2>1. /\ Len(events) \in Nat /\ Len(events') \in Nat /\ Len(events') > Len(events)
        /\ UNCHANGED <<life, up, nextId, capped, late, status, screen, loop, chain>>
    BY <1>4, EndsDoes
  <2>2. Stays /\ chain' = chain
    BY <2>1 DEF Stays
  <2>3. QED
    BY <2>2, CallsSame
<1>5. CASE Ready \/ Crash \/ Respawn \/ Restart
  BY <1>5, CallsUps
<1>6. CASE (\E i \in 1 .. Len(Saved) : StartSaved(i)) \/ (\E o \in offers : Reconnect(o))
  BY <1>6, ChainNames, UserTurns, Staying, CallTurns
<1>7. CASE Hears
  BY <1>7, CallsHear
<1>8. CASE UNCHANGED vars
  BY <1>8, Staying, CallsSame DEF vars, worker
<1>9. CASE Murmurs
  <2>1. Stays /\ chain' = chain
    BY <1>9, MurmursDoes DEF Stays
  <2>2. QED
    BY <2>1, CallsSame
<1>10. QED
  BY <1>1, <1>2, <1>3, <1>4, <1>5, <1>6, <1>7, <1>8, <1>9 DEF Next, Hears, Murmurs

-----------------------------------------------------------------------------
(* The events are those of the worker.                                      *)

(* The steps between the renderer and the worker that leave the events, the *)
(* sessions and the worker alone.                                           *)
LEMMA Calling ==
  ASSUME Typed, CallsOK,
         \/ \E c \in Chains : Answers(c) \/ StartFails(c) \/ TimeOut(c) \/ Step(c)
         \/ \E i \in 1 .. Len(Saved) : StartSaved(i)
         \/ \E o \in offers : Reconnect(o)
         \/ UNCHANGED vars
  PROVE  /\ UNCHANGED <<events, life, up, sessions, nextId>> /\ offers' \subseteq offers
         /\ late' = late \/ up = "up"
<1>1. ASSUME NEW c \in Chains, Answers(c)
      PROVE  /\ UNCHANGED <<events, life, up, sessions, nextId>> /\ offers' \subseteq offers
             /\ late' = late
  BY <1>1, AnswersDoes DEF Answers, screen
<1>2. ASSUME NEW c \in Chains, StartFails(c)
      PROVE  /\ UNCHANGED <<events, life, up, sessions, nextId>> /\ offers' \subseteq offers
             /\ late' = late
  BY <1>2, StartFailsDoes DEF StartFails, screen, worker
<1>3. ASSUME NEW c \in Chains, TimeOut(c)
      PROVE  /\ UNCHANGED <<events, life, up, sessions, nextId>> /\ offers' \subseteq offers
             /\ late' = late \/ up = "up"
  BY <1>3 DEF TimeOut, screen, Asks
<1>4. ASSUME NEW c \in Chains, Step(c)
      PROVE  /\ UNCHANGED <<events, life, up, sessions, nextId>> /\ offers' \subseteq offers
             /\ late' = late
  BY <1>4 DEF Step, WaitEnds, GivesUp, Pinged, Listed, Limited, Started, Reconnected,
              worker, screen
<1>5. ASSUME NEW i \in 1 .. Len(Saved), StartSaved(i)
      PROVE  /\ UNCHANGED <<events, life, up, sessions, nextId>> /\ offers' \subseteq offers
             /\ late' = late
  BY <1>5 DEF StartSaved, worker, screen
<1>6. ASSUME NEW o \in offers, Reconnect(o)
      PROVE  /\ UNCHANGED <<events, life, up, sessions, nextId>> /\ offers' \subseteq offers
             /\ late' = late
  BY <1>6 DEF Reconnect, worker, screen
<1>7. CASE UNCHANGED vars
  BY <1>7 DEF vars, worker, screen
<1>8. QED
  BY <1>1, <1>2, <1>3, <1>4, <1>5, <1>6, <1>7

LEMMA NextIs ==
  ASSUME [Next]_vars
  PROVE  \/ \/ \E c \in Chains : Answers(c) \/ StartFails(c) \/ TimeOut(c) \/ Step(c)
            \/ \E i \in 1 .. Len(Saved) : StartSaved(i)
            \/ \E o \in offers : Reconnect(o)
            \/ UNCHANGED vars
         \/ \E c \in Chains : StartsTunnel(c)
         \/ \E t \in Tunnels : StartsLate(t)
         \/ \E id \in DOMAIN sessions : SessionFails(id) \/ Stop(id)
         \/ Ready \/ Crash \/ Respawn \/ Restart
         \/ Hears
         \/ Murmurs
  BY DEF Next, Hears, Murmurs

(* A session begins, for a call that waits for it or no more.               *)
LEMMA Beginning ==
  ASSUME Typed, CallsOK,
         (\E c \in Chains : StartsTunnel(c)) \/ (\E t \in Tunnels : StartsLate(t))
  PROVE  /\ \E t \in Tunnels : /\ NewSession(t) /\ Writes(Written("update", nextId, t))
                               /\ \/ \E c \in Chains : StartsTunnel(c) /\ t = Target(chain[c])
                                  \/ StartsLate(t)
         /\ up = "up" /\ UNCHANGED <<life, up, offers, replay, cards, blank, errored>>
<1>1. ASSUME NEW c \in Chains, StartsTunnel(c)
      PROVE  /\ \E t \in Tunnels : /\ NewSession(t) /\ Writes(Written("update", nextId, t))
                                   /\ \E d \in Chains : StartsTunnel(d) /\ t = Target(chain[d])
             /\ up = "up" /\ UNCHANGED <<life, up, offers, replay, cards, blank, errored>>
  <2>1. /\ Target(chain[c]) \in Tunnels /\ NewSession(Target(chain[c])) /\ up = "up"
        /\ Writes(Written("update", nextId, Target(chain[c])))
    BY <1>1, StartsTunnelDoes
  <2>2. UNCHANGED <<life, up, offers, replay, cards, blank, errored>>
    BY <1>1 DEF StartsTunnel, screen
  <2>3. QED
    BY <1>1, <2>1, <2>2
<1>2. ASSUME NEW t \in Tunnels, StartsLate(t)
      PROVE  /\ NewSession(t) /\ Writes(Written("update", nextId, t))
             /\ up = "up" /\ UNCHANGED <<life, up, offers, replay, cards, blank, errored>>
  BY <1>2, StartsLateDoes DEF StartsLate, screen
<1>3. QED
  BY <1>1, <1>2

LEMMA EventsStep ==
  ASSUME Typed, CallsOK, EventsOK, OneTunnelPerId, [Next]_vars
  PROVE  EventsOK'
<1>1. /\ life \in Nat \ {0} /\ events \in Seq(Events) /\ DOMAIN events = 1 .. Len(events)
      /\ sessions \in Maps /\ Len(events) \in Nat
      /\ \A k \in DOMAIN events : events[k] \in Events /\ events[k].life \in Nat
  BY TypedSays DEF Events
<1>2. CASE \/ \E c \in Chains : Answers(c) \/ StartFails(c) \/ TimeOut(c) \/ Step(c)
           \/ \E i \in 1 .. Len(Saved) : StartSaved(i)
           \/ \E o \in offers : Reconnect(o)
           \/ UNCHANGED vars
  <2>1. /\ UNCHANGED <<events, life, up, sessions, nextId>> /\ offers' \subseteq offers
        /\ late' = late \/ up = "up"
    BY <1>2, Calling
  <2>2. QED
    BY <2>1 DEF EventsOK, EventOK
<1>3. CASE (\E c \in Chains : StartsTunnel(c)) \/ (\E t \in Tunnels : StartsLate(t))
  <2>1. PICK t \in Tunnels : NewSession(t) /\ Writes(Written("update", nextId, t))
    BY <1>3, Beginning
  <2>2. up = "up" /\ UNCHANGED <<life, up, offers>>
    BY <1>3, Beginning
  <2>3. DOMAIN sessions' = DOMAIN sessions \cup {nextId}
    BY <2>1, NewSessionIs
  <2>4. ASSUME NEW k \in DOMAIN events', k # Len(events') PROVE EventOK(k)'
    <3>1. k \in DOMAIN events /\ events'[k] = events[k] /\ EventOK(k) /\ events[k] \in Events
      BY <1>1, <2>1, <2>4 DEF Writes, EventsOK
    <3>2. events[k].life = life /\ events[k].ev \in {"stopped", "error"} => events[k].id # nextId
      <4>1. SUFFICES ASSUME events[k].life = life, events[k].ev \in {"stopped", "error"}
                     PROVE  events[k].id # nextId
        OBVIOUS
      <4>2. events[k].id \in Nat /\ events[k].t \in Tunnels /\ events[k].ev \in Told
        BY <3>1, <4>1 DEF Events, Told
      <4>3. Says(events[k].id, events[k].t)
        BY <3>1, <4>1, <4>2 DEF Says, Hear
      <4>4. events[k].id < nextId
        BY <4>2, <4>3 DEF OneTunnelPerId
      <4>5. QED
        BY <4>2, <4>4
    <3>3. QED
      BY <2>2, <2>3, <3>1, <3>2 DEF EventOK
  <2>5. ASSUME NEW k \in DOMAIN events', k = Len(events') PROVE EventOK(k)'
    BY <1>1, <2>1, <2>2, <2>5 DEF EventOK, Writes, Written
  <2>6. QED
    BY <2>2, <2>4, <2>5 DEF EventsOK
<1>4. ASSUME NEW id \in DOMAIN sessions, SessionFails(id) \/ Stop(id) PROVE EventsOK'
  <2>1. /\ DOMAIN sessions' = DOMAIN sessions \ {id}
        /\ DOMAIN events = 1 .. Len(events) /\ DOMAIN events' = 1 .. Len(events')
        /\ \A k \in DOMAIN events : k \in DOMAIN events' /\ events'[k] = events[k]
        /\ events'[Len(events')] = Written("stopped", id, sessions[id])
        /\ \A k \in DOMAIN events' : \/ k \in DOMAIN events \/ k = Len(events')
                                     \/ events'[k] = Written("error", id, sessions[id])
    BY <1>4, EndsDoes
  <2>2. UNCHANGED <<life, up, nextId, capped, late, status, screen, loop, chain>>
    BY <1>4, EndsDoes
  <2>3. up = "up" /\ offers' = offers
    BY <1>4, <2>2, EmptyMap DEF EventsOK, screen
  <2>4. ASSUME NEW k \in DOMAIN events' PROVE EventOK(k)'
    <3>1. CASE k \in DOMAIN events
      <4>1. events'[k] = events[k] /\ EventOK(k)
        BY <2>1, <3>1 DEF EventsOK
      <4>2. QED
        BY <2>1, <2>2, <4>1 DEF EventOK
    <3>2. CASE \/ events'[k] = Written("stopped", id, sessions[id])
               \/ events'[k] = Written("error", id, sessions[id])
      BY <1>1, <2>1, <2>2, <2>3, <3>2 DEF EventOK, Written
    <3>3. QED
      BY <2>1, <3>1, <3>2
  <2>5. QED
    BY <2>2, <2>3, <2>4 DEF EventsOK
<1>5. CASE Ready
  <2>1. Writes(Written("ready", 0, 0)) /\ life' = life /\ up' = "up" /\ offers' = offers
    BY <1>5, ReadyDoes DEF Ready, screen
  <2>2. events = <<>>
    BY <1>5 DEF Ready, Settled
  <2>3. DOMAIN events = {} /\ \A k \in DOMAIN events' : events'[k] = Written("ready", 0, 0)
    BY <2>1, <2>2, EmptyMap DEF Writes
  <2>4. \A k \in DOMAIN events' : EventOK(k)'
    BY <1>1, <2>1, <2>3 DEF EventOK, Written
  <2>5. QED
    BY <2>1, <2>4 DEF EventsOK
<1>6. CASE Crash
  <2>1. /\ life' = life /\ up' = "down" /\ offers' = offers
        /\ sessions' = <<>> /\ late' = {}
    BY <1>6 DEF Crash, screen
  <2>2. PICK n \in Nat : Inserts(n)
    BY <1>6, CrashIs
  <2>3. DOMAIN sessions' = {}
    BY <2>1, EmptyMap
  <2>4. ASSUME NEW k \in DOMAIN events' PROVE EventOK(k)'
    <3>1. CASE k = n + 1
      BY <1>1, <2>1, <2>2, <2>3, <3>1 DEF EventOK, Inserts
    <3>2. CASE k # n + 1
      <4>1. Was(n, k) \in DOMAIN events /\ events'[k] = events[Was(n, k)] /\ EventOK(Was(n, k))
        BY <2>2, <3>2 DEF EventsOK, Inserts
      <4>2. QED
        BY <2>1, <2>3, <4>1 DEF EventOK
    <3>3. QED
      BY <3>1, <3>2
  <2>5. \A o \in offers : o.life <= life
    BY DEF EventsOK
  <2>6. QED
    BY <2>1, <2>3, <2>4, <2>5 DEF EventsOK
<1>7. CASE Respawn \/ Restart
  <2>1. /\ life' = life + 1 /\ up' = "starting" /\ sessions' = <<>> /\ late' = {}
        /\ events' = events /\ offers' = offers
    BY <1>7 DEF Respawn, Restart, Spawned, screen
  <2>2. DOMAIN sessions' = {}
    BY <2>1, EmptyMap
  <2>3. \A k \in DOMAIN events : events[k].life <= life
    BY DEF EventsOK, EventOK
  <2>4. \A k \in DOMAIN events' : EventOK(k)'
    BY <1>1, <2>1, <2>2, <2>3 DEF EventOK
  <2>5. \A o \in offers : o.life <= life /\ o.life \in Nat
    BY TypedSays DEF EventsOK, Typed
  <2>6. QED
    BY <1>1, <2>1, <2>2, <2>4, <2>5 DEF EventsOK
<1>8. CASE Hears
  <2>1. Shifts
    BY <1>8, Hearing
  <2>2. ASSUME NEW k \in DOMAIN events' PROVE EventOK(k)'
    <3>1. k + 1 \in DOMAIN events /\ events'[k] = events[k + 1]
      BY <2>1 DEF Shifts
    <3>2. EventOK(k + 1)
      BY <3>1 DEF EventsOK
    <3>3. QED
      BY <2>1, <3>1, <3>2 DEF EventOK, Shifts
  <2>5. ASSUME NEW o \in offers' PROVE o.life <= life /\ (up = "starting" => o.life < life)
    <3>1. CASE o \in offers
      BY <3>1 DEF EventsOK
    <3>2. CASE o \notin offers
      <4>1. o.life = e.life
        BY <1>8, <2>5, <3>2 DEF Hears, OnReady, OnExit, OnUpdate, OnState, OnError, OnStopped, screen, Offer
      <4>2. EventOK(1) /\ e = events[1]
        BY <2>1 DEF EventsOK, Shifts
      <4>3. QED
        BY <4>1, <4>2 DEF EventOK
    <3>3. QED
      BY <3>1, <3>2
  <2>6. QED
    BY <2>1, <2>2, <2>5 DEF EventsOK, Shifts
<1>9. CASE Murmurs
  <2>1. /\ UNCHANGED <<life, up, sessions, offers>> /\ up = "up" /\ late' \subseteq late
        /\ \A k \in DOMAIN events : events'[k] = events[k]
        /\ \A k \in DOMAIN events' : \/ k \in DOMAIN events
                                     \/ events'[k].ev = "state" /\ events'[k].life = life
    BY <1>9, MurmursDoes DEF screen
  <2>2. ASSUME NEW k \in DOMAIN events' PROVE EventOK(k)'
    <3>1. CASE k \in DOMAIN events
      <4>1. EventOK(k) /\ events'[k] = events[k]
        BY <2>1, <3>1 DEF EventsOK
      <4>2. QED
        BY <2>1, <4>1 DEF EventOK
    <3>2. CASE k \notin DOMAIN events
      BY <1>1, <2>1, <3>2 DEF EventOK
    <3>3. QED
      BY <3>1, <3>2
  <2>3. QED
    BY <2>1, <2>2 DEF EventsOK
<1>10. QED
  BY <1>2, <1>3, <1>4, <1>5, <1>6, <1>7, <1>8, <1>9, NextIs

-----------------------------------------------------------------------------
(* Every worker is ready once.                                              *)

LEMMA Settling ==
  ASSUME Typed, CallsOK, NEW c \in Chains,
         Answers(c) \/ StartsTunnel(c) \/ StartFails(c) \/ TimeOut(c)
  PROVE  Ending(c, "ok") \/ Ending(c, "failed")
<1>1. CASE Answers(c)
  BY <1>1, AnswersDoes
<1>2. CASE StartsTunnel(c)
  BY <1>2, StartsTunnelDoes
<1>3. CASE StartFails(c)
  BY <1>3, StartFailsDoes
<1>4. CASE TimeOut(c)
  BY <1>4, TypedSays, TimeOutDoes DEF Ending
<1>5. QED
  BY <1>1, <1>2, <1>3, <1>4

LEMMA IdleKept ==
  ASSUME Typed, CallsOK, [Next]_vars, ~Hears, NEW d \in Chains \ {Button, User},
         chain[d].pc = "idle"
  PROVE  chain'[d].pc = "idle"
<1>1. ASSUME NEW c \in Chains, Answers(c) \/ StartsTunnel(c) \/ StartFails(c) \/ TimeOut(c)
      PROVE  chain'[d].pc = "idle"
  <2>1. Ending(c, "ok") \/ Ending(c, "failed")
    BY <1>1, Settling
  <2>2. QED
    BY <2>1 DEF Ending, Others
<1>2. ASSUME NEW c \in Chains, Step(c) PROVE chain'[d].pc = "idle"
  BY <1>2, Turning DEF Turns, Others
<1>3. CASE (\E i \in 1 .. Len(Saved) : StartSaved(i)) \/ (\E o \in offers : Reconnect(o))
  BY <1>3, UserTurns DEF Turns, Others
<1>4. CASE Crash
  BY <1>4, CrashIs DEF Drains
<1>5. CASE Restart
  BY <1>5, RestartDoes DEF Others
<1>6. CASE \/ \E t \in Tunnels : StartsLate(t)
           \/ \E id \in DOMAIN sessions : SessionFails(id) \/ Stop(id)
           \/ Ready \/ Respawn \/ UNCHANGED vars \/ Murmurs
  BY <1>6, MurmursDoes DEF StartsLate, SessionFails, Stop, Ends, Ready, Respawn, vars
<1>7. QED
  BY <1>1, <1>2, <1>3, <1>4, <1>5, <1>6, NextIs

LEMMA ReadyStep ==
  ASSUME Typed, CallsOK, EventsOK, ReadyOnce, [Next]_vars
  PROVE  ReadyOnce'
<1>1. /\ life \in Nat \ {0} /\ Lives \subseteq Nat
      /\ \A l \in Lives : <<"ready", l>> \in Chains \ {Button, User}
      /\ \A l, m \in Lives : <<"ready", l>> = <<"ready", m>> => l = m
      /\ \A k \in DOMAIN events : events[k].life \in Lives /\ events[k].life <= life
  BY TypedSays, ChainNames DEF Events, EventsOK, EventOK
<1> DEFINE Rests(l) == chain[<<"ready", l>>].pc = "idle"
<1>2. ~Hears => \A l \in Lives : Rests(l) => Rests(l)'
  BY <1>1, IdleKept
<1>3. ASSUME life' = life, up' = up \/ up = "starting" \/ up' = "down", ~Hears,
             \A k \in DOMAIN events' : events'[k].ev = "ready" =>
                k \in DOMAIN events /\ events'[k] = events[k]
      PROVE  ReadyOnce'
  <2>1. \A l \in Lives : l > life' \/ (l = life' /\ up' = "starting") => Rests(l)'
    BY <1>1, <1>2, <1>3 DEF ReadyOnce
  <2>2. \A k \in DOMAIN events' : events'[k].ev = "ready" =>
          /\ chain'[<<"ready", events'[k].life>>].pc = "idle"
          /\ \A m \in DOMAIN events' :
                events'[m].ev = "ready" /\ events'[m].life = events'[k].life => m = k
    <3>1. SUFFICES ASSUME NEW k \in DOMAIN events', events'[k].ev = "ready"
          PROVE /\ chain'[<<"ready", events'[k].life>>].pc = "idle"
                /\ \A m \in DOMAIN events' :
                      events'[m].ev = "ready" /\ events'[m].life = events'[k].life => m = k
      OBVIOUS
    <3>2. k \in DOMAIN events /\ events'[k] = events[k]
      BY <1>3, <3>1
    <3>3. Rests(events[k].life) /\ events[k].life \in Lives
      BY <1>1, <3>1, <3>2 DEF ReadyOnce
    <3>4. \A m \in DOMAIN events' :
                events'[m].ev = "ready" /\ events'[m].life = events'[k].life => m = k
      BY <1>3, <3>1, <3>2 DEF ReadyOnce
    <3>5. QED
      BY <1>2, <1>3, <3>2, <3>3, <3>4
  <2>3. QED
    BY <2>1, <2>2 DEF ReadyOnce
<1>4. CASE \/ \E c \in Chains : Answers(c) \/ StartFails(c) \/ TimeOut(c) \/ Step(c)
           \/ \E i \in 1 .. Len(Saved) : StartSaved(i)
           \/ \E o \in offers : Reconnect(o)
           \/ UNCHANGED vars
  <2>1. UNCHANGED <<events, life, up>>
    BY <1>4, Calling
  <2>2. ~Hears
    BY <2>1, NotHearing
  <2>3. QED
    BY <1>3, <2>1, <2>2
<1>5. CASE (\E c \in Chains : StartsTunnel(c)) \/ (\E t \in Tunnels : StartsLate(t))
  <2>1. PICK t \in Tunnels : Writes(Written("update", nextId, t)) /\ UNCHANGED <<life, up>>
    BY <1>5, Beginning
  <2>2. ~Hears
    BY <2>1, NotHearing DEF Writes
  <2>3. QED
    BY <1>3, <2>1, <2>2 DEF Writes, Written
<1>6. ASSUME NEW id \in DOMAIN sessions, SessionFails(id) \/ Stop(id) PROVE ReadyOnce'
  <2>1. /\ Len(events) \in Nat /\ Len(events') \in Nat /\ Len(events') > Len(events)
        /\ \A k \in DOMAIN events : k \in DOMAIN events' /\ events'[k] = events[k]
        /\ events'[Len(events')] = Written("stopped", id, sessions[id])
        /\ \A k \in DOMAIN events' : \/ k \in DOMAIN events \/ k = Len(events')
                                     \/ events'[k] = Written("error", id, sessions[id])
    BY <1>6, EndsDoes
  <2>2. UNCHANGED <<life, up, nextId, capped, late, status, screen, loop, chain>>
    BY <1>6, EndsDoes
  <2>3. ~Hears
    BY <2>1, NotHearing
  <2>4. \A k \in DOMAIN events' : events'[k].ev = "ready" =>
                k \in DOMAIN events /\ events'[k] = events[k]
    BY <2>1 DEF Written
  <2>5. QED
    BY <1>3, <2>2, <2>3, <2>4
<1>7. CASE Ready
  <2>1. Writes(Written("ready", 0, 0)) /\ life' = life /\ up' = "up" /\ up = "starting" /\ events = <<>>
    BY <1>7, ReadyDoes DEF Ready, Settled
  <2>2. ~Hears
    BY <2>1, NotHearing DEF Writes
  <2>3. \A l \in Lives : l > life' \/ (l = life' /\ up' = "starting") => Rests(l)'
    BY <1>1, <1>2, <2>1, <2>2 DEF ReadyOnce
  <2>4. DOMAIN events = {} /\ \A k \in DOMAIN events' : k = Len(events')
    BY <2>1, EmptyMap DEF Writes
  <2>5. \A k \in DOMAIN events' : events'[k].life = life
    BY <2>1, <2>4 DEF Writes, Written
  <2>6. life \in Lives /\ Rests(life)
    BY <2>1, TypedSays DEF ReadyOnce
  <2>7. Rests(life)'
    BY <1>2, <2>1, <2>2, <2>6
  <2>8. QED
    BY <2>1, <2>3, <2>4, <2>5, <2>7 DEF ReadyOnce
<1>8. CASE Crash
  <2>1. life' = life /\ up' = "down"
    BY <1>8 DEF Crash
  <2>2. PICK n \in Nat : Inserts(n)
    BY <1>8, CrashIs
  <2>3. ~Hears
    BY <2>2, NotHearing DEF Inserts
  <2>4. \A l \in Lives : l > life' \/ (l = life' /\ up' = "starting") => Rests(l)'
    BY <1>1, <1>2, <2>1, <2>3 DEF ReadyOnce
  <2>5. ASSUME NEW k \in DOMAIN events', events'[k].ev = "ready"
        PROVE  /\ chain'[<<"ready", events'[k].life>>].pc = "idle"
               /\ \A m \in DOMAIN events' :
                     events'[m].ev = "ready" /\ events'[m].life = events'[k].life => m = k
    <3>1. \A m \in DOMAIN events' : events'[m].ev = "ready" =>
             m # n + 1 /\ Was(n, m) \in DOMAIN events /\ events'[m] = events[Was(n, m)]
      BY <2>2 DEF Inserts
    <3>2. Rests(events'[k].life) /\ events'[k].life \in Lives
      BY <1>1, <2>5, <3>1 DEF ReadyOnce
    <3>3. ASSUME NEW m \in DOMAIN events', events'[m].ev = "ready",
                 events'[m].life = events'[k].life
          PROVE  m = k
      <4>1. Was(n, m) = Was(n, k)
        BY <2>5, <3>1, <3>3 DEF ReadyOnce
      <4>2. m \in Nat /\ k \in Nat
        BY <2>2 DEF Inserts
      <4>3. m # n + 1 /\ k # n + 1
        BY <2>5, <3>1, <3>3
      <4>4. QED
        BY <4>1, <4>2, <4>3 DEF Was
    <3>4. QED
      BY <1>2, <2>3, <3>2, <3>3
  <2>6. QED
    BY <2>4, <2>5 DEF ReadyOnce
<1>9. CASE Respawn \/ Restart
  <2>1. life' = life + 1 /\ up' = "starting" /\ events' = events
    BY <1>9 DEF Respawn, Restart, Spawned
  <2>2. ~Hears
    BY <2>1, NotHearing
  <2>3. \A l \in Lives : l > life' \/ (l = life' /\ up' = "starting") => Rests(l)'
    <3>1. ASSUME NEW l \in Lives, l > life' \/ (l = life' /\ up' = "starting") PROVE Rests(l)'
      <4>1. l > life
        BY <1>1, <2>1, <3>1
      <4>2. Rests(l)
        BY <4>1 DEF ReadyOnce
      <4>3. QED
        BY <1>2, <2>2, <4>2
    <3>2. QED
      BY <3>1
  <2>4. QED
    BY <1>1, <1>2, <2>1, <2>2, <2>3 DEF ReadyOnce
<1>10. CASE Hears
  <2>1. Shifts /\ \A c \in Chains : (e.ev # "ready" \/ c # <<"ready", e.life>>) => Waits(c)
    BY <1>10, Hearing
  <2>2. 1 \in DOMAIN events /\ e = events[1] /\ EventOK(1) /\ life' = life /\ up' = up
    BY <2>1 DEF Shifts, EventsOK
  <2>3. ASSUME NEW l \in Lives, Rests(l), e.ev = "ready" => l # e.life PROVE Rests(l)'
    BY <1>1, <2>1, <2>2, <2>3 DEF Waits
  <2>4. \A l \in Lives : l > life' \/ (l = life' /\ up' = "starting") => Rests(l)'
    BY <1>1, <2>2, <2>3 DEF ReadyOnce, EventOK
  <2>5. ASSUME NEW k \in DOMAIN events', events'[k].ev = "ready"
        PROVE /\ chain'[<<"ready", events'[k].life>>].pc = "idle"
              /\ \A m \in DOMAIN events' :
                    events'[m].ev = "ready" /\ events'[m].life = events'[k].life => m = k
    <3>1. k \in Nat /\ k + 1 # 1 /\ k + 1 \in DOMAIN events /\ events'[k] = events[k + 1]
      BY <2>1 DEF Shifts
    <3>2. Rests(events[k + 1].life) /\ events[k + 1].life \in Lives
      BY <1>1, <2>5, <3>1 DEF ReadyOnce
    <3>3. e.ev = "ready" => events[k + 1].life # e.life
      BY <2>2, <2>5, <3>1 DEF ReadyOnce
    <3>4. chain'[<<"ready", events'[k].life>>].pc = "idle"
      BY <2>3, <3>1, <3>2, <3>3
    <3>5. ASSUME NEW m \in DOMAIN events', events'[m].ev = "ready",
                 events'[m].life = events'[k].life
          PROVE  m = k
      <4>1. m \in Nat /\ m + 1 \in DOMAIN events /\ events'[m] = events[m + 1]
        BY <2>1 DEF Shifts
      <4>2. m + 1 = k + 1
        BY <2>5, <3>1, <3>5, <4>1 DEF ReadyOnce
      <4>3. QED
        BY <3>1, <4>1, <4>2
    <3>6. QED
      BY <3>4, <3>5
  <2>6. QED
    BY <2>4, <2>5 DEF ReadyOnce
<1>11. CASE Murmurs
  <2>1. /\ UNCHANGED <<life, up>> /\ Len(events') \in Nat /\ Len(events') >= Len(events)
        /\ \A k \in DOMAIN events : k \in DOMAIN events' /\ events'[k] = events[k]
        /\ \A k \in DOMAIN events' : k \in DOMAIN events \/ events'[k].ev = "state"
    BY <1>11, MurmursDoes
  <2>2. ~Hears
    BY <2>1, NotHearing
  <2>3. QED
    BY <1>3, <2>1, <2>2
<1>12. QED
  BY <1>4, <1>5, <1>6, <1>7, <1>8, <1>9, <1>10, <1>11, NextIs

-----------------------------------------------------------------------------
(* The id of a session stands for one tunnel.                               *)

LEMMA SaysLess ==
  ASSUME OneTunnelPerId, nextId \in Nat, nextId' \in Nat, nextId <= nextId',
         \A id \in Nat, t \in Tunnels : Says(id, t)' => Says(id, t)
  PROVE  OneTunnelPerId'
  BY DEF OneTunnelPerId

LEMMA SaysNew ==
  ASSUME OneTunnelPerId, nextId \in Nat, nextId' = nextId + 1, NEW new,
         \A id \in Nat, t \in Tunnels : Says(id, t)' => Says(id, t) \/ (id = nextId /\ t = new)
  PROVE  OneTunnelPerId'
<1>1. ASSUME NEW id \in Nat, NEW t \in Tunnels, Says(id, t)'
      PROVE  id < nextId' /\ \A u \in Tunnels : Says(id, u)' => u = t
  <2>1. CASE Says(id, t)
    BY <1>1, <2>1 DEF OneTunnelPerId
  <2>2. CASE id = nextId /\ t = new
    BY <1>1, <2>2 DEF OneTunnelPerId
  <2>3. QED
    BY <1>1, <2>1, <2>2
<1>2. QED
  BY <1>1 DEF OneTunnelPerId

(* The chains answer no more than before.                                   *)
LEMMA ReplyLess ==
  ASSUME life' = life, NEW c \in Chains, Others(c),
         chain'[c].st # "ok", NEW id, NEW t, Reply(id, t)'
  PROVE  Reply(id, t)
  BY DEF Others, Reply

LEMMA KeepsSame ==
  ASSUME replay' = replay, odd'.orphans = odd.orphans, NEW id, NEW t, Keeps(id, t)'
  PROVE  Keeps(id, t)
  BY DEF Keeps

(* The orphans of a start.                                                  *)
LEMMA StartedKeeps ==
  ASSUME Typed, CallsOK, NEW c \in Chains, Started(c), NEW id, NEW t, Keeps(id, t)'
  PROVE  Keeps(id, t) \/ Reply(id, t)
<1> DEFINE new == DOMAIN chain[c].got
           o   == [odd EXCEPT !.orphans = (@ \ new) \cup Gone(c) \cup (new \cap errored)]
<1>1. /\ chain[c].pc = "start" /\ chain[c].st \in {"ok", "failed"}
      /\ odd'.orphans = o.orphans
      /\ DOMAIN replay' = DOMAIN replay \cup new
      /\ \A j \in new : replay'[j] = chain[c].got[j]
      /\ \A j \in DOMAIN replay : j \notin new => replay'[j] = replay[j]
  BY StartedDoes
<1>2. o.orphans = (odd.orphans \ new) \cup Gone(c) \cup (new \cap errored)
  BY DEF Typed, Histories
<1> HIDE DEF o
<1>3. CASE id \in new
  <2>1. id \notin Gone(c) /\ chain[c].got[id] = t
    BY <1>1, <1>2, <1>3 DEF Keeps
  <2>2. chain[c].life = life
    BY <1>3, <2>1 DEF Gone
  <2>3. chain[c].st = "ok"
    BY <1>1, <1>3 DEF CallsOK, CallOK
  <2>4. QED
    BY <1>1, <1>3, <2>1, <2>2, <2>3 DEF Reply
<1>4. CASE id \notin new
  BY <1>1, <1>2, <1>4 DEF Keeps
<1>5. QED
  BY <1>3, <1>4

LEMMA SaysCalling ==
  ASSUME Typed, CallsOK,
         \/ \E c \in Chains : Answers(c) \/ StartFails(c) \/ TimeOut(c) \/ Step(c)
         \/ \E i \in 1 .. Len(Saved) : StartSaved(i)
         \/ \E o \in offers : Reconnect(o)
         \/ UNCHANGED vars,
         NEW id, NEW t, Says(id, t)'
  PROVE  Says(id, t)
<1>1. UNCHANGED <<events, life, up, sessions, nextId>> /\ offers' \subseteq offers
  BY Calling
<1>2. /\ Runs(id, t)' => Runs(id, t)
      /\ Hear(id, t)' => Hear(id, t)
      /\ Shows(id, t)' => Shows(id, t)
  BY <1>1 DEF Runs, Hear, Shows
<1>3. SUFFICES (Reply(id, t)' => Says(id, t)) /\ (Keeps(id, t)' => Says(id, t))
  BY <1>2 DEF Says
<1>4. odd \in Histories
  BY DEF Typed
<1>5. ASSUME NEW c \in Chains, Answers(c)
      PROVE  (Reply(id, t)' => Says(id, t)) /\ (Keeps(id, t)' => Says(id, t))
  <2>1. /\ Ending(c, "ok") /\ ~Starts(c) /\ life' = life
        /\ chain'[c].got = (IF chain[c].pc = "list" THEN sessions ELSE <<>>)
        /\ replay' = replay /\ odd' = odd
    BY <1>5, AnswersDoes DEF Answers, screen
  <2>2. Reply(id, t)' => Reply(id, t) \/ Runs(id, t)
    BY <2>1 DEF Reply, Runs, Ending, Others, Starts
  <2>3. QED
    BY <2>1, <2>2, KeepsSame DEF Says
<1>6. ASSUME NEW c \in Chains, StartFails(c) \/ TimeOut(c)
      PROVE  (Reply(id, t)' => Says(id, t)) /\ (Keeps(id, t)' => Says(id, t))
  <2>1. Others(c) /\ chain'[c].st = "failed"
    <3>1. CASE StartFails(c)
      BY <3>1, StartFailsDoes DEF Ending
    <3>2. CASE TimeOut(c)
      BY <3>2, TypedSays, TimeOutDoes
    <3>3. QED
      BY <1>6, <3>1, <3>2
  <2>2. replay' = replay
    BY <1>6 DEF StartFails, TimeOut, screen
  <2>3. odd'.orphans = odd.orphans
    BY <1>4, <1>6 DEF StartFails, TimeOut, Histories
  <2>4. QED
    BY <1>1, <2>1, <2>2, <2>3, ReplyLess, KeepsSame DEF Says
<1>7. ASSUME NEW c \in Chains, Step(c)
      PROVE  (Reply(id, t)' => Says(id, t)) /\ (Keeps(id, t)' => Says(id, t))
  <2>1. Others(c) /\ chain'[c].st # "ok"
    BY <1>7, Turning, IdleIs DEF Turns
  <2>2. CASE WaitEnds(c) \/ GivesUp(c) \/ Pinged(c)
    <3>1. replay' = replay /\ odd' = odd
      BY <2>2 DEF WaitEnds, GivesUp, Pinged, screen
    <3>2. QED
      BY <1>1, <2>1, <3>1, ReplyLess, KeepsSame DEF Says
  <2>3. CASE Listed(c)
    <3>1. replay' = replay /\ odd'.orphans = odd.orphans
      BY <1>4, <2>3 DEF Listed, Histories
    <3>2. QED
      BY <1>1, <2>1, <3>1, ReplyLess, KeepsSame DEF Says
  <2>4. CASE Limited(c)
    <3>1. replay' = replay
      BY <2>4 DEF Limited, screen
    <3>2. \/ odd' = odd \/ odd' = [odd EXCEPT !.heldOff = @ \/ loop # life]
          \/ \E n \in Nat : GoesOn(c, 1, n, odd)
      BY <2>4, LimitedDoes
    <3>3. odd'.orphans = odd.orphans
      BY <1>4, <3>2 DEF GoesOn, Histories
    <3>4. QED
      BY <1>1, <2>1, <3>1, <3>3, ReplyLess, KeepsSame DEF Says
  <2>5. CASE Started(c)
    BY <1>1, <2>1, <2>5, ReplyLess, StartedKeeps DEF Says
  <2>6. CASE Reconnected(c)
    <3>1. odd'.orphans = odd.orphans /\ (replay' = replay \/ replay' = Drop(replay, chain[c].i))
      BY <1>4, <2>6 DEF Reconnected, Histories
    <3>2. Keeps(id, t)' => Keeps(id, t)
      <4>1. DOMAIN replay' \subseteq DOMAIN replay /\ \A i \in DOMAIN replay' : replay'[i] = replay[i]
        BY <3>1, TypedSays, DropLess
      <4>2. QED
        BY <3>1, <4>1 DEF Keeps
    <3>3. QED
      BY <1>1, <2>1, <3>2, ReplyLess DEF Says
  <2>7. QED
    BY <1>7, <2>2, <2>3, <2>4, <2>5, <2>6 DEF Step
<1>8. CASE (\E i \in 1 .. Len(Saved) : StartSaved(i)) \/ (\E o \in offers : Reconnect(o))
  <2>1. Others(User) /\ chain'[User].st # "ok" /\ User \in Chains
    BY <1>8, UserTurns, ChainNames DEF Turns
  <2>2. replay' = replay
    BY <1>8 DEF StartSaved, Reconnect, screen
  <2>3. odd'.orphans = odd.orphans
    BY <1>4, <1>8 DEF StartSaved, Reconnect, Histories
  <2>4. QED
    BY <1>1, <2>1, <2>2, <2>3, ReplyLess, KeepsSame DEF Says
<1>9. CASE UNCHANGED vars
  BY <1>9 DEF vars, worker, screen, Says, Reply, Keeps
<1>10. QED
  BY <1>5, <1>6, <1>7, <1>8, <1>9

LEMMA SaysHearing ==
  ASSUME Typed, EventsOK, Hears, NEW id, NEW t, Says(id, t)'
  PROVE  Says(id, t)
<1>1. /\ Shifts /\ \A c \in Chains : (e.ev # "ready" \/ c # <<"ready", e.life>>) => Waits(c)
      /\ OnReady <=> e.ev = "ready"
  BY Hearing
<1>2. UNCHANGED <<life, up, sessions>> /\ e = events[1] /\ 1 \in DOMAIN events
  BY <1>1 DEF Shifts
<1>3. odd \in Histories
  BY DEF Typed
<1>4. Runs(id, t)' => Runs(id, t)
  BY <1>2 DEF Runs
<1>5. Hear(id, t)' => Hear(id, t)
  BY <1>1, <1>2 DEF Hear, Shifts
<1>6. Reply(id, t)' => Reply(id, t)
  <2>1. SUFFICES ASSUME NEW c \in Chains, chain'[c].life = life, chain'[c].st = "ok",
                        chain'[c].pc \in {"list", "start"},
                        id \in DOMAIN chain'[c].got, chain'[c].got[id] = t
                 PROVE  Reply(id, t)
    BY <1>2 DEF Reply
  <2>2. e.ev # "ready" \/ c # <<"ready", e.life>>
    BY <1>1, <2>1, OnReadyDoes, IdleIs
  <2>3. Waits(c)
    BY <1>1, <2>2
  <2>4. QED
    BY <2>1, <2>3 DEF Waits, Reply
<1>7. Shows(id, t)' => Shows(id, t) \/ Hear(id, t)
  <2>1. offers' = offers \/ OnError
    BY DEF Hears, OnReady, OnExit, OnUpdate, OnState, OnStopped, screen
  <2>2. CASE OnError
    <3>1. offers' \subseteq offers \cup {[id |-> e.id, t |-> e.t, life |-> e.life]}
      BY <2>2 DEF OnError, Offer
    <3>2. e.ev \in Told
      BY <2>2, Hearing DEF Told
    <3>3. QED
      BY <1>2, <3>1, <3>2 DEF Shows, Hear
  <2>3. QED
    BY <1>2, <2>1, <2>2 DEF Shows
<1>8. Keeps(id, t)' => Keeps(id, t)
  <2>1. CASE OnExit
    <3>1. DOMAIN replay' = {}
      BY <2>1, EmptyMap DEF OnExit
    <3>2. QED
      BY <3>1 DEF Keeps
  <2>2. CASE OnStopped
    <3>1. odd'.orphans = odd.orphans /\ (replay' = replay \/ replay' = Drop(replay, e.id))
      BY <1>3, <2>2 DEF OnStopped, Histories
    <3>2. DOMAIN replay' \subseteq DOMAIN replay /\ \A i \in DOMAIN replay' : replay'[i] = replay[i]
      BY <3>1, TypedSays, DropLess
    <3>3. QED
      BY <3>1, <3>2 DEF Keeps
  <2>3. CASE OnReady \/ OnUpdate \/ OnState \/ OnError
    <3>1. odd'.orphans = odd.orphans /\ replay' = replay
      BY <1>3, <2>3 DEF OnReady, OnUpdate, OnState, OnError, Histories, screen
    <3>2. QED
      BY <3>1, KeepsSame
  <2>4. QED
    BY <2>1, <2>2, <2>3 DEF Hears
<1>9. QED
  BY <1>4, <1>5, <1>6, <1>7, <1>8 DEF Says

LEMMA SaysBeginning ==
  ASSUME Typed, CallsOK,
         (\E c \in Chains : StartsTunnel(c)) \/ (\E t \in Tunnels : StartsLate(t))
  PROVE  /\ nextId \in Nat /\ nextId' = nextId + 1
         /\ \E new \in Tunnels : \A id, t :
               Says(id, t)' => Says(id, t) \/ (id = nextId /\ t = new)
<1>1. PICK new \in Tunnels : /\ NewSession(new) /\ Writes(Written("update", nextId, new))
                             /\ \/ \E c \in Chains : StartsTunnel(c) /\ new = Target(chain[c])
                                \/ StartsLate(new)
  BY Beginning
<1>2. UNCHANGED <<life, up, offers, replay>>
  BY Beginning
<1>3. odd'.orphans = odd.orphans
  <2>1. odd \in Histories
    BY DEF Typed
  <2>2. QED
    BY <2>1 DEF StartsTunnel, StartsLate, Histories
<1>4. ASSUME NEW id, NEW t, Says(id, t)' PROVE Says(id, t) \/ (id = nextId /\ t = new)
  <2>1. Runs(id, t)' => Runs(id, t) \/ (id = nextId /\ t = new)
    BY <1>1, NewSessionIs DEF Runs
  <2>2. Hear(id, t)' => Hear(id, t) \/ (id = nextId /\ t = new)
    BY <1>1, <1>2 DEF Hear, Writes, Written
  <2>3. Reply(id, t)' => Reply(id, t) \/ (id = nextId /\ t = new)
    <3>1. CASE StartsLate(new)
      BY <1>2, <3>1 DEF Reply, StartsLate
    <3>2. ASSUME NEW c \in Chains, StartsTunnel(c), new = Target(chain[c])
          PROVE  Reply(id, t)' => Reply(id, t) \/ (id = nextId /\ t = new)
      <4>1. /\ Others(c) /\ DOMAIN chain'[c].got = {nextId}
            /\ chain'[c].got[nextId] = new
        BY <3>2, StartsTunnelDoes DEF Ending
      <4>2. QED
        BY <1>2, <4>1 DEF Reply, Others
    <3>3. QED
      BY <1>1, <3>1, <3>2
  <2>4. Shows(id, t)' => Shows(id, t)
    BY <1>2 DEF Shows
  <2>5. Keeps(id, t)' => Keeps(id, t)
    BY <1>2, <1>3, KeepsSame
  <2>6. QED
    BY <1>4, <2>1, <2>2, <2>3, <2>4, <2>5 DEF Says
<1>5. QED
  BY <1>1, <1>4, NewSessionIs

\* No call was made to a worker that is not there yet.
LEMMA SaysNothing ==
  ASSUME Typed, CallsOK, EventsOK, Respawn \/ Restart, NEW id, NEW t, Says(id, t)'
  PROVE  FALSE
<1>1. /\ life \in Nat /\ life' = life + 1 /\ events' = events /\ offers' = offers
      /\ replay' = replay /\ sessions' = <<>>
  BY TypedSays DEF Respawn, Restart, Spawned, screen
<1>2. ~Runs(id, t)'
  BY <1>1, EmptyMap DEF Runs
<1>3. ~Hear(id, t)'
  BY <1>1, TypedSays DEF Hear, EventsOK, EventOK, Events
<1>4. ~Reply(id, t)'
  <2>1. SUFFICES ASSUME NEW c \in Chains, chain'[c].life = life + 1, chain'[c].st = "ok"
                 PROVE  FALSE
    BY <1>1 DEF Reply
  <2>2. CASE Respawn
    <3>1. chain'[c] = chain[c] /\ chain[c].life <= life
      BY <2>2 DEF Respawn, CallsOK, CallOK
    <3>2. QED
      BY <1>1, <2>1, <3>1
  <2>3. CASE Restart
    <3>1. Others(Button) /\ chain'[Button].st = "none"
      BY <2>3, RestartDoes
    <3>2. chain'[c] = chain[c] /\ chain[c].life <= life
      BY <2>1, <3>1 DEF Others, CallsOK, CallOK
    <3>3. QED
      BY <1>1, <2>1, <3>2
  <2>4. QED
    BY <2>2, <2>3
<1>5. ~Shows(id, t)'
  BY <1>1 DEF Shows, EventsOK, Typed
<1>6. ~Keeps(id, t)'
  <2>1. odd'.orphans = DOMAIN replay
    BY DEF Respawn, Restart, Spawned, Nothing
  <2>2. QED
    BY <1>1, <2>1 DEF Keeps
<1>7. QED
  BY <1>2, <1>3, <1>4, <1>5, <1>6 DEF Says

LEMMA SaysStep ==
  ASSUME Typed, CallsOK, EventsOK, OneTunnelPerId, [Next]_vars
  PROVE  OneTunnelPerId'
<1>1. nextId \in Nat /\ odd \in Histories /\ nextId <= nextId
  BY DEF Typed
<1>2. CASE \/ \E c \in Chains : Answers(c) \/ StartFails(c) \/ TimeOut(c) \/ Step(c)
           \/ \E i \in 1 .. Len(Saved) : StartSaved(i)
           \/ \E o \in offers : Reconnect(o)
           \/ UNCHANGED vars
  <2>1. nextId' = nextId
    BY <1>2, Calling
  <2>2. QED
    BY <1>1, <1>2, <2>1, SaysCalling, SaysLess
<1>3. CASE (\E c \in Chains : StartsTunnel(c)) \/ (\E t \in Tunnels : StartsLate(t))
  BY <1>3, SaysBeginning, SaysNew
<1>4. ASSUME NEW i \in DOMAIN sessions, SessionFails(i) \/ Stop(i) PROVE OneTunnelPerId'
  <2>1. /\ DOMAIN sessions' = DOMAIN sessions \ {i}
        /\ \A j \in DOMAIN sessions' : sessions'[j] = sessions[j]
        /\ \A k \in DOMAIN events : k \in DOMAIN events' /\ events'[k] = events[k]
        /\ events'[Len(events')] = Written("stopped", i, sessions[i])
        /\ \A k \in DOMAIN events' : \/ k \in DOMAIN events \/ k = Len(events')
                                     \/ events'[k] = Written("error", i, sessions[i])
        /\ odd' = [odd EXCEPT !.touched = @ \cup {sessions[i]}]
    BY <1>4, EndsDoes
  <2>2. UNCHANGED <<life, up, nextId, capped, late, status, screen, loop, chain>>
    BY <1>4, EndsDoes
  <2>3. odd'.orphans = odd.orphans /\ replay' = replay /\ offers' = offers
    BY <1>1, <2>1, <2>2 DEF screen, Histories
  <2>4. ASSUME NEW id, NEW t, Says(id, t)' PROVE Says(id, t)
    <3>1. Runs(id, t)' => Runs(id, t)
      BY <2>1 DEF Runs
    <3>2. Hear(id, t)' => Hear(id, t) \/ Runs(id, t)
      BY <2>1, <2>2 DEF Hear, Runs, Written
    <3>3. /\ Reply(id, t)' => Reply(id, t)
          /\ Shows(id, t)' => Shows(id, t)
          /\ Keeps(id, t)' => Keeps(id, t)
      BY <2>2, <2>3 DEF Reply, Shows, Keeps
    <3>4. QED
      BY <2>4, <3>1, <3>2, <3>3 DEF Says
  <2>5. QED
    BY <1>1, <2>2, <2>4, SaysLess
<1>5. CASE Ready
  <2>1. Writes(Written("ready", 0, 0))
    BY <1>5, ReadyDoes
  <2>2. UNCHANGED <<life, sessions, nextId, screen, chain, odd>>
    BY <1>5 DEF Ready
  <2>3. ASSUME NEW id, NEW t, Says(id, t)' PROVE Says(id, t)
    <3>1. Hear(id, t)' => Hear(id, t)
      BY <2>1, <2>2 DEF Hear, Writes, Written, Told
    <3>2. QED
      BY <2>2, <2>3, <3>1 DEF Says, Runs, Reply, Shows, Keeps, screen
  <2>4. QED
    BY <1>1, <2>2, <2>3, SaysLess
<1>6. CASE Crash
  <2>1. PICK n \in Nat, d \in Nat : Inserts(n) /\ Drains(d)
    BY <1>6, CrashIs
  <2>2. UNCHANGED <<life, nextId, screen, odd>> /\ sessions' = <<>>
    BY <1>6 DEF Crash
  <2>3. ASSUME NEW id, NEW t, Says(id, t)' PROVE Says(id, t)
    <3>1. Hear(id, t)' => Hear(id, t)
      BY <2>1, <2>2 DEF Hear, Inserts, Told
    <3>2. ~Runs(id, t)'
      BY <2>2, EmptyMap DEF Runs
    <3>3. Reply(id, t)' => Reply(id, t)
      BY <2>1, <2>2 DEF Reply, Drains
    <3>4. QED
      BY <2>2, <2>3, <3>1, <3>2, <3>3 DEF Says, Shows, Keeps, screen
  <2>4. QED
    BY <1>1, <2>2, <2>3, SaysLess
<1>7. CASE Respawn \/ Restart
  BY <1>7, SaysNothing DEF OneTunnelPerId
<1>8. CASE Hears
  <2>1. nextId' = nextId
    BY <1>8, Hearing DEF Shifts
  <2>2. QED
    BY <1>1, <1>8, <2>1, SaysHearing, SaysLess
<1>9. CASE Murmurs
  <2>1. /\ UNCHANGED <<life, sessions, nextId, screen, chain, odd>>
        /\ \A k \in DOMAIN events : events'[k] = events[k]
        /\ \A k \in DOMAIN events' : k \in DOMAIN events \/ events'[k].ev = "state"
    BY <1>9, MurmursDoes
  <2>2. ASSUME NEW id, NEW t, Says(id, t)' PROVE Says(id, t)
    <3>1. Hear(id, t)' => Hear(id, t)
      BY <2>1 DEF Hear, Told
    <3>2. QED
      BY <2>1, <2>2, <3>1 DEF Says, Runs, Reply, Shows, Keeps, screen
  <2>3. QED
    BY <1>1, <2>1, <2>2, SaysLess
<1>10. QED
  BY <1>2, <1>3, <1>4, <1>5, <1>6, <1>7, <1>8, <1>9, NextIs

LEMMA WorkerStep ==
  ASSUME Worker, [Next]_vars
  PROVE  Worker'
<1>1. Typed' /\ CallsOK'
  BY TypedStep, CallsStep DEF Worker
<1>2. EventsOK' /\ ReadyOnce' /\ OneTunnelPerId'
  BY EventsStep, ReadyStep, SaysStep DEF Worker
<1>3. QED
  BY <1>1, <1>2 DEF Worker

LEMMA WorkerInit ==
  ASSUME Init
  PROVE  Worker
<1>1. /\ life = 1 /\ up \in {"starting", "up"} /\ sessions = <<>> /\ nextId = 1
      /\ capped = FALSE /\ late = {} /\ events = <<>> /\ restartHidden = TRUE
      /\ loaded = FALSE /\ cards = <<>> /\ blank = {} /\ replay = <<>> /\ errored = {}
      /\ offers = {} /\ loop = 0 /\ faults = 0 /\ odd = Nothing
  BY DEF Init
<1>2. DOMAIN sessions = {} /\ DOMAIN events = {} /\ DOMAIN replay = {} /\ Len(events) = 0
  BY <1>1, EmptyMap
<1>3. odd \in Histories
  BY <1>1 DEF Nothing, Histories
<1>4. /\ chain \in [Chains -> Calls]
      /\ \A c \in Chains \ {Boot} : chain[c] = Idle
      /\ LET q == chain[Boot] IN
         /\ q.pc = "wait" /\ q.st = "none" /\ q.born = 1 /\ q.life = 0 /\ q.after = 0 /\ q.i = 0
  <2> DEFINE a == [c \in Chains |-> Idle]
             b == [a EXCEPT ![Boot].pc = "wait"]
             w == [Idle EXCEPT !.pc = "wait"]
             q == [w EXCEPT !.born = 1]
  <2>1. chain = [b EXCEPT ![Boot].born = 1]
    BY DEF Init
  <2>2. w \in Calls /\ w.pc = "wait" /\ w.st = "none" /\ w.life = 0 /\ w.after = 0 /\ w.i = 0
    BY IdleIs DEF Calls, Steps
  <2>3. b = [c \in Chains |-> IF c = Boot THEN w ELSE Idle]
    BY ChainNames
  <2> HIDE DEF b, w
  <2>4. q \in Calls /\ q.pc = "wait" /\ q.st = "none" /\ q.born = 1 /\ q.life = 0
        /\ q.after = 0 /\ q.i = 0
    BY <2>2 DEF Calls
  <2>5. chain = [c \in Chains |-> IF c = Boot THEN q ELSE Idle]
    BY <2>1, <2>3, ChainNames
  <2> HIDE DEF q
  <2>6. QED
    BY <2>4, <2>5, IdleIs, ChainNames
<1>5. Typed
  <2>1. life \in Lives /\ loop \in 0 .. life /\ faults \in 0 .. MaxFaults
    BY <1>1, Constants
  <2>2. {sessions, cards, replay} \subseteq Maps
    BY <1>1, EmptyMap
  <2>3. events \in Seq(Events)
    BY <1>1
  <2>4. {capped, restartHidden, loaded} \subseteq BOOLEAN
    BY <1>1
  <2>5. QED
    BY <1>1, <1>2, <1>3, <1>4, <2>1, <2>2, <2>3, <2>4 DEF Typed
<1>6. CallsOK
  <2>1. CallOK(Idle)
    BY <1>1, <1>2, IdleIs DEF CallOK
  <2>2. CallOK(chain[Boot])
    BY <1>1, <1>2, <1>4 DEF CallOK
  <2>3. QED
    BY <1>4, <2>1, <2>2, IdleIs, ChainNames DEF CallsOK
<1>7. EventsOK /\ ReadyOnce
  <2>1. EventsOK
    BY <1>1, <1>2 DEF EventsOK
  <2>2. ReadyOnce
    BY <1>2, <1>4, IdleIs, ChainNames DEF ReadyOnce
  <2>3. QED
    BY <2>1, <2>2
<1>8. OneTunnelPerId
  <2>1. \A id, t : ~Says(id, t)
    BY <1>1, <1>2, <1>4, IdleIs DEF Says, Runs, Hear, Reply, Shows, Keeps
  <2>2. QED
    BY <2>1 DEF OneTunnelPerId
<1>9. QED
  BY <1>5, <1>6, <1>7, <1>8 DEF Worker

-----------------------------------------------------------------------------
(* The histories.                                                           *)

Grows ==
    /\ odd.touched \subseteq odd'.touched /\ odd.skipped \subseteq odd'.skipped
    /\ odd.heldOff => odd'.heldOff
    /\ odd.gaveUp => odd'.gaveUp
    /\ odd.uncapped => odd'.uncapped

(* What the properties except of a worker, they go on to except.            *)
LEMMA OddGrows ==
  ASSUME Typed, CallsOK, [Next]_vars, ~Respawn, ~Restart
  PROVE  Grows
<1>1. odd \in Histories
  BY DEF Typed
<1>2. CASE odd' = odd
  BY <1>2 DEF Grows
<1>3. ASSUME NEW more, odd' = [odd EXCEPT !.touched = @ \cup more] PROVE Grows
  BY <1>1, <1>3 DEF Histories, Grows
<1>4. ASSUME NEW more, odd' = [odd EXCEPT !.stale = more] PROVE Grows
  BY <1>1, <1>4 DEF Histories, Grows
<1>5. ASSUME NEW c \in Chains, Answers(c) \/ StartFails(c) PROVE Grows
  BY <1>2, <1>3, <1>5 DEF Answers, StartFails
<1>6. ASSUME NEW c \in Chains, StartsTunnel(c) PROVE Grows
  BY <1>1, <1>6 DEF Histories, Grows, StartsTunnel
<1>7. ASSUME NEW c \in Chains, TimeOut(c) PROVE Grows
  <2>1. CASE ~Asks(c)
    BY <1>2, <1>7, <2>1 DEF TimeOut
  <2>2. CASE Asks(c)
    <3> DEFINE tt == IF Starts(c) THEN odd.touched \cup {Target(chain[c])} ELSE odd.touched
               gg == odd.gaveUp \/ chain[c].pc \in {"ping", "list"}
               uu == odd.uncapped \/ chain[c].pc = "limit"
    <3>1. /\ odd.touched \subseteq tt
          /\ odd.gaveUp => gg
          /\ odd.uncapped => uu
      OBVIOUS
    <3>2. odd' = [odd EXCEPT !.touched = tt, !.gaveUp = gg, !.uncapped = uu]
      BY <1>7, <2>2 DEF TimeOut
    <3> HIDE DEF tt, gg, uu
    <3>3. QED
      BY <1>1, <3>1, <3>2 DEF Histories, Grows
  <2>3. QED
    BY <2>1, <2>2
<1>8. ASSUME NEW t \in Tunnels, StartsLate(t) PROVE Grows
  BY <1>1, <1>8 DEF Histories, Grows, StartsLate
<1>9. ASSUME NEW id \in DOMAIN sessions, SessionFails(id) \/ Stop(id) PROVE Grows
  BY <1>3, <1>9 DEF SessionFails, Stop, Ends
<1>10. CASE Ready \/ Crash \/ Murmurs
  BY <1>2, <1>10, MurmursDoes DEF Ready, Crash
<1>11. CASE (\E i \in 1 .. Len(Saved) : StartSaved(i)) \/ (\E o \in offers : Reconnect(o))
  BY <1>3, <1>11 DEF StartSaved, Reconnect
<1>12. CASE Hears
  <2>1. CASE OnExit
    BY <1>1, <2>1 DEF OnExit, Histories, Grows
  <2>2. CASE ~OnExit
    BY <1>2, <1>4, <1>12, <2>2 DEF Hears, OnReady, OnUpdate, OnState, OnError, OnStopped
  <2>3. QED
    BY <2>1, <2>2
<1>13. ASSUME NEW c, NEW i, NEW n, NEW o \in Histories, GoesOn(c, i, n, o),
              \/ o = odd \/ \E more : o = [odd EXCEPT !.orphans = more]
       PROVE  Grows
  <2> DEFINE more == {t \in {Saved[j] : j \in i .. n - 1} : ~Alive(t)}
  <2>1. odd' = [o EXCEPT !.skipped = @ \cup more]
    BY <1>13 DEF GoesOn
  <2> HIDE DEF more
  <2>2. QED
    BY <1>1, <1>13, <2>1 DEF Histories, Grows
<1>14. ASSUME NEW c \in Chains, Limited(c) PROVE Grows
  <2>1. \/ odd' = odd \/ odd' = [odd EXCEPT !.heldOff = @ \/ loop # life]
        \/ \E n \in Nat : GoesOn(c, 1, n, odd)
    BY <1>14, LimitedDoes
  <2>2. CASE odd' = [odd EXCEPT !.heldOff = @ \/ loop # life]
    BY <1>1, <2>2 DEF Histories, Grows
  <2>3. QED
    BY <1>1, <1>2, <1>13, <2>1, <2>2
<1>15. ASSUME NEW c \in Chains, Started(c) PROVE Grows
  <2> DEFINE new  == DOMAIN chain[c].got
             more == (odd.orphans \ new) \cup Gone(c) \cup (new \cap errored)
             o    == [odd EXCEPT !.orphans = more]
  <2>1. o \in Histories /\ (odd' = o \/ \E n \in Nat : GoesOn(c, chain[c].i + 1, n, o))
    BY <1>15, StartedDoes
  <2>2. \E x : o = [odd EXCEPT !.orphans = x]
    OBVIOUS
  <2>3. o.touched = odd.touched /\ o.skipped = odd.skipped /\ o.heldOff = odd.heldOff
        /\ o.gaveUp = odd.gaveUp /\ o.uncapped = odd.uncapped
    BY <1>1 DEF Histories
  <2> HIDE DEF o
  <2>4. CASE odd' = o
    BY <2>3, <2>4 DEF Grows
  <2>5. QED
    BY <1>13, <2>1, <2>2, <2>4
<1>16. ASSUME NEW c \in Chains,
              WaitEnds(c) \/ GivesUp(c) \/ Pinged(c) \/ Listed(c) \/ Reconnected(c)
       PROVE  Grows
  <2>1. ASSUME NEW more, odd' = [odd EXCEPT !.used = more] PROVE Grows
    BY <1>1, <2>1 DEF Histories, Grows
  <2>2. QED
    BY <1>2, <1>4, <1>16, <2>1 DEF WaitEnds, GivesUp, Pinged, Listed, Reconnected
<1>17. CASE UNCHANGED vars
  BY <1>2, <1>17 DEF vars
<1>18. QED
  BY <1>5, <1>6, <1>7, <1>8, <1>9, <1>10, <1>11, <1>12, <1>14, <1>15, <1>16, <1>17, NextIs DEF Step

-----------------------------------------------------------------------------
(* The limit is back before the tunnels are.                                *)

(* A chain comes to start tunnels from its call to set the limit.           *)
LEMMA ComesToStart ==
  ASSUME Typed, CallsOK, NEW c \in Chains, Step(c), chain'[c].pc = "start"
  PROVE  /\ chain'[c].born = chain[c].born
         /\ \/ chain[c].pc = "start"
            \/ chain[c].pc = "limit" /\ chain[c].st \in {"ok", "failed"}
<1>1. chain'[c].born = chain[c].born
  BY Turning, IdleIs
<1>2. CASE WaitEnds(c) \/ Pinged(c) \/ Listed(c)
  <2>1. PICK pc \in {"ping", "list", "limit"} : chain' = [chain EXCEPT ![c] = Ask(chain[c], pc, 0)]
    BY <1>2 DEF WaitEnds, Pinged, Listed, Goto
  <2>2. pc \in Steps
    BY DEF Steps
  <2>3. chain'[c].pc \in {pc, "idle"}
    BY <2>1, <2>2, AskDoes, IdleIs
  <2>4. QED
    BY <2>3
<1>3. CASE GivesUp(c) \/ Reconnected(c)
  BY <1>3, EndsIdle, IdleIs DEF GivesUp, Reconnected, Goto
<1>4. CASE Limited(c)
  BY <1>1, <1>4, LimitedDoes
<1>5. CASE Started(c)
  BY <1>1, <1>5, StartedDoes
<1>6. QED
  BY <1>2, <1>3, <1>4, <1>5 DEF Step

LEMMA CapStep ==
  ASSUME Worker, Cap, [Next]_vars
  PROVE  Cap'
<1> USE DEF Worker
<1>1. /\ life \in Nat /\ odd \in Histories /\ capped \in BOOLEAN /\ odd.uncapped \in BOOLEAN
      /\ \A c \in Chains : chain[c] \in Calls /\ chain[c].born \in Nat /\ chain[c].life \in Nat
      /\ \A c \in Chains : CallOK(chain[c])
  BY TypedSays, CallsAre DEF Typed, Histories, CallsOK
<1> DEFINE May(c) == /\ chain[c].born = life
                     /\ \/ chain[c].pc = "start"
                        \/ chain[c].pc = "limit" /\ chain[c].st \in {"ok", "failed"}
           Set == capped \/ odd.uncapped
<1>2. ASSUME DOMAIN sessions' \subseteq DOMAIN sessions, Set => Set',
             up = "down" => up' = "down",
             \A c \in Chains \ {User} : May(c)' => May(c) \/ Set'
      PROVE  Cap'
  BY <1>2 DEF Cap, CapFirst, CapReady
<1>3. ASSUME capped => capped', ~Respawn, ~Restart PROVE Set => Set'
  BY <1>3, OddGrows DEF Grows
<1>4. CASE Respawn \/ Restart
  <2>1. life' = life + 1 /\ sessions' = <<>>
    BY <1>4 DEF Respawn, Restart, Spawned
  <2>2. \A c \in Chains : ~May(c)'
    <3>1. CASE Respawn
      BY <1>1, <2>1, <3>1 DEF Respawn, CallOK
    <3>2. CASE Restart
      <4>1. Others(Button) /\ chain'[Button].pc = "wait"
        BY <3>2, RestartDoes
      <4>2. QED
        BY <1>1, <2>1, <4>1 DEF Others, CallOK
    <3>3. QED
      BY <1>4, <3>1, <3>2
  <2>3. QED
    BY <2>1, <2>2, EmptyMap DEF Cap, CapFirst, CapReady
<1>5. CASE Crash
  BY <1>5, EmptyMap DEF Crash, Cap, CapFirst, CapReady
<1>6. ASSUME NEW c \in Chains, Answers(c) PROVE Cap'
  <2>1. Ending(c, "ok") /\ life' = life /\ up' = up
    BY <1>6, AnswersDoes
  <2>2. sessions' = sessions /\ capped' = (capped \/ chain[c].pc = "limit") /\ odd' = odd
    BY <1>6 DEF Answers
  <2>3. ASSUME NEW d \in Chains \ {User}, May(d)' PROVE May(d) \/ Set'
    BY <2>1, <2>2, <2>3 DEF Ending, Others
  <2>4. QED
    BY <1>2, <2>1, <2>2, <2>3
<1>7. ASSUME NEW c \in Chains, StartsTunnel(c) PROVE Cap'
  <2>1. Ending(c, "ok") /\ life' = life /\ up' = up /\ up = "up" /\ Starts(c)
    BY <1>7, StartsTunnelDoes
  <2>2. capped' = capped /\ odd'.uncapped = (odd.uncapped \/ c = User \/ chain[c].born # life)
    BY <1>1, <1>7 DEF StartsTunnel, Histories
  <2>3. \A d \in Chains \ {User} : May(d)' => May(d)
    BY <2>1 DEF Ending, Others, Starts
  <2>4. Set'
    <3>1. CASE c = User \/ chain[c].born # life
      BY <2>2, <3>1
    <3>2. CASE c # User /\ chain[c].born = life
      <4>1. chain[c].pc = "start"
        BY <2>1, <3>2 DEF Starts, CallsOK
      <4>2. capped \/ odd.uncapped
        BY <2>1, <3>2, <4>1 DEF CapReady, Cap
      <4>3. QED
        BY <2>2, <4>2
    <3>3. QED
      BY <3>1, <3>2
  <2>5. QED
    BY <2>4 DEF Cap, CapFirst, CapReady
<1>8. ASSUME NEW c \in Chains, StartFails(c) PROVE Cap'
  <2>1. Ending(c, "failed") /\ life' = life /\ up' = up /\ Starts(c)
    BY <1>8, StartFailsDoes
  <2>2. capped' = capped /\ sessions' = sessions /\ ~Respawn /\ ~Restart
    BY <1>1, <1>8, <2>1 DEF StartFails, worker, Respawn, Restart, Spawned
  <2>3. \A d \in Chains \ {User} : May(d)' => May(d)
    BY <2>1 DEF Ending, Others, Starts
  <2>4. QED
    BY <1>2, <1>3, <2>1, <2>2, <2>3
<1>9. ASSUME NEW c \in Chains, TimeOut(c) PROVE Cap'
  <2>1. Ending(c, "failed") /\ life' = life /\ up' = up
    BY <1>9, TypedSays, TimeOutDoes DEF Ending, TimeOut
  <2>2. capped' = capped /\ sessions' = sessions /\ ~Respawn /\ ~Restart
    BY <1>1, <1>9, <2>1 DEF TimeOut, Respawn, Restart, Spawned
  <2>3. ASSUME NEW d \in Chains \ {User}, May(d)' PROVE May(d) \/ Set'
    <3>1. CASE d # c \/ chain[c].pc = "start"
      BY <2>1, <2>3, <3>1 DEF Ending, Others
    <3>2. CASE d = c /\ chain[c].pc # "start"
      <4>1. chain[c].pc = "limit" /\ chain[c].born = life /\ chain[c].st = "sent"
        BY <2>1, <2>3, <3>2 DEF Ending
      <4>2. chain[c].life = life /\ Asks(c)
        BY <1>1, <4>1 DEF CallOK, Asks
      <4>3. odd'.uncapped
        BY <1>1, <1>9, <4>1, <4>2 DEF TimeOut, Histories
      <4>4. QED
        BY <4>3
    <3>3. QED
      BY <3>1, <3>2
  <2>4. QED
    BY <1>2, <1>3, <2>1, <2>2, <2>3
<1>10. ASSUME NEW c \in Chains, Step(c) PROVE Cap'
  <2>1. Turns(c) /\ life' = life /\ up' = up
    BY <1>10, Turning
  <2>2. capped' = capped /\ sessions' = sessions /\ ~Respawn /\ ~Restart
    BY <1>1, <1>10, <2>1 DEF Step, WaitEnds, GivesUp, Pinged, Listed, Limited, Started,
                        Reconnected, worker, Respawn, Restart, Spawned
  <2>3. ASSUME NEW d \in Chains \ {User}, May(d)' PROVE May(d)
    <3>1. CASE d # c
      BY <2>1, <2>3, <3>1 DEF Turns, Others
    <3>2. CASE d = c
      <4>1. chain'[c].pc = "start"
        BY <2>1, <2>3, <3>2, IdleIs DEF Turns
      <4>2. QED
        BY <1>10, <2>1, <2>3, <3>2, <4>1, ComesToStart
    <3>3. QED
      BY <3>1, <3>2
  <2>4. QED
    BY <1>2, <1>3, <2>1, <2>2, <2>3
<1>11. ASSUME NEW t \in Tunnels, StartsLate(t) PROVE Cap'
  <2>1. odd'.uncapped
    BY <1>1, <1>11 DEF StartsLate, Histories
  <2>2. QED
    BY <2>1 DEF Cap, CapFirst, CapReady
<1>12. ASSUME NEW id \in DOMAIN sessions, SessionFails(id) \/ Stop(id) PROVE Cap'
  <2>1. DOMAIN sessions' \subseteq DOMAIN sessions
    BY <1>12, EndsDoes
  <2>2. UNCHANGED <<life, up, nextId, capped, late, status, screen, loop, chain>>
    BY <1>12, EndsDoes
  <2>3. ~Respawn /\ ~Restart
    BY <1>1, <2>2 DEF Respawn, Restart, Spawned
  <2>4. QED
    BY <1>2, <1>3, <2>1, <2>2, <2>3
<1>13. CASE Ready \/ Murmurs
  <2>1. UNCHANGED <<life, sessions, capped, odd, chain>> /\ up # "down"
    BY <1>13, MurmursDoes DEF Ready
  <2>2. QED
    BY <1>2, <2>1
<1>14. CASE (\E i \in 1 .. Len(Saved) : StartSaved(i)) \/ (\E o \in offers : Reconnect(o))
  <2>1. Turns(User) /\ life' = life /\ up' = up
    BY <1>14, UserTurns
  <2>2. capped' = capped /\ sessions' = sessions /\ ~Respawn /\ ~Restart
    BY <1>1, <1>14, <2>1 DEF StartSaved, Reconnect, worker, Respawn, Restart, Spawned
  <2>3. \A d \in Chains \ {User} : May(d)' => May(d)
    BY <2>1 DEF Turns, Others
  <2>4. QED
    BY <1>2, <1>3, <2>1, <2>2, <2>3
<1>15. CASE Hears
  <2>1. Shifts
    BY <1>15, Hearing
  <2>2. UNCHANGED <<life, up, sessions, capped>> /\ ~Respawn /\ ~Restart
    BY <1>1, <2>1 DEF Shifts, Respawn, Restart, Spawned
  <2>3. ASSUME NEW c \in Chains, May(c)' PROVE May(c)
    <3>1. Waits(c)
      BY <1>15, <2>3, Heard
    <3>2. QED
      BY <2>2, <2>3, <3>1 DEF Waits
  <2>4. QED
    BY <1>2, <1>3, <2>2, <2>3
<1>16. CASE UNCHANGED vars
  BY <1>16 DEF vars, worker, Cap, CapFirst, CapReady
<1>17. QED
  BY <1>4, <1>5, <1>6, <1>7, <1>8, <1>9, <1>10, <1>11, <1>12, <1>13, <1>14, <1>15, <1>16, NextIs

-----------------------------------------------------------------------------
(* The cards of the sessions that run.                                      *)

\* The events that were there are there.
Extends ==
    /\ Len(events) \in Nat /\ Len(events') \in Nat /\ Len(events) <= Len(events')
    /\ DOMAIN events = 1 .. Len(events) /\ DOMAIN events' = 1 .. Len(events')
    /\ \A k \in DOMAIN events : k \in DOMAIN events' /\ events'[k] = events[k]

LEMMA Extending ==
  ASSUME Typed, CallsOK, [Next]_vars, ~Hears, ~Crash
  PROVE  Extends
<1>1. Len(events) \in Nat /\ DOMAIN events = 1 .. Len(events)
  BY TypedSays
<1>2. CASE events' = events
  BY <1>1, <1>2 DEF Extends
<1>3. ASSUME NEW x, Writes(x) PROVE Extends
  BY <1>1, <1>3 DEF Writes, Extends
<1>4. CASE \/ \E c \in Chains : Answers(c) \/ StartFails(c) \/ TimeOut(c) \/ Step(c)
           \/ \E i \in 1 .. Len(Saved) : StartSaved(i)
           \/ \E o \in offers : Reconnect(o)
           \/ UNCHANGED vars
  BY <1>2, <1>4, Calling
<1>5. CASE (\E c \in Chains : StartsTunnel(c)) \/ (\E t \in Tunnels : StartsLate(t))
  BY <1>3, <1>5, Beginning
<1>6. ASSUME NEW i \in DOMAIN sessions, SessionFails(i) \/ Stop(i) PROVE Extends
  <2>1. /\ Len(events) \in Nat /\ Len(events') \in Nat /\ Len(events') > Len(events)
        /\ DOMAIN events = 1 .. Len(events) /\ DOMAIN events' = 1 .. Len(events')
        /\ \A k \in DOMAIN events : k \in DOMAIN events' /\ events'[k] = events[k]
    BY <1>6, EndsDoes
  <2>2. QED
    BY <2>1 DEF Extends
<1>7. CASE Ready \/ Respawn \/ Restart
  BY <1>2, <1>3, <1>7, ReadyDoes DEF Respawn, Restart, Spawned
<1>8. CASE Murmurs
  <2>1. /\ Len(events) \in Nat /\ Len(events') \in Nat /\ Len(events') >= Len(events)
        /\ DOMAIN events = 1 .. Len(events) /\ DOMAIN events' = 1 .. Len(events')
        /\ \A k \in DOMAIN events : k \in DOMAIN events' /\ events'[k] = events[k]
    BY <1>8, MurmursDoes
  <2>2. QED
    BY <2>1 DEF Extends
<1>9. QED
  BY <1>4, <1>5, <1>6, <1>7, <1>8, NextIs

(* The sessions of a step: those that were there, and the new one.          *)
LEMMA SessionsThen ==
  ASSUME Typed, CallsOK, [Next]_vars, NEW id \in DOMAIN sessions'
  PROVE  /\ life' = life /\ (up' = up \/ Ready)
         /\ \/ id \in DOMAIN sessions /\ sessions'[id] = sessions[id]
            \/ /\ id = nextId
               /\ (\E c \in Chains : StartsTunnel(c)) \/ (\E t \in Tunnels : StartsLate(t))
<1>1. CASE \/ \E c \in Chains : Answers(c) \/ StartFails(c) \/ TimeOut(c) \/ Step(c)
           \/ \E i \in 1 .. Len(Saved) : StartSaved(i)
           \/ \E o \in offers : Reconnect(o)
           \/ UNCHANGED vars
  BY <1>1, Calling
<1>2. CASE (\E c \in Chains : StartsTunnel(c)) \/ (\E t \in Tunnels : StartsLate(t))
  <2>1. PICK t \in Tunnels : NewSession(t)
    BY <1>2, Beginning
  <2>2. DOMAIN sessions' = DOMAIN sessions \cup {nextId} /\ \A j \in DOMAIN sessions : sessions'[j] = sessions[j]
    BY <2>1, NewSessionIs
  <2>3. life' = life /\ up' = up
    BY <1>2, Beginning
  <2>4. QED
    BY <1>2, <2>2, <2>3
<1>3. ASSUME NEW i \in DOMAIN sessions, SessionFails(i) \/ Stop(i)
      PROVE  life' = life /\ up' = up /\ id \in DOMAIN sessions /\ sessions'[id] = sessions[id]
  <2>1. /\ DOMAIN sessions' = DOMAIN sessions \ {i}
        /\ \A j \in DOMAIN sessions' : sessions'[j] = sessions[j]
        /\ UNCHANGED <<life, up, nextId, capped, late, status, screen, loop, chain>>
    BY <1>3, EndsDoes
  <2>2. QED
    BY <2>1
<1>4. CASE Ready
  BY <1>4 DEF Ready
<1>5. CASE Crash \/ Respawn \/ Restart
  <2>1. sessions' = <<>>
    BY <1>5 DEF Crash, Respawn, Restart, Spawned
  <2>2. QED
    BY <2>1, EmptyMap
<1>6. CASE Hears \/ Murmurs
  BY <1>6, Hearing, MurmursDoes DEF Shifts
<1>7. QED
  BY <1>1, <1>2, <1>3, <1>4, <1>5, <1>6, NextIs

(* While a session runs, the events are its worker's.                       *)
LEMMA LiveEvents ==
  ASSUME Typed, EventsOK, OneTunnelPerId, NEW id \in DOMAIN sessions
  PROVE  /\ up = "up" /\ id \in Nat /\ sessions[id] \in Tunnels
         /\ \A k \in DOMAIN events :
               /\ events[k].life = life /\ events[k].ev # "exit"
               /\ events[k].ev \in {"stopped", "error"} => events[k].id # id
               /\ events[k].ev = "update" /\ events[k].id = id => events[k].t = sessions[id]
         /\ \A c \in Chains : /\ chain[c].life = life /\ chain[c].st = "ok" /\ chain[c].pc = "list"
                              /\ id \in DOMAIN chain[c].got
                              => chain[c].got[id] = sessions[id]
<1>1. up = "up" /\ id \in Nat /\ sessions[id] \in Tunnels
  BY TypedSays, MapHas DEF EventsOK
<1>2. Says(id, sessions[id])
  BY DEF Says, Runs
<1>3. \A t \in Tunnels : Says(id, t) => t = sessions[id]
  BY <1>1, <1>2 DEF OneTunnelPerId
<1>4. ASSUME NEW k \in DOMAIN events
      PROVE  /\ events[k].life = life /\ events[k].ev # "exit"
             /\ events[k].ev \in {"stopped", "error"} => events[k].id # id
             /\ events[k].ev = "update" /\ events[k].id = id => events[k].t = sessions[id]
  <2>1. EventOK(k) /\ events[k] \in Events
    BY TypedSays DEF EventsOK
  <2>2. /\ events[k].life = life /\ events[k].ev # "exit"
        /\ events[k].ev \in {"stopped", "error"} => events[k].id # id
    BY <1>1, <2>1 DEF EventOK
  <2>3. events[k].ev = "update" /\ events[k].id = id => events[k].t = sessions[id]
    <3>1. SUFFICES ASSUME events[k].ev = "update", events[k].id = id
                   PROVE  events[k].t = sessions[id]
      OBVIOUS
    <3>2. events[k].t \in Tunnels
      BY <2>1, <3>1 DEF Events
    <3>3. Says(id, events[k].t)
      BY <2>2, <3>1 DEF Says, Hear, Told
    <3>4. QED
      BY <1>3, <3>2, <3>3
  <2>4. QED
    BY <2>2, <2>3
<1>5. ASSUME NEW c \in Chains, chain[c].life = life, chain[c].st = "ok", chain[c].pc = "list",
             id \in DOMAIN chain[c].got
      PROVE  chain[c].got[id] = sessions[id]
  <2>1. chain[c].got[id] \in Tunnels
    BY <1>5, TypedSays, CallsAre, MapHas
  <2>2. Says(id, chain[c].got[id])
    BY <1>5 DEF Says, Reply
  <2>3. QED
    BY <1>3, <2>1, <2>2
<1>6. QED
  BY <1>1, <1>4, <1>5

(* What a list draws.                                                       *)
LEMMA ListedDoes ==
  ASSUME Typed, NEW c \in Chains, Listed(c)
  PROVE  LET got == chain[c].got IN
         /\ chain[c].pc = "list" /\ chain[c].st = "ok" /\ chain[c].after = 0
         /\ DOMAIN cards' = DOMAIN cards \cup DOMAIN got
         /\ \A id \in DOMAIN got : cards'[id] = got[id]
         /\ \A id \in DOMAIN cards : id \notin DOMAIN got => cards'[id] = cards[id]
         /\ odd'.stale = (odd.stale \ DOMAIN got) \cup Gone(c)
         /\ odd' = [odd EXCEPT !.stale = odd'.stale]
         /\ blank' = blank \ DOMAIN got
<1>1. cards \in Maps /\ chain[c].got \in Maps /\ odd \in Histories
  BY TypedSays, CallsAre DEF Typed
<1>2. cards' = [id \in DOMAIN cards \cup DOMAIN chain[c].got |->
                  IF id \in DOMAIN chain[c].got THEN chain[c].got[id] ELSE cards[id]]
  BY DEF Listed
<1>3. odd' = [odd EXCEPT !.stale = (@ \ DOMAIN chain[c].got) \cup Gone(c)]
  BY DEF Listed
<1>4. odd'.stale = (odd.stale \ DOMAIN chain[c].got) \cup Gone(c)
  BY <1>1, <1>3 DEF Histories
<1>5. QED
  BY <1>1, <1>2, <1>3, <1>4, OverlayIs DEF Listed, Arrived

(* The card of a session stays while it runs.                               *)
LEMMA DrawnKept ==
  ASSUME Worker, [Next]_vars, NEW id \in DOMAIN sessions, id \in DOMAIN sessions', Drawn(id)
  PROVE  Drawn(id)'
<1> USE DEF Worker
<1>1. /\ up = "up" /\ id \in Nat
      /\ \A k \in DOMAIN events :
               /\ events[k].life = life /\ events[k].ev # "exit"
               /\ events[k].ev \in {"stopped", "error"} => events[k].id # id
               /\ events[k].ev = "update" /\ events[k].id = id => events[k].t = sessions[id]
      /\ \A c \in Chains : /\ chain[c].life = life /\ chain[c].st = "ok" /\ chain[c].pc = "list"
                           /\ id \in DOMAIN chain[c].got
                           => chain[c].got[id] = sessions[id]
  BY LiveEvents
<1>2. id # nextId /\ sessions'[id] = sessions[id]
  BY SessionsThen DEF Typed
<1>3. CASE cards' = cards
  BY <1>2, <1>3 DEF Drawn
<1>4. ASSUME NEW c \in Chains, Listed(c) PROVE Drawn(id)'
  <2>1. chain[c].life = life /\ chain[c].pc = "list" /\ chain[c].st = "ok"
    BY <1>1, <1>4, ListedDoes DEF CallsOK, CallOK
  <2>2. id \in DOMAIN cards' /\ cards'[id] = sessions[id]
    BY <1>1, <1>4, <2>1, ListedDoes DEF Drawn
  <2>3. QED
    BY <1>2, <2>2 DEF Drawn
<1>5. CASE Hears
  <2>1. 1 \in DOMAIN events /\ e = events[1] /\ e \in Events
    BY <1>5, Hearing DEF Shifts
  <2>2. /\ e.ev # "exit" /\ (e.ev \in {"stopped", "error"} => e.id # id)
        /\ e.ev = "update" /\ e.id = id => e.t = sessions[id]
    BY <1>1, <2>1
  <2>3. cards \in Maps
    BY TypedSays
  <2>4. CASE OnReady
    BY <1>3, <2>4 DEF OnReady, screen
  <2>5. ~OnExit
    BY <1>5, <2>2, Hearing
  <2>6. CASE OnUpdate
    <3>1. e.id \in Nat \ {0} /\ e.t \in Tunnels /\ e.ev = "update" /\ cards' = Put(cards, e.id, e.t)
      BY <2>6, Telling DEF OnUpdate, Told, Delivers, e
    <3>2. /\ DOMAIN cards' = DOMAIN cards \cup {e.id} /\ cards'[e.id] = e.t
          /\ \A j \in DOMAIN cards : j # e.id => cards'[j] = cards[j]
      BY <3>1 DEF Put
    <3>3. QED
      BY <1>2, <2>2, <3>1, <3>2 DEF Drawn
  <2>7. CASE OnError \/ OnState
    BY <1>3, <2>7 DEF OnError, OnState
  <2>8. CASE OnStopped
    <3>1. e.ev = "stopped" /\ cards' = Drop(cards, e.id)
      BY <2>8 DEF OnStopped, Delivers, e
    <3>2. /\ DOMAIN cards' = DOMAIN cards \ {e.id}
          /\ \A j \in DOMAIN cards : j # e.id => cards'[j] = cards[j]
      BY <3>1 DEF Drop
    <3>3. QED
      BY <1>2, <2>2, <2>3, <3>1, <3>2 DEF Drawn
  <2>9. QED
    BY <1>5, <2>4, <2>5, <2>6, <2>7, <2>8 DEF Hears
<1>6. ASSUME NEW c \in Chains,
             \/ Answers(c) \/ StartsTunnel(c) \/ StartFails(c) \/ TimeOut(c)
             \/ WaitEnds(c) \/ GivesUp(c) \/ Pinged(c) \/ Limited(c) \/ Started(c) \/ Reconnected(c)
      PROVE  cards' = cards
  BY <1>6 DEF Answers, StartsTunnel, StartFails, TimeOut, WaitEnds, GivesUp, Pinged, Limited,
              Started, Reconnected, screen
<1>7. CASE \/ \E t \in Tunnels : StartsLate(t)
           \/ \E i \in DOMAIN sessions : SessionFails(i) \/ Stop(i)
           \/ Ready \/ Crash \/ Respawn \/ Restart \/ Murmurs
           \/ \E i \in 1 .. Len(Saved) : StartSaved(i)
           \/ \E o \in offers : Reconnect(o)
           \/ UNCHANGED vars
  <2>1. cards' = cards
    BY <1>7, MurmursDoes DEF StartsLate, SessionFails, Stop, Ends, Ready, Crash, Respawn, Restart, Spawned,
                StartSaved, Reconnect, vars, screen
  <2>2. QED
    BY <1>3, <2>1
<1>8. QED
  BY <1>3, <1>4, <1>5, <1>6, <1>7, NextIs DEF Step

(* What is to come stays to come while the events are added to.             *)
LEMMA StillComes ==
  ASSUME Extends
  PROVE  /\ \A id : \A n \in 0 .. Len(events) : Comes(id, n) => Comes(id, n)'
         /\ \A name, id : Pending(name, id) => Pending(name, id)'
         /\ Exits => Exits'
  BY DEF Extends, Comes, Pending, Exits

\* A session of the worker has its card, or has it when the first n events are
\* through.
DrawnBy(id, n) == Drawn(id) \/ Comes(id, n)

\* ... which is so when one of them is.
LEMMA OneThrough ==
  ASSUME Worker, [Next]_vars, Hears, NEW id \in DOMAIN sessions,
         NEW n \in 0 .. Len(events), DrawnBy(id, n)
  PROVE  Drawn(id)' \/ (n # 0 /\ Comes(id, n - 1)')
<1> USE DEF Worker
<1>1. /\ id \in DOMAIN sessions' /\ sessions'[id] = sessions[id]
      /\ 1 \in DOMAIN events /\ e = events[1] /\ Shifts /\ Len(events) \in Nat
  BY Hearing DEF Shifts
<1>2. CASE Drawn(id)
  BY <1>1, <1>2, DrawnKept
<1>3. ASSUME NEW k \in 1 .. n, events[k].ev = "update", events[k].id = id
      PROVE  Drawn(id)' \/ (n # 0 /\ Comes(id, n - 1)')
  <2>1. k \in DOMAIN events /\ DOMAIN events = 1 .. Len(events)
    BY <1>1 DEF Shifts
  <2>2. CASE k = 1
    <3>1. e.ev = "update" /\ e.id = id /\ e.t = sessions[id]
      BY <1>1, <1>3, <2>1, <2>2, LiveEvents
    <3>2. OnUpdate
      BY <3>1, Hearing
    <3>3. id \in DOMAIN cards' /\ cards'[id] = sessions[id]
      BY <3>1, <3>2 DEF OnUpdate, Put
    <3>4. QED
      BY <1>1, <3>3 DEF Drawn
  <2>3. CASE k # 1
    <3>1. k - 1 \in 1 .. n - 1 /\ events'[k - 1] = events[k] /\ n # 0
      BY <1>1, <1>3, <2>1, <2>3 DEF Shifts
    <3>2. QED
      BY <1>3, <3>1 DEF Comes
  <2>4. QED
    BY <2>2, <2>3
<1>4. QED
  BY <1>2, <1>3 DEF DrawnBy, Comes

LEMMA StillRuns ==
  ASSUME NEW id \in DOMAIN sessions'
  PROVE  ~Crash
BY EmptyMap DEF Crash

LEMMA DrawnStep ==
  ASSUME Worker, Cards, [Next]_vars, NEW id \in DOMAIN sessions'
  PROVE  Drawn(id)' \/ Comes(id, Len(events))'
<1> USE DEF Worker
<1>1. CASE id \notin DOMAIN sessions
  <2>1. PICK t \in Tunnels : Writes(Written("update", nextId, t))
    BY <1>1, SessionsThen, Beginning
  <2>2. id = nextId
    BY <1>1, SessionsThen
  <2>3. Len(events') \in 1 .. Len(events') /\ events'[Len(events')].ev = "update"
        /\ events'[Len(events')].id = id
    BY <2>1, <2>2 DEF Writes, Written
  <2>4. QED
    BY <2>3 DEF Comes
<1>2. CASE id \in DOMAIN sessions /\ ~Hears
  <2>1. CASE Drawn(id)
    BY <1>2, <2>1, DrawnKept
  <2>2. CASE Comes(id, Len(events))
    <3>1. Extends
      BY <1>2, Extending, StillRuns
    <3>2. PICK k \in 1 .. Len(events) : events[k].ev = "update" /\ events[k].id = id
      BY <2>2 DEF Comes
    <3>3. k \in 1 .. Len(events') /\ events'[k] = events[k]
      BY <3>1 DEF Extends
    <3>4. QED
      BY <3>2, <3>3 DEF Comes
  <2>3. QED
    BY <1>2, <2>1, <2>2 DEF Cards
<1>3. CASE id \in DOMAIN sessions /\ Hears
  <2>1. DrawnBy(id, Len(events)) /\ Len(events) \in 0 .. Len(events)
    BY <1>3, TypedSays DEF Cards, DrawnBy
  <2>2. Len(events') = Len(events) - 1
    BY <1>3, Hearing DEF Shifts
  <2>3. Drawn(id)' \/ Comes(id, Len(events))'
    <3>1. PICK n \in 0 .. Len(events) : n = Len(events)
      BY <2>1
    <3>2. Drawn(id)' \/ Comes(id, n - 1)'
      BY <1>3, <2>1, <3>1, OneThrough
    <3>3. n - 1 = Len(events')
      BY <2>2, <3>1
    <3>4. Comes(id, n - 1)' => Comes(id, Len(events))'
      BY <3>3 DEF Comes
    <3>5. QED
      BY <3>2, <3>4
  <2>4. QED
    BY <2>3
<1>4. QED
  BY <1>1, <1>2, <1>3

LEMMA UndoneStep ==
  ASSUME Worker, Cards, [Next]_vars, NEW k \in DOMAIN events'
  PROVE  Undone(k)'
<1> USE DEF Worker
<1>1. /\ Len(events) \in Nat /\ DOMAIN events = 1 .. Len(events) /\ life \in Nat
      /\ \A j \in DOMAIN events : EventOK(j) /\ Undone(j) /\ events[j].life \in Nat
  BY TypedSays DEF EventsOK, Cards, Events
<1>2. ASSUME k \in DOMAIN events, Extends, life' = life, up = "down" => up' = "down",
             \/ DOMAIN sessions \subseteq DOMAIN sessions'
             \/ \E m \in DOMAIN events' \ DOMAIN events :
                   events'[m].ev = "exit" \/
                   (events'[m].ev = "stopped" /\ DOMAIN sessions \subseteq DOMAIN sessions' \cup {events'[m].id})
      PROVE  Undone(k)'
  <2>1. Undone(k) /\ events'[k] = events[k] /\ DOMAIN events' = 1 .. Len(events')
        /\ \A j \in DOMAIN events : j \in DOMAIN events' /\ events'[j] = events[j]
    BY <1>1, <1>2 DEF Extends
  <2>2. events'[k].ev = "error" =>
          \E m \in DOMAIN events' : m > k /\ events'[m].ev = "stopped" /\ events'[m].id = events'[k].id
    BY <1>2, <2>1 DEF Undone
  <2>3. ASSUME up' # "down", events'[k].ev = "update", events'[k].life = life,
               events'[k].id \notin DOMAIN sessions'
        PROVE  \E m \in DOMAIN events' :
                  m > k /\ (events'[m].ev = "exit" \/ (events'[m].ev = "stopped" /\ events'[m].id = events'[k].id))
    <3>1. CASE events[k].id \notin DOMAIN sessions
      BY <1>2, <2>1, <2>3, <3>1 DEF Undone
    <3>2. CASE events[k].id \in DOMAIN sessions
      <4>1. PICK m \in DOMAIN events' \ DOMAIN events :
                   events'[m].ev = "exit" \/ (events'[m].ev = "stopped" /\ events'[m].id = events[k].id)
        BY <1>2, <2>1, <2>3, <3>2
      <4>2. m > k
        BY <1>1, <1>2, <2>1, <4>1
      <4>3. QED
        BY <2>1, <4>1, <4>2
    <3>3. QED
      BY <3>1, <3>2
  <2>4. QED
    BY <1>2, <2>2, <2>3 DEF Undone
<1>3. CASE \/ \E c \in Chains : Answers(c) \/ StartFails(c) \/ TimeOut(c) \/ Step(c)
           \/ \E i \in 1 .. Len(Saved) : StartSaved(i)
           \/ \E o \in offers : Reconnect(o)
           \/ UNCHANGED vars
  <2>1. UNCHANGED <<events, life, up, sessions>>
    BY <1>3, Calling
  <2>2. QED
    BY <1>1, <2>1 DEF Undone
<1>4. CASE (\E c \in Chains : StartsTunnel(c)) \/ (\E t \in Tunnels : StartsLate(t))
  <2>1. PICK t \in Tunnels : NewSession(t) /\ Writes(Written("update", nextId, t)) /\ life' = life
                          /\ up' = up
    BY <1>4, Beginning
  <2>2. DOMAIN sessions' = DOMAIN sessions \cup {nextId}
    BY <2>1, NewSessionIs
  <2>3. Extends
    BY <1>1, <2>1 DEF Writes, Extends
  <2>4. CASE k = Len(events')
    BY <2>1, <2>2, <2>4 DEF Undone, Writes, Written
  <2>5. QED
    BY <1>2, <2>1, <2>2, <2>3, <2>4 DEF Writes
<1>5. ASSUME NEW i \in DOMAIN sessions, SessionFails(i) \/ Stop(i) PROVE Undone(k)'
  <2>1. /\ DOMAIN sessions' = DOMAIN sessions \ {i}
        /\ Len(events) \in Nat /\ Len(events') \in Nat /\ Len(events') > Len(events)
        /\ DOMAIN events = 1 .. Len(events) /\ DOMAIN events' = 1 .. Len(events')
        /\ \A j \in DOMAIN events : j \in DOMAIN events' /\ events'[j] = events[j]
        /\ Len(events') \in DOMAIN events' \ DOMAIN events
        /\ events'[Len(events')] = Written("stopped", i, sessions[i])
        /\ \A j \in DOMAIN events' : \/ j \in DOMAIN events \/ j = Len(events')
                                     \/ events'[j] = Written("error", i, sessions[i])
        /\ UNCHANGED <<life, up, nextId, capped, late, status, screen, loop, chain>>
    BY <1>5, EndsDoes
  <2>2. events'[Len(events')].ev = "stopped" /\ events'[Len(events')].id = i
    BY <2>1 DEF Written
  <2>3. Extends
    BY <2>1 DEF Extends
  <2>4. CASE k \in DOMAIN events
    BY <1>2, <2>1, <2>2, <2>3, <2>4
  <2>5. CASE k = Len(events')
    BY <2>2, <2>5 DEF Undone
  <2>6. CASE k # Len(events') /\ events'[k] = Written("error", i, sessions[i])
    <3>1. events'[k].ev = "error" /\ events'[k].id = i /\ Len(events') > k
      BY <2>1, <2>6 DEF Written
    <3>2. QED
      BY <2>1, <2>2, <3>1 DEF Undone
  <2>7. QED
    BY <2>1, <2>4, <2>5, <2>6
<1>6. CASE Ready
  <2>1. events = <<>> /\ Writes(Written("ready", 0, 0))
    BY <1>6, ReadyDoes DEF Ready, Settled
  <2>2. k = Len(events')
    BY <2>1, EmptyMap DEF Writes
  <2>3. QED
    BY <2>1, <2>2 DEF Writes, Written, Undone
<1>7. CASE Crash
  <2>1. PICK p \in Nat : Inserts(p)
    BY <1>7, CrashIs
  <2>2. up' = "down" /\ p + 1 \in DOMAIN events' /\ events'[p + 1].ev = "exit"
    <3>1. up' = "down"
      BY <1>7 DEF Crash
    <3>2. QED
      BY <2>1, <3>1 DEF Inserts
  <2>3. CASE k = p + 1
    BY <2>2, <2>3 DEF Undone
  <2>4. CASE k # p + 1
    <3>1. Was(p, k) \in DOMAIN events /\ events'[k] = events[Was(p, k)]
      BY <2>1, <2>4 DEF Inserts
    <3>2. SUFFICES ASSUME events'[k].ev = "error"
                   PROVE  \E m \in DOMAIN events' : m > k /\ events'[m].ev = "stopped"
                                                    /\ events'[m].id = events'[k].id
      BY <2>2 DEF Undone
    <3>3. PICK m \in DOMAIN events : /\ m > Was(p, k) /\ events[m].ev = "stopped"
                                     /\ events[m].id = events'[k].id
      BY <1>1, <3>1, <3>2 DEF Undone
    <3>4. Gets(p, m) \in DOMAIN events' /\ events'[Gets(p, m)] = events[m]
      BY <2>1 DEF Inserts
    <3>5. k \in Nat /\ m \in Nat
      BY <1>1, <2>1 DEF Inserts
    <3>6. Gets(p, m) > k
      BY <2>1, <2>4, <3>3, <3>5 DEF Gets, Was
    <3>7. QED
      BY <3>3, <3>4, <3>6
  <2>5. QED
    BY <2>3, <2>4
<1>8. CASE Respawn \/ Restart
  <2>1. life' = life + 1 /\ events' = events
    BY <1>8 DEF Respawn, Restart, Spawned
  <2>2. Undone(k) /\ events[k].life <= life /\ events[k].life \in Nat
    BY <1>1, <2>1 DEF EventOK
  <2>3. QED
    BY <1>1, <2>1, <2>2 DEF Undone
<1>9. CASE Hears
  <2>1. Shifts /\ UNCHANGED <<life, up, sessions>>
    BY <1>9, Hearing DEF Shifts
  <2>2. k \in Nat /\ k + 1 \in DOMAIN events /\ events'[k] = events[k + 1] /\ Undone(k + 1)
    BY <1>1, <2>1 DEF Shifts
  <2>3. \A m \in DOMAIN events : m > k + 1 =>
            m - 1 \in DOMAIN events' /\ m - 1 > k /\ events'[m - 1] = events[m]
    BY <2>1, <2>2 DEF Shifts
  <2>4. QED
    BY <2>1, <2>2, <2>3 DEF Undone
<1>10. CASE Murmurs
  <2>1. /\ UNCHANGED <<life, up, sessions>> /\ Extends
        /\ k \in DOMAIN events \/ events'[k].ev = "state"
    BY <1>10, MurmursDoes DEF Extends
  <2>2. CASE k \in DOMAIN events
    BY <1>2, <2>1, <2>2
  <2>3. CASE events'[k].ev = "state"
    BY <2>3 DEF Undone
  <2>4. QED
    BY <2>1, <2>2, <2>3
<1>11. QED
  BY <1>3, <1>4, <1>5, <1>6, <1>7, <1>8, <1>9, <1>10, NextIs

\* The card of no session goes, or is one of those the properties except.
Goes(id) == id \in odd.stale \/ Pending("stopped", id) \/ Exits

OnScreen == DOMAIN cards \cup blank

(* What is to be told stays to be told until it is read.                    *)
LEMMA PendingKept ==
  ASSUME Typed, CallsOK, [Next]_vars, ~Hears
  PROVE  /\ \A name, id : Pending(name, id) => Pending(name, id)'
         /\ Exits => Exits'
         /\ Crash => Exits'
<1>1. CASE ~Crash
  BY <1>1, Extending, StillComes
<1>2. CASE Crash
  <2>1. PICK p \in Nat : Inserts(p)
    BY <1>2, CrashIs
  <2>2. \A m \in DOMAIN events : \E n \in DOMAIN events' : events'[n] = events[m]
    BY <2>1 DEF Inserts
  <2>3. p + 1 \in DOMAIN events' /\ events'[p + 1].ev = "exit"
    BY <2>1 DEF Inserts
  <2>4. Exits'
    BY <2>3 DEF Exits
  <2>5. ASSUME NEW name, NEW id, Pending(name, id) PROVE Pending(name, id)'
    <3>1. PICK m \in DOMAIN events : events[m].ev = name /\ events[m].id = id
      BY <2>5 DEF Pending
    <3>2. PICK n \in DOMAIN events' : events'[n] = events[m]
      BY <2>2
    <3>3. QED
      BY <3>1, <3>2 DEF Pending
  <2>6. QED
    BY <2>4, <2>5
<1>3. QED
  BY <1>1, <1>2

LEMMA GoneStep ==
  ASSUME Worker, Cards, [Next]_vars, NEW id \in OnScreen' \ DOMAIN sessions'
  PROVE  Goes(id)'
<1> USE DEF Worker
<1>1. /\ odd \in Histories /\ cards \in Maps
      /\ id \in OnScreen \ DOMAIN sessions => Goes(id)
  BY TypedSays DEF Cards, Typed, Goes, OnScreen
<1>2. ASSUME ~Hears, id \in OnScreen \ DOMAIN sessions, id \in odd.stale => id \in odd'.stale
      PROVE  Goes(id)'
  BY <1>1, <1>2, PendingKept DEF Goes
<1>3. ASSUME NEW c \in Chains, Listed(c) PROVE Goes(id)'
  <2>1. /\ DOMAIN cards' = DOMAIN cards \cup DOMAIN chain[c].got
        /\ odd'.stale = (odd.stale \ DOMAIN chain[c].got) \cup Gone(c)
        /\ id \in OnScreen \cup DOMAIN chain[c].got
    BY <1>3, ListedDoes DEF OnScreen
  <2>2. UNCHANGED <<events, sessions>>
    BY <1>3, Calling DEF Step
  <2>3. CASE id \in DOMAIN chain[c].got
    <3>1. CASE id \in Gone(c)
      BY <2>1, <3>1 DEF Goes
    <3>2. CASE id \notin Gone(c)
      <4>1. PICK k \in 1 .. Len(events) : events[k].ev = "stopped" /\ events[k].id = id
        BY <2>2, <2>3, <3>2 DEF Gone
      <4>2. k \in DOMAIN events'
        BY <2>2, TypedSays
      <4>3. QED
        BY <2>2, <4>1, <4>2 DEF Goes, Pending
    <3>3. QED
      BY <3>1, <3>2
  <2>4. CASE id \notin DOMAIN chain[c].got
    BY <1>1, <2>1, <2>2, <2>4 DEF Goes, Pending, Exits
  <2>5. QED
    BY <2>3, <2>4
<1>4. ASSUME \/ \E c \in Chains :
                  \/ Answers(c) \/ StartFails(c) \/ TimeOut(c)
                  \/ WaitEnds(c) \/ GivesUp(c) \/ Pinged(c) \/ Limited(c) \/ Started(c) \/ Reconnected(c)
             \/ \E i \in 1 .. Len(Saved) : StartSaved(i)
             \/ \E o \in offers : Reconnect(o)
             \/ UNCHANGED vars
      PROVE  Goes(id)'
  <2>1. UNCHANGED <<events, sessions>>
    BY <1>4, Calling DEF Step
  <2>2. OnScreen' = OnScreen
    BY <1>4 DEF OnScreen, Answers, StartFails, TimeOut, WaitEnds, GivesUp, Pinged, Limited, Started,
                Reconnected, StartSaved, Reconnect, vars, screen
  <2>3. odd'.stale = odd.stale
    <3>1. ASSUME NEW c, NEW i, NEW n, NEW o \in Histories, GoesOn(c, i, n, o), o.stale = odd.stale
          PROVE  odd'.stale = odd.stale
      BY <3>1 DEF GoesOn, Histories
    <3>2. ASSUME NEW c \in Chains, Limited(c) PROVE odd'.stale = odd.stale
      <4>1. \/ odd' = odd \/ odd' = [odd EXCEPT !.heldOff = @ \/ loop # life]
            \/ \E n \in Nat : GoesOn(c, 1, n, odd)
        BY <3>2, LimitedDoes
      <4>2. QED
        BY <1>1, <3>1, <4>1 DEF Histories
    <3>3. ASSUME NEW c \in Chains, Started(c) PROVE odd'.stale = odd.stale
      <4> DEFINE new  == DOMAIN chain[c].got
                 o    == [odd EXCEPT !.orphans = (@ \ new) \cup Gone(c) \cup (new \cap errored)]
      <4>1. o \in Histories /\ (odd' = o \/ \E n \in Nat : GoesOn(c, chain[c].i + 1, n, o))
        BY <3>3, StartedDoes
      <4>2. o.stale = odd.stale
        BY <1>1 DEF Histories
      <4> HIDE DEF o
      <4>3. QED
        BY <3>1, <4>1, <4>2
    <3>4. ASSUME NEW c \in Chains, TimeOut(c) PROVE odd'.stale = odd.stale
      BY <1>1, <3>4 DEF TimeOut, Histories
    <3>5. ASSUME \/ \E c \in Chains : \/ Answers(c) \/ StartFails(c)
                                      \/ WaitEnds(c) \/ GivesUp(c) \/ Pinged(c) \/ Reconnected(c)
                 \/ \E i \in 1 .. Len(Saved) : StartSaved(i)
                 \/ \E o \in offers : Reconnect(o)
                 \/ UNCHANGED vars
          PROVE  odd'.stale = odd.stale
      <4>1. \/ odd' = odd \/ \E more : odd' = [odd EXCEPT !.touched = @ \cup more]
            \/ \E more : odd' = [odd EXCEPT !.used = @ \cup more]
        BY <3>5 DEF Answers, StartFails, WaitEnds, GivesUp, Pinged, Reconnected, StartSaved,
                    Reconnect, vars
      <4>2. QED
        BY <1>1, <4>1 DEF Histories
    <3>6. QED
      BY <1>4, <3>2, <3>3, <3>4, <3>5
  <2>4. QED
    BY <1>1, <2>1, <2>2, <2>3 DEF Goes, Pending, Exits
<1>5. CASE (\E c \in Chains : StartsTunnel(c)) \/ (\E t \in Tunnels : StartsLate(t))
  <2>1. PICK t \in Tunnels : NewSession(t) /\ Writes(Written("update", nextId, t))
                          /\ OnScreen' = OnScreen
    BY <1>5, Beginning DEF OnScreen
  <2>2. DOMAIN sessions' = DOMAIN sessions \cup {nextId}
    BY <2>1, NewSessionIs
  <2>3. odd'.stale = odd.stale
    BY <1>1, <1>5 DEF StartsTunnel, StartsLate, Histories
  <2>4. ~Hears
    BY <1>5, <2>1, NotHearing DEF Writes
  <2>5. QED
    BY <1>2, <2>1, <2>2, <2>3, <2>4
<1>6. ASSUME NEW i \in DOMAIN sessions, SessionFails(i) \/ Stop(i) PROVE Goes(id)'
  <2>1. /\ DOMAIN sessions' = DOMAIN sessions \ {i}
        /\ Len(events) \in Nat /\ Len(events') \in Nat /\ Len(events') > Len(events)
        /\ Len(events') \in DOMAIN events' \ DOMAIN events
        /\ events'[Len(events')] = Written("stopped", i, sessions[i])
        /\ odd' = [odd EXCEPT !.touched = @ \cup {sessions[i]}]
        /\ UNCHANGED <<life, up, nextId, capped, late, status, screen, loop, chain>>
    BY <1>6, EndsDoes
  <2>2. OnScreen' = OnScreen /\ odd'.stale = odd.stale
    BY <1>1, <2>1 DEF screen, Histories, OnScreen
  <2>3. CASE id = i
    BY <2>1, <2>3 DEF Written, Goes, Pending
  <2>4. CASE id # i
    <3>1. ~Hears
      BY <2>1, NotHearing
    <3>2. QED
      BY <1>2, <2>1, <2>2, <2>4, <3>1
  <2>5. QED
    BY <2>3, <2>4
<1>7. CASE Ready \/ Murmurs
  <2>1. /\ UNCHANGED <<sessions, screen, odd>>
        /\ Len(events') \in Nat /\ Len(events') >= Len(events)
    BY <1>7, ReadyDoes, MurmursDoes DEF Ready, Writes
  <2>2. ~Hears
    BY <2>1, NotHearing
  <2>3. QED
    BY <1>2, <2>1, <2>2 DEF screen, OnScreen
<1>8. CASE Crash
  <2>1. ~Hears
    BY <1>8, CrashIs, NotHearing DEF Inserts
  <2>2. QED
    BY <1>8, <2>1, PendingKept DEF Goes
<1>9. CASE Respawn
  <2>1. /\ OnScreen' = OnScreen /\ odd'.stale = odd.stale /\ events = <<>> /\ up = "down"
    BY <1>9 DEF Respawn, Spawned, Nothing, screen, Settled, OnScreen
  <2>2. id \in OnScreen \ DOMAIN sessions
    BY <2>1 DEF EventsOK
  <2>3. QED
    BY <1>1, <2>1, <2>2, EmptyMap DEF Goes, Pending, Exits
<1>10. CASE Restart
  <2>1. OnScreen' = OnScreen /\ odd'.stale = OnScreen
    BY <1>10 DEF Restart, Spawned, Nothing, screen, OnScreen
  <2>2. QED
    BY <2>1 DEF Goes
<1>11. CASE Hears
  <2>1. /\ Shifts /\ UNCHANGED <<life, up, sessions>> /\ 1 \in DOMAIN events /\ e = events[1]
    BY <1>11, Hearing DEF Shifts
  <2>2. ASSUME NEW k \in DOMAIN events, k > 1 PROVE k - 1 \in DOMAIN events' /\ events'[k - 1] = events[k]
    BY <2>1, <2>2 DEF Shifts
  <2>3. ASSUME id \in OnScreen, id \in odd.stale => id \in odd'.stale,
               e.ev # "exit", e.ev = "stopped" => e.id # id
        PROVE  Goes(id)'
    <3>1. Goes(id) /\ DOMAIN events = 1 .. Len(events)
      BY <1>1, <2>1, <2>3 DEF Shifts
    <3>2. ASSUME NEW k \in DOMAIN events,
                 events[k].ev = "exit" \/ (events[k].ev = "stopped" /\ events[k].id = id)
          PROVE  Goes(id)'
      <4>1. k # 1 /\ k > 1
        BY <2>1, <2>3, <3>1, <3>2
      <4>2. k - 1 \in DOMAIN events' /\ events'[k - 1] = events[k]
        BY <2>2, <4>1
      <4>3. QED
        BY <3>2, <4>2 DEF Goes, Pending, Exits
    <3>3. QED
      BY <2>3, <3>1, <3>2 DEF Goes, Pending, Exits
  <2>4. Undone(1) /\ e.ev \in {"ready", "exit", "update", "state", "error", "stopped"}
    BY <1>11, <2>1 DEF Cards, Hears, OnReady, OnExit, OnUpdate, OnState, OnError, OnStopped, Delivers, e
  <2>5. ASSUME NEW m \in DOMAIN events, m > 1, events[m].ev = "exit" \/
                  (events[m].ev = "stopped" /\ events[m].id = id)
        PROVE  Goes(id)'
    BY <2>2, <2>5 DEF Goes, Pending, Exits
  <2>6. CASE OnReady
    <3>1. OnScreen' = OnScreen /\ odd' = odd /\ e.ev = "ready"
      BY <2>6, Hearing DEF OnReady, screen, Hears, OnScreen
    <3>2. QED
      BY <2>3, <3>1
  <2>7. CASE OnExit
    BY <2>7, EmptyMap DEF OnExit, OnScreen
  <2>8. CASE OnUpdate
    <3>1. e.ev = "update" /\ OnScreen' = OnScreen \cup {e.id}
      BY <2>8 DEF OnUpdate, Put, Delivers, e, OnScreen
    <3>2. odd'.stale = IF e.life = life /\ ~ExitTold THEN odd.stale \ {e.id}
                       ELSE odd.stale \cup {e.id}
      BY <1>1, <2>8 DEF OnUpdate, Histories
    <3>3. CASE id = e.id /\ (e.life # life \/ ExitTold)
      BY <3>2, <3>3 DEF Goes
    <3>4. CASE id = e.id /\ e.life = life /\ ~ExitTold
      <4>1. CASE up # "down"
        BY <2>1, <2>4, <2>5, <3>1, <3>4, <4>1 DEF Undone
      <4>2. CASE up = "down"
        <5>1. \E k \in 1 .. Len(events') : events'[k].ev = "exit"
          BY <3>4, <4>2 DEF ExitTold
        <5>2. QED
          BY <2>1, <5>1 DEF Goes, Exits, Shifts
      <4>3. QED
        BY <4>1, <4>2
    <3>5. CASE id # e.id
      BY <2>3, <3>1, <3>2, <3>5
    <3>6. QED
      BY <3>3, <3>4, <3>5
  <2>9. CASE OnError
    <3>1. e.ev = "error" /\ OnScreen' = OnScreen \cup {e.id} /\ odd' = odd
      BY <2>9 DEF OnError, Draws, Delivers, e, OnScreen
    <3>2. CASE id = e.id
      BY <2>1, <2>4, <2>5, <3>1, <3>2 DEF Undone
    <3>3. CASE id # e.id
      BY <2>3, <3>1, <3>3
    <3>4. QED
      BY <3>2, <3>3
  <2>10. CASE OnStopped
    <3>1. e.ev = "stopped" /\ OnScreen' = OnScreen \ {e.id}
      BY <2>10 DEF OnStopped, Drop, Delivers, e, OnScreen
    <3>2. odd'.stale = odd.stale \ {e.id}
      BY <1>1, <2>10 DEF OnStopped, Histories
    <3>3. QED
      BY <2>3, <3>1, <3>2
  <2>11. CASE OnState
    <3>1. e.ev = "state" /\ OnScreen' = OnScreen \cup {e.id}
      BY <2>11 DEF OnState, Draws, Delivers, e, OnScreen
    <3>2. odd'.stale = IF e.id \in OnScreen THEN odd.stale ELSE odd.stale \cup {e.id}
      BY <1>1, <2>11 DEF OnState, Histories, OnScreen
    <3>3. CASE id \in OnScreen
      BY <2>3, <3>1, <3>2, <3>3
    <3>4. CASE id \notin OnScreen
      BY <3>1, <3>2, <3>4 DEF Goes
    <3>5. QED
      BY <3>3, <3>4
  <2>12. QED
    BY <1>11, <2>6, <2>7, <2>8, <2>9, <2>10, <2>11 DEF Hears
<1>12. QED
  BY <1>3, <1>4, <1>5, <1>6, <1>7, <1>8, <1>9, <1>10, <1>11, NextIs DEF Step

LEMMA CardsStep ==
  ASSUME Worker, Cards, [Next]_vars
  PROVE  Cards'
<1>1. \A id \in DOMAIN sessions' : Drawn(id)' \/ Comes(id, Len(events))'
  BY DrawnStep
<1>2. \A id \in OnScreen' \ DOMAIN sessions' : Goes(id)'
  BY GoneStep
<1>3. \A k \in DOMAIN events' : Undone(k)'
  BY UndoneStep
<1>4. QED
  BY <1>1, <1>2, <1>3 DEF Cards, Goes, OnScreen

-----------------------------------------------------------------------------
(* The card of a start that is answered.                                    *)

(* The answers to starts are those that were there, and the one that comes  *)
(* with the session.                                                        *)
LEMMA StartAnswered ==
  ASSUME Typed, CallsOK, [Next]_vars, ~Hears, NEW c \in Chains,
         chain'[c].pc = "start", chain'[c].st = "ok"
  PROVE  chain'[c] = chain[c] \/ StartsTunnel(c)
<1>1. ASSUME NEW d \in Chains, Others(d), chain'[d].pc # "start" \/ chain'[d].st # "ok"
      PROVE  chain'[c] = chain[c]
  BY <1>1 DEF Others
<1>2. ASSUME NEW d \in Chains, Answers(d) PROVE chain'[c] = chain[c]
  BY <1>1, <1>2, AnswersDoes DEF Ending, Starts
<1>3. ASSUME NEW d \in Chains, StartFails(d) \/ TimeOut(d) PROVE chain'[c] = chain[c]
  BY <1>1, <1>3, StartFailsDoes, TypedSays, TimeOutDoes DEF Ending
<1>4. ASSUME NEW d \in Chains, Step(d) PROVE chain'[c] = chain[c]
  BY <1>1, <1>4, Turning, IdleIs DEF Turns
<1>5. CASE (\E i \in 1 .. Len(Saved) : StartSaved(i)) \/ (\E o \in offers : Reconnect(o))
  BY <1>1, <1>5, UserTurns, ChainNames DEF Turns
<1>6. ASSUME NEW d \in Chains, StartsTunnel(d) PROVE chain'[c] = chain[c] \/ StartsTunnel(c)
  BY <1>6, StartsTunnelDoes DEF Ending, Others
<1>7. CASE Restart
  BY <1>1, <1>7, RestartDoes, ChainNames
<1>8. CASE Crash
  <2>1. PICK d \in Nat : Drains(d)
    BY <1>8, CrashIs
  <2>2. QED
    BY <2>1 DEF Drains
<1>9. CASE \/ \E t \in Tunnels : StartsLate(t)
           \/ \E id \in DOMAIN sessions : SessionFails(id) \/ Stop(id)
           \/ Ready \/ Respawn \/ Murmurs \/ UNCHANGED vars
  BY <1>9, MurmursDoes DEF StartsLate, SessionFails, Stop, Ends, Ready, Respawn, vars
<1>10. QED
  BY <1>2, <1>3, <1>4, <1>5, <1>6, <1>7, <1>8, <1>9, NextIs

LEMMA AnnouncedStep ==
  ASSUME Worker, Announced, [Next]_vars
  PROVE  Announced'
<1> USE DEF Worker
<1>1. SUFFICES ASSUME NEW c \in Chains, chain'[c].pc = "start", chain'[c].st = "ok",
                      chain'[c].life = life',
                      NEW id \in DOMAIN chain'[c].got \cap DOMAIN sessions'
               PROVE  Drawn(id)' \/ Comes(id, chain[c].after)'
  BY DEF Announced
<1>2. /\ id \in DOMAIN sessions' /\ life' = life /\ chain[c] \in Calls /\ CallOK(chain[c]) /\ Len(events) \in Nat
      /\ chain[c].after \in Nat /\ chain[c].got \in Maps
  <2>1. id \in DOMAIN sessions'
    BY <1>1
  <2>2. life' = life
    BY <2>1, SessionsThen
  <2>3. QED
    BY <2>1, <2>2, TypedSays, CallsAre DEF CallsOK
<1>3. chain[c].after \in 0 .. Len(events)
  BY <1>2 DEF CallOK
<1>4. CASE ~Hears /\ chain'[c] = chain[c]
  <2>1. id # nextId
    <3>1. SUFFICES ASSUME id = nextId PROVE FALSE
      OBVIOUS
    <3>2. Reply(id, chain[c].got[id]) /\ chain[c].got[id] \in Tunnels /\ id \in Nat
      BY <1>1, <1>2, <1>4, MapHas DEF Reply
    <3>3. id < nextId
      BY <3>2 DEF Says, OneTunnelPerId
    <3>4. QED
      BY <3>1, <3>2, <3>3
  <2>2. id \in DOMAIN sessions
    BY <1>2, <2>1, SessionsThen
  <2>3. Drawn(id) \/ Comes(id, chain[c].after)
    BY <1>1, <1>2, <1>4, <2>2 DEF Announced
  <2>4. CASE Drawn(id)
    BY <2>2, <2>4, DrawnKept
  <2>5. CASE Comes(id, chain[c].after)
    <3>1. Extends
      BY <1>2, <1>4, Extending, StillRuns
    <3>2. PICK k \in 1 .. chain[c].after : events[k].ev = "update" /\ events[k].id = id
      BY <2>5 DEF Comes
    <3>3. k \in 1 .. chain'[c].after /\ events'[k] = events[k]
      BY <1>3, <1>4, <3>1 DEF Extends
    <3>4. QED
      BY <3>2, <3>3 DEF Comes
  <2>6. QED
    BY <2>3, <2>4, <2>5
<1>5. CASE StartsTunnel(c)
  <2>1. /\ chain'[c].after = Len(events') /\ DOMAIN chain'[c].got = {nextId}
        /\ Writes(Written("update", nextId, Target(chain[c])))
    BY <1>5, StartsTunnelDoes
  <2>2. id = nextId
    BY <2>1
  <2>3. Len(events') \in 1 .. chain'[c].after /\ events'[Len(events')].ev = "update"
        /\ events'[Len(events')].id = id
    BY <2>1, <2>2 DEF Writes, Written
  <2>4. QED
    BY <2>3 DEF Comes
<1>6. CASE Hears
  <2>1. Waits(c) /\ sessions' = sessions
    BY <1>1, <1>6, Heard, Hearing DEF Shifts
  <2>2. id \in DOMAIN sessions /\ (Drawn(id) \/ Comes(id, chain[c].after))
    BY <1>1, <1>2, <2>1 DEF Announced, Waits
  <2>3. PICK n \in 0 .. Len(events) : n = chain[c].after
    BY <1>3
  <2>4. DrawnBy(id, n)
    BY <2>2, <2>3 DEF DrawnBy
  <2>5. Drawn(id)' \/ (n # 0 /\ Comes(id, n - 1)')
    BY <1>6, <2>2, <2>4, OneThrough
  <2>6. n # 0 => chain'[c].after = n - 1
    BY <2>1, <2>3 DEF Waits
  <2>7. QED
    BY <2>5, <2>6 DEF Comes
<1>7. QED
  BY <1>1, <1>4, <1>5, <1>6, StartAnswered

-----------------------------------------------------------------------------
(* The Reconnect buttons and their parameters.                              *)

(* Most steps leave them alone.                                             *)
LEMMA ReplayStays ==
  ASSUME Typed, CallsOK, [Next]_vars, ~Hears, ~Restart, ~Respawn,
         \A c \in Chains : ~Started(c) /\ ~Reconnected(c)
  PROVE  /\ UNCHANGED <<replay, errored, offers>> /\ odd'.orphans = odd.orphans /\ odd'.used = odd.used
         /\ DOMAIN cards \subseteq DOMAIN cards'
         /\ \A name, id : Pending(name, id) => Pending(name, id)'
<1>1. /\ odd \in Histories
      /\ \A name, id : Pending(name, id) => Pending(name, id)'
  BY PendingKept DEF Typed
<1>2. ASSUME NEW c \in Chains, Listed(c)
      PROVE  /\ UNCHANGED <<replay, errored, offers>> /\ odd'.orphans = odd.orphans /\ odd'.used = odd.used
             /\ DOMAIN cards \subseteq DOMAIN cards'
  BY <1>1, <1>2, ListedDoes DEF Listed, Histories
<1>3. ASSUME NEW c \in Chains, Limited(c)
      PROVE  UNCHANGED screen /\ odd'.orphans = odd.orphans /\ odd'.used = odd.used
  <2>1. \/ odd' = odd \/ odd' = [odd EXCEPT !.heldOff = @ \/ loop # life]
        \/ \E n \in Nat : GoesOn(c, 1, n, odd)
    BY <1>3, LimitedDoes
  <2>2. QED
    BY <1>1, <1>3, <2>1 DEF Limited, GoesOn, Histories
<1>4. CASE \/ \E c \in Chains : \/ Answers(c) \/ StartFails(c) \/ StartsTunnel(c)
                                \/ WaitEnds(c) \/ GivesUp(c) \/ Pinged(c)
           \/ \E t \in Tunnels : StartsLate(t)
           \/ \E id \in DOMAIN sessions : SessionFails(id) \/ Stop(id)
           \/ Ready \/ Crash \/ Murmurs
           \/ \E i \in 1 .. Len(Saved) : StartSaved(i)
           \/ \E o \in offers : Reconnect(o)
           \/ UNCHANGED vars
  <2>1. /\ UNCHANGED screen
        /\ \/ odd' = odd
           \/ \E more : odd' = [odd EXCEPT !.touched = more]
           \/ \E more : odd' = [odd EXCEPT !.uncapped = more]
    BY <1>4, MurmursDoes DEF Answers, StartFails, StartsTunnel, WaitEnds, GivesUp, Pinged, StartsLate,
                SessionFails, Stop, Ends, Ready, Crash, StartSaved, Reconnect, vars
  <2>2. odd'.orphans = odd.orphans /\ odd'.used = odd.used
    <3>1. ASSUME NEW more, odd' = [odd EXCEPT !.touched = more] PROVE odd'.orphans = odd.orphans /\ odd'.used = odd.used
      BY <1>1, <3>1 DEF Histories
    <3>2. ASSUME NEW more, odd' = [odd EXCEPT !.uncapped = more] PROVE odd'.orphans = odd.orphans /\ odd'.used = odd.used
      BY <1>1, <3>2 DEF Histories
    <3>3. QED
      BY <2>1, <3>1, <3>2
  <2>3. QED
    BY <1>1, <2>1, <2>2 DEF screen
<1>5. ASSUME NEW c \in Chains, TimeOut(c)
      PROVE  UNCHANGED screen /\ odd'.orphans = odd.orphans /\ odd'.used = odd.used
  BY <1>1, <1>5 DEF TimeOut, Histories
<1>6. QED
  BY <1>1, <1>2, <1>3, <1>4, <1>5, NextIs DEF Step, screen

(* The parameters of a start that is answered are those of a session with   *)
(* a card, or of one that ends, or orphans.                                 *)
LEMMA StartedReplay ==
  ASSUME Worker, Announced, NEW c \in Chains, Started(c), NEW id \in DOMAIN chain[c].got
  PROVE  \/ id \in DOMAIN cards \/ Pending("stopped", id)
         \/ id \in odd'.orphans
<1> USE DEF Worker
<1>1. /\ chain[c].pc = "start" /\ chain[c].st \in {"ok", "failed"} /\ chain[c].after = 0
      /\ Gone(c) \subseteq odd'.orphans
  <2>1. odd'.orphans = [odd EXCEPT !.orphans = (@ \ DOMAIN chain[c].got) \cup Gone(c)
                                        \cup (DOMAIN chain[c].got \cap errored)].orphans
    BY StartedDoes
  <2>2. odd \in Histories
    BY DEF Typed
  <2>3. QED
    BY <2>1, <2>2, StartedDoes DEF Histories
<1>2. chain[c].st = "ok"
  BY <1>1, EmptyMap DEF CallsOK, CallOK
<1>3. SUFFICES ASSUME id \notin Gone(c) PROVE id \in DOMAIN cards \/ Pending("stopped", id)
  BY <1>1
<1>4. chain[c].life = life
  BY <1>3 DEF Gone
<1>5. CASE id \in DOMAIN sessions
  BY <1>1, <1>2, <1>4, <1>5 DEF Announced, Comes, Drawn
<1>6. CASE id \notin DOMAIN sessions
  <2>1. PICK k \in 1 .. Len(events) : events[k].ev = "stopped" /\ events[k].id = id
    BY <1>3, <1>4, <1>6 DEF Gone
  <2>2. QED
    BY <2>1, TypedSays DEF Pending
<1>7. QED
  BY <1>5, <1>6

LEMMA ReplayStep ==
  ASSUME Worker, Announced, ReplayKept, [Next]_vars
  PROVE  ReplayKept'
<1> USE DEF Worker
<1>1. odd \in Histories /\ replay \in Maps /\ cards \in Maps
  BY TypedSays DEF Typed
<1>2. ASSUME \A name, id : Pending(name, id) => Pending(name, id)',
             \A id \in DOMAIN replay' : id \in DOMAIN replay,
             UNCHANGED <<errored, offers>>, odd'.orphans = odd.orphans,
             DOMAIN cards \subseteq DOMAIN cards'
      PROVE  ReplayKept'
  BY <1>2 DEF ReplayKept, Offered
<1>3. CASE Restart \/ Respawn
  BY <1>3 DEF Restart, Respawn, Spawned, Nothing, screen, ReplayKept
<1>4. ASSUME NEW c \in Chains, Started(c) PROVE ReplayKept'
  <2> DEFINE new == DOMAIN chain[c].got
  <2>1. /\ odd'.orphans = (odd.orphans \ new) \cup Gone(c) \cup (new \cap errored)
        /\ DOMAIN replay' = DOMAIN replay \cup new
    BY <1>1, <1>4, StartedDoes DEF Histories
  <2>2. UNCHANGED <<events, cards, errored, offers>>
    BY <1>4 DEF Started
  <2>3. ASSUME NEW id \in DOMAIN replay'
        PROVE  id \in DOMAIN cards' \/ Offered(id)' \/ id \in odd'.orphans \/ Pending("stopped", id)'
    <3>1. CASE id \in new
      BY <1>4, <2>2, <3>1, StartedReplay DEF Pending
    <3>2. CASE id \notin new
      BY <2>1, <2>2, <3>2 DEF ReplayKept, Offered, Pending
    <3>3. QED
      BY <3>1, <3>2
  <2>4. ASSUME NEW id \in errored' \cap DOMAIN replay' PROVE Offered(id)' \/ id \in odd'.orphans
    BY <2>1, <2>2 DEF ReplayKept, Offered
  <2>5. QED
    BY <2>3, <2>4 DEF ReplayKept
<1>5. ASSUME NEW c \in Chains, Reconnected(c) PROVE ReplayKept'
  <2>1. UNCHANGED <<events, cards, errored, offers>>
    BY <1>5 DEF Reconnected
  <2>2. \A id \in DOMAIN replay' : id \in DOMAIN replay
    BY <1>5 DEF Reconnected, Drop
  <2>3. odd'.orphans = odd.orphans
    BY <1>1, <1>5 DEF Reconnected, Histories
  <2>4. QED
    BY <2>1, <2>2, <2>3 DEF ReplayKept, Offered, Pending
<1>6. CASE Hears
  <2>1. Shifts
    BY <1>6, Hearing
  <2>2. ASSUME NEW id, Pending("stopped", id), e.ev = "stopped" => id # e.id
        PROVE  Pending("stopped", id)'
    <3>1. PICK k \in DOMAIN events : events[k].ev = "stopped" /\ events[k].id = id
      BY <2>2 DEF Pending
    <3>2. k # 1
      BY <2>1, <2>2, <3>1 DEF Shifts
    <3>3. k - 1 \in DOMAIN events' /\ events'[k - 1] = events[k]
      BY <2>1, <3>2 DEF Shifts
    <3>4. QED
      BY <3>1, <3>3 DEF Pending
  <2>3. CASE OnReady
    <3>1. UNCHANGED <<screen, odd>> /\ e.ev = "ready"
      BY <1>6, <2>3, Hearing DEF OnReady
    <3>2. QED
      BY <2>2, <3>1 DEF screen, ReplayKept, Offered
  <2>4. CASE OnExit
    BY <2>4, EmptyMap DEF OnExit, ReplayKept
  <2>5. CASE OnUpdate
    <3>1. /\ UNCHANGED <<replay, errored, offers>> /\ DOMAIN cards \subseteq DOMAIN cards'
          /\ odd'.orphans = odd.orphans /\ e.ev = "update"
      BY <1>1, <2>5 DEF OnUpdate, Put, Delivers, e, Histories
    <3>2. QED
      BY <2>2, <3>1 DEF ReplayKept, Offered
  <2>6. CASE OnError
    <3>1. /\ replay' = replay /\ errored' = errored \cup {e.id} /\ offers' = offers \cup Offer
          /\ cards' = cards /\ odd' = odd /\ e.ev = "error"
      BY <2>6 DEF OnError, Delivers, e
    <3>2. \A id : Offered(id) => Offered(id)'
      BY <3>1 DEF Offered
    <3>3. ASSUME NEW id \in DOMAIN replay, id = e.id PROVE Offered(id)'
      <4> DEFINE o == [id |-> e.id, t |-> e.t, life |-> e.life]
      <4>1. o \in offers' /\ o.id = id
        BY <3>1, <3>3 DEF Offer
      <4> HIDE DEF o
      <4>2. QED
        BY <4>1 DEF Offered
    <3>4. QED
      BY <2>2, <3>1, <3>2, <3>3 DEF ReplayKept
  <2>7. CASE OnStopped
    <3>1. /\ DOMAIN cards' = DOMAIN cards \ {e.id} /\ errored' = errored \ {e.id}
          /\ DOMAIN replay' = IF e.id \in errored THEN DOMAIN replay ELSE DOMAIN replay \ {e.id}
          /\ offers' = offers /\ e.ev = "stopped"
      BY <2>7 DEF OnStopped, Drop, Delivers, e
    <3>2. odd'.orphans = odd.orphans
      BY <1>1, <2>7 DEF OnStopped, Histories
    <3>3. \A id : Offered(id) => Offered(id)'
      BY <3>1 DEF Offered
    <3>4. ASSUME NEW id \in DOMAIN replay'
          PROVE  id \in DOMAIN cards' \/ Offered(id)' \/ id \in odd'.orphans \/ Pending("stopped", id)'
      BY <2>2, <3>1, <3>2, <3>3 DEF ReplayKept
    <3>5. \A id \in errored' \cap DOMAIN replay' : Offered(id)' \/ id \in odd'.orphans
      BY <3>1, <3>2, <3>3 DEF ReplayKept
    <3>6. QED
      BY <3>4, <3>5 DEF ReplayKept
  <2>8. CASE OnState
    <3>1. /\ UNCHANGED <<replay, errored, offers, cards>>
          /\ odd'.orphans = odd.orphans /\ e.ev = "state"
      BY <1>1, <2>8 DEF OnState, Delivers, e, Histories
    <3>2. QED
      BY <2>2, <3>1 DEF ReplayKept, Offered
  <2>9. QED
    BY <1>6, <2>3, <2>4, <2>5, <2>6, <2>7, <2>8 DEF Hears
<1>7. CASE ~Hears /\ ~Restart /\ ~Respawn /\ \A c \in Chains : ~Started(c) /\ ~Reconnected(c)
  <2>1. /\ UNCHANGED <<replay, errored, offers>> /\ odd'.orphans = odd.orphans
        /\ DOMAIN cards \subseteq DOMAIN cards'
        /\ \A name, id : Pending(name, id) => Pending(name, id)'
    BY <1>7, ReplayStays
  <2>2. QED
    BY <1>2, <2>1
<1>8. QED
  BY <1>3, <1>4, <1>5, <1>6, <1>7

(* The end of a session is told once.                                       *)
LEMMA ToldOnce ==
  ASSUME Worker, OffersKept, [Next]_vars,
         NEW k \in DOMAIN events', NEW m \in DOMAIN events',
         events'[k].ev = "stopped", events'[m].ev = "stopped",
         events'[k].id = events'[m].id, events'[k].life = events'[m].life
  PROVE  k = m
<1> USE DEF Worker
<1>1. \A i, j \in DOMAIN events :
          /\ events[i].ev = "stopped" /\ events[j].ev = "stopped"
          /\ events[i].id = events[j].id /\ events[i].life = events[j].life
          => i = j
  BY DEF OffersKept
<1>2. CASE events' = events
  BY <1>1, <1>2
<1>3. ASSUME NEW x, Writes(x), x.ev # "stopped" PROVE k = m
  BY <1>1, <1>3 DEF Writes
<1>4. CASE \/ \E c \in Chains : Answers(c) \/ StartFails(c) \/ TimeOut(c) \/ Step(c)
           \/ \E i \in 1 .. Len(Saved) : StartSaved(i)
           \/ \E o \in offers : Reconnect(o)
           \/ UNCHANGED vars
  BY <1>2, <1>4, Calling
<1>5. CASE (\E c \in Chains : StartsTunnel(c)) \/ (\E t \in Tunnels : StartsLate(t))
  BY <1>3, <1>5, Beginning DEF Written
<1>6. ASSUME NEW id \in DOMAIN sessions, SessionFails(id) \/ Stop(id) PROVE k = m
  <2>1. /\ \A i \in DOMAIN events : i \in DOMAIN events' /\ events'[i] = events[i]
        /\ events'[Len(events')] = Written("stopped", id, sessions[id])
        /\ \A i \in DOMAIN events' : \/ i \in DOMAIN events \/ i = Len(events')
                                     \/ events'[i] = Written("error", id, sessions[id])
    BY <1>6, EndsDoes
  <2>2. ASSUME NEW i \in DOMAIN events, events[i].ev = "stopped", events[i].life = life
        PROVE  events[i].id # id
    BY <2>2 DEF EventsOK, EventOK
  <2>3. QED
    BY <1>1, <2>1, <2>2 DEF Written
<1>7. CASE Ready
  BY <1>3, <1>7, ReadyDoes DEF Written
<1>8. CASE Crash
  <2>1. PICK p \in Nat : Inserts(p)
    BY <1>8, CrashIs
  <2>2. events'[p + 1].ev = "exit"
    BY <2>1 DEF Inserts
  <2>3. k # p + 1 /\ m # p + 1
    BY <2>2
  <2>4. /\ Was(p, k) \in DOMAIN events /\ events'[k] = events[Was(p, k)]
        /\ Was(p, m) \in DOMAIN events /\ events'[m] = events[Was(p, m)]
    BY <2>1, <2>3 DEF Inserts
  <2>5. Was(p, k) = Was(p, m)
    BY <1>1, <2>4
  <2>6. k \in Nat /\ m \in Nat
    BY <2>1 DEF Inserts
  <2>7. QED
    BY <2>1, <2>3, <2>5, <2>6 DEF Was
<1>9. CASE Respawn \/ Restart
  BY <1>2, <1>9 DEF Respawn, Restart, Spawned
<1>10. CASE Hears
  <2>1. /\ k + 1 \in DOMAIN events /\ events'[k] = events[k + 1] /\ k \in Nat
        /\ m + 1 \in DOMAIN events /\ events'[m] = events[m + 1] /\ m \in Nat
    BY <1>10, Hearing DEF Shifts
  <2>2. k + 1 = m + 1
    BY <1>1, <2>1
  <2>3. QED
    BY <2>1, <2>2
<1>11. CASE Murmurs
  <2>1. k \in DOMAIN events /\ m \in DOMAIN events
    BY <1>11, MurmursDoes
  <2>2. events'[k] = events[k] /\ events'[m] = events[m]
    BY <1>11, <2>1, MurmursDoes
  <2>3. QED
    BY <1>1, <2>1, <2>2
<1>12. QED
  BY <1>4, <1>5, <1>6, <1>7, <1>8, <1>9, <1>10, <1>11, NextIs

(* The worker is the same, but for its own steps.                           *)
LEMMA SameWorker ==
  ASSUME Typed, CallsOK, [Next]_vars, ~Ready, ~Crash, ~Respawn, ~Restart
  PROVE  life' = life /\ up' = up
<1>1. CASE \/ \E c \in Chains : Answers(c) \/ StartFails(c) \/ TimeOut(c) \/ Step(c)
           \/ \E i \in 1 .. Len(Saved) : StartSaved(i)
           \/ \E p \in offers : Reconnect(p)
           \/ UNCHANGED vars
  BY <1>1, Calling
<1>2. CASE (\E c \in Chains : StartsTunnel(c)) \/ (\E t \in Tunnels : StartsLate(t))
  BY <1>2, Beginning
<1>3. ASSUME NEW i \in DOMAIN sessions, SessionFails(i) \/ Stop(i)
      PROVE  life' = life /\ up' = up
  BY <1>3, EndsDoes
<1>4. CASE Hears \/ Murmurs
  BY <1>4, Hearing, MurmursDoes DEF Shifts
<1>5. QED
  BY <1>1, <1>2, <1>3, <1>4, NextIs

LEMMA OffersStep ==
  ASSUME Worker, Worker', OffersKept, [Next]_vars
  PROVE  OffersKept'
<1> USE DEF Worker
<1>1. \A k, m \in DOMAIN events' :
          /\ events'[k].ev = "stopped" /\ events'[m].ev = "stopped"
          /\ events'[k].id = events'[m].id /\ events'[k].life = events'[m].life
          => k = m
  BY ToldOnce
<1>2. SUFFICES ASSUME NEW o \in offers', o.life = life', up' # "down"
               PROVE  /\ o.id \notin DOMAIN sessions'
                      /\ Pending("stopped", o.id)' => o.id \in errored'
                      /\ o.id \notin odd'.orphans \cup odd'.used => o.id \in DOMAIN replay'
  BY <1>1 DEF OffersKept
<1> DEFINE id == o.id
<1> HIDE DEF id
<1>3. SUFFICES /\ id \notin DOMAIN sessions'
               /\ Pending("stopped", id)' => id \in errored'
               /\ id \notin odd'.orphans \cup odd'.used => id \in DOMAIN replay'
  BY DEF id
<1>4. /\ odd \in Histories /\ replay \in Maps
      /\ up' # "starting"
      /\ \A p \in offers : p.life <= life /\ p.life \in Nat /\ (up = "starting" => p.life < life)
  <2>1. \A p \in offers : p.life \in Lives
    BY DEF Typed
  <2>2. o.life \in Nat /\ (up' = "starting" => o.life < life')
    BY <1>2, TypedSays DEF EventsOK, Typed
  <2>3. QED
    BY <1>2, <2>1, <2>2, TypedSays DEF EventsOK, Typed
<1>5. ~Respawn /\ ~Restart /\ ~Crash
  BY <1>2, <1>4 DEF Respawn, Restart, Spawned, Crash
<1>6. CASE o \notin offers
  <2>1. OnError
    <3>1. CASE Hears
      BY <1>2, <1>6, <3>1 DEF Hears, OnReady, OnExit, OnUpdate, OnState, OnStopped, screen
    <3>2. CASE \E c \in Chains : Started(c) \/ Reconnected(c)
      BY <1>2, <1>6, <3>2 DEF Started, Reconnected
    <3>3. CASE ~Hears /\ \A c \in Chains : ~Started(c) /\ ~Reconnected(c)
      BY <1>2, <1>5, <1>6, <3>3, ReplayStays
    <3>4. QED
      BY <3>1, <3>2, <3>3 DEF Hears
  <2>2. Shifts /\ UNCHANGED <<life, sessions>> /\ e = events[1] /\ 1 \in DOMAIN events
    BY <2>1, Hearing DEF Hears, Shifts
  <2>3. /\ o \in Offer /\ e.ev = "error" /\ errored' = errored \cup {e.id} /\ replay' = replay
    BY <1>2, <1>6, <2>1 DEF OnError, Delivers, e
  <2>4. o.id = e.id /\ o.life = e.life /\ e.id \in DOMAIN replay
    BY <2>3 DEF Offer
  <2>5. EventOK(1)
    BY <2>2 DEF EventsOK
  <2>6. QED
    BY <1>2, <2>2, <2>3, <2>4, <2>5 DEF EventOK, id
<1>7. CASE o \in offers /\ Ready
  BY <1>2, <1>4, <1>7 DEF Ready
<1>8. CASE o \in offers /\ ~Ready
  <2>1. life' = life /\ up' = up
    BY <1>5, <1>8, SameWorker
  <2>2. /\ id \notin DOMAIN sessions
        /\ Pending("stopped", id) => id \in errored
        /\ id \notin odd.orphans \cup odd.used => id \in DOMAIN replay
        /\ id \in Nat /\ o.t \in Tunnels /\ up = "up" /\ life \in Nat
    BY <1>2, <1>4, <1>8, <2>1, TypedSays DEF OffersKept, Typed, id
  <2>3. id < nextId /\ nextId \in Nat
    <3>1. Says(id, o.t)
      BY <1>2, <1>8, <2>1 DEF Says, Shows, id
    <3>2. QED
      BY <2>2, <3>1 DEF OneTunnelPerId, Typed
  <2>4. id \notin DOMAIN sessions'
    BY <2>2, <2>3, SessionsThen
  <2>5. \A k \in DOMAIN events : events[k].life = life /\ events[k].ev # "exit"
    BY <1>2, <2>1, <2>2 DEF EventsOK, EventOK
  <2>6. CASE Hears
    <3>1. Shifts /\ 1 \in DOMAIN events /\ e = events[1] /\ ~OnExit
      BY <2>5, <2>6, Hearing DEF Shifts
    <3>2. ASSUME NEW k \in DOMAIN events', events'[k].ev = "stopped", events'[k].id = id
          PROVE  Pending("stopped", id) /\ (e.ev = "stopped" => e.id # id)
      <4>1. k + 1 \in DOMAIN events /\ events'[k] = events[k + 1] /\ k + 1 # 1
        BY <3>1 DEF Shifts
      <4>2. QED
        BY <2>5, <3>1, <3>2, <4>1 DEF OffersKept, Pending
    <3>3. CASE OnReady \/ OnUpdate \/ OnState
      <4>1. errored' = errored /\ replay' = replay /\ odd'.orphans = odd.orphans /\ odd'.used = odd.used
        BY <1>4, <3>3 DEF OnReady, OnUpdate, OnState, screen, Histories
      <4>2. QED
        BY <2>2, <2>4, <3>2, <4>1 DEF Pending
    <3>4. CASE OnError
      <4>1. errored \subseteq errored' /\ replay' = replay /\ odd' = odd
        BY <3>4 DEF OnError
      <4>2. QED
        BY <2>2, <2>4, <3>2, <4>1 DEF Pending
    <3>5. CASE OnStopped
      <4>1. /\ errored' = errored \ {e.id} /\ e.ev = "stopped"
            /\ DOMAIN replay' = IF e.id \in errored THEN DOMAIN replay ELSE DOMAIN replay \ {e.id}
        BY <3>5 DEF OnStopped, Drop, Delivers, e
      <4>2. odd'.orphans = odd.orphans /\ odd'.used = odd.used
        BY <1>4, <3>5 DEF OnStopped, Histories
      <4>3. e.id = id => Pending("stopped", id)
        BY <3>1, <4>1 DEF Pending
      <4>4. QED
        BY <2>2, <2>4, <3>2, <4>1, <4>2, <4>3 DEF Pending
    <3>6. QED
      BY <2>6, <3>1, <3>3, <3>4, <3>5 DEF Hears
  <2>7. ASSUME NEW c \in Chains, Started(c)
        PROVE  /\ Pending("stopped", id)' => id \in errored'
               /\ id \notin odd'.orphans \cup odd'.used => id \in DOMAIN replay'
    <3> DEFINE new == DOMAIN chain[c].got
    <3>1. /\ odd'.orphans = (odd.orphans \ new) \cup Gone(c) \cup (new \cap errored)
          /\ DOMAIN replay' = DOMAIN replay \cup new
      BY <1>4, <2>7, StartedDoes DEF Histories
    <3> DEFINE more == (odd.orphans \ new) \cup Gone(c) \cup (new \cap errored)
               q    == [odd EXCEPT !.orphans = more]
    <3>4. q \in Histories /\ (odd' = q \/ \E n \in Nat : GoesOn(c, chain[c].i + 1, n, q))
      BY <2>7, StartedDoes
    <3>5. q.used = odd.used
      BY <1>4 DEF Histories
    <3> HIDE DEF q
    <3>6. odd'.used = q.used
      BY <3>4 DEF GoesOn, Histories
    <3>2. UNCHANGED <<events, errored>>
      BY <2>7 DEF Started
    <3>3. QED
      BY <2>2, <3>1, <3>2, <3>5, <3>6 DEF Pending
  <2>8. ASSUME NEW c \in Chains, Reconnected(c)
        PROVE  /\ Pending("stopped", id)' => id \in errored'
               /\ id \notin odd'.orphans \cup odd'.used => id \in DOMAIN replay'
    <3>1. UNCHANGED <<events, errored>>
      BY <2>8 DEF Reconnected
    <3>2. \/ replay' = replay /\ odd' = odd
          \/ /\ DOMAIN replay' = DOMAIN replay \ {chain[c].i}
             /\ odd'.used = odd.used \cup {chain[c].i} /\ odd'.orphans = odd.orphans
      BY <1>4, <2>8 DEF Reconnected, Drop, Histories
    <3>3. QED
      BY <2>2, <3>1, <3>2 DEF Pending
  <2>9. CASE ~Hears /\ \A c \in Chains : ~Started(c) /\ ~Reconnected(c)
    <3>1. UNCHANGED <<replay, errored>> /\ odd'.orphans = odd.orphans /\ odd'.used = odd.used
      BY <1>5, <2>9, ReplayStays
    <3>2. Pending("stopped", id)' => Pending("stopped", id)
      <4>1. CASE \/ \E c \in Chains : Answers(c) \/ StartFails(c) \/ TimeOut(c) \/ Step(c)
                 \/ \E i \in 1 .. Len(Saved) : StartSaved(i)
                 \/ \E p \in offers : Reconnect(p)
                 \/ UNCHANGED vars
        BY <4>1, Calling DEF Pending
      <4>2. CASE (\E c \in Chains : StartsTunnel(c)) \/ (\E t \in Tunnels : StartsLate(t))
        <5>1. PICK t : Writes(Written("update", nextId, t))
          BY <4>2, Beginning
        <5>2. QED
          BY <5>1 DEF Writes, Written, Pending
      <4>3. ASSUME NEW i \in DOMAIN sessions, SessionFails(i) \/ Stop(i)
            PROVE  Pending("stopped", id)' => Pending("stopped", id)
        <5>1. /\ \A k \in DOMAIN events : k \in DOMAIN events' /\ events'[k] = events[k]
              /\ events'[Len(events')] = Written("stopped", i, sessions[i])
              /\ \A k \in DOMAIN events' : \/ k \in DOMAIN events \/ k = Len(events')
                                           \/ events'[k] = Written("error", i, sessions[i])
          BY <4>3, EndsDoes
        <5>2. i # id
          BY <2>2, <4>3
        <5>3. QED
          BY <5>1, <5>2 DEF Pending, Written
      <4>4. CASE Murmurs
        BY <4>4, MurmursDoes DEF Pending
      <4>5. QED
        BY <1>5, <1>8, <2>9, <4>1, <4>2, <4>3, <4>4, NextIs
    <3>3. QED
      BY <2>2, <2>4, <3>1, <3>2
  <2>10. QED
    BY <2>4, <2>6, <2>7, <2>8, <2>9
<1>9. QED
  BY <1>6, <1>7, <1>8

-----------------------------------------------------------------------------
(* One chain at a time starts the saved tunnels.                            *)

\* The chain loops on as it was, though its call may be answered.
LoopsOn(c) ==
    LET r == chain[c] q == chain'[c] IN
    /\ q.pc = r.pc /\ q.i = r.i /\ q.life = r.life /\ q.born = r.born

(* A chain that does not take a step loops on, and does not begin to.       *)
LEMMA LoopKept ==
  ASSUME Typed, CallsOK, EventsOK, ReadyOnce, [Next]_vars, NEW c \in Chains, c # User, ~Step(c)
  PROVE  /\ Loops(c)' => Loops(c)
         /\ Loops(c) => LoopsOn(c)
<1>1. ASSUME NEW d \in Chains, Others(d), d # c PROVE LoopsOn(c)
  BY <1>1 DEF Others, LoopsOn
<1>2. ASSUME LoopsOn(c) PROVE (Loops(c)' => Loops(c)) /\ (Loops(c) => LoopsOn(c))
  BY <1>2 DEF LoopsOn, Loops
<1>3. ASSUME NEW d \in Chains, Answers(d) \/ StartsTunnel(d) \/ StartFails(d) \/ TimeOut(d)
      PROVE  LoopsOn(c)
  <2>1. Ending(d, "ok") \/ Ending(d, "failed")
    BY <1>3, Settling
  <2>2. QED
    BY <1>1, <2>1 DEF Ending, LoopsOn
<1>4. ASSUME NEW d \in Chains, Step(d) PROVE LoopsOn(c)
  BY <1>1, <1>4, Turning DEF Turns
<1>5. ASSUME (\E i \in 1 .. Len(Saved) : StartSaved(i)) \/ (\E o \in offers : Reconnect(o))
      PROVE  LoopsOn(c)
  BY <1>1, <1>5, UserTurns, ChainNames DEF Turns
<1>6. CASE Restart
  <2>1. Others(Button) /\ chain'[Button].pc = "wait" /\ Button \in Chains
    BY <1>6, RestartDoes, ChainNames
  <2>2. CASE c = Button
    BY <1>6, <2>1, <2>2, IdleIs DEF Restart, Loops
  <2>3. CASE c # Button
    BY <1>1, <1>2, <2>1, <2>3
  <2>4. QED
    BY <2>2, <2>3
<1>7. ASSUME Crash PROVE LoopsOn(c)
  <2>1. PICK d \in Nat : Drains(d)
    BY <1>7, CrashIs
  <2>2. QED
    BY <2>1 DEF Drains, LoopsOn
<1>8. CASE \/ \E t \in Tunnels : StartsLate(t)
           \/ \E id \in DOMAIN sessions : SessionFails(id) \/ Stop(id)
           \/ Ready \/ Respawn \/ Murmurs \/ UNCHANGED vars
  <2>1. chain' = chain
    BY <1>8, MurmursDoes DEF StartsLate, SessionFails, Stop, Ends, Ready, Respawn, vars
  <2>2. QED
    BY <1>2, <2>1 DEF LoopsOn
<1>9. CASE Hears
  <2>1. CASE Waits(c)
    BY <1>2, <2>1 DEF Waits, LoopsOn
  <2>2. CASE ~Waits(c)
    <3>1. /\ e.ev = "ready" /\ c = <<"ready", e.life>> /\ chain'[c].pc \in {"idle", "ping"}
          /\ 1 \in DOMAIN events /\ e = events[1]
      BY <1>9, <2>2, Heard, Hearing DEF Shifts
    <3>2. chain[c].pc = "idle"
      BY <3>1 DEF ReadyOnce
    <3>3. QED
      BY <3>1, <3>2 DEF Loops
  <2>3. QED
    BY <2>1, <2>2
<1>10. QED
  BY <1>2, <1>3, <1>4, <1>5, <1>6, <1>7, <1>8, <1>9, NextIs

(* ... and the mark of the loop stays.                                      *)
LEMMA MarkKept ==
  ASSUME Typed, CallsOK, [Next]_vars, \A c \in Chains : ~Limited(c) /\ ~Started(c)
  PROVE  loop' = loop
<1>1. CASE Hears
  <2>1. Shifts
    BY <1>1, Hearing
  <2>2. QED
    BY <2>1 DEF Shifts
<1>2. CASE ~Hears
  BY <1>2 DEF Next, Hears, vars, Answers, StartsTunnel, StartFails, TimeOut, Step, WaitEnds, GivesUp,
              Pinged, Listed, Reconnected, StartsLate, SessionFails, Stop, Ends, Ready, Crash,
              Respawn, Restart, Spawned, StartSaved, Reconnect, LateFails, Suspends
<1>3. QED
  BY <1>1, <1>2

(* What a chain does with the loop: nothing, begin it, or go on with it.    *)
LEMMA Looping ==
  ASSUME Typed, CallsOK, NEW c \in Chains, Step(c)
  PROVE  \/ loop' = loop /\ ~Loops(c) /\ ~Loops(c)'
         \/ /\ Limited(c) /\ loop = 0 /\ ~Loops(c) /\ c # User
            /\ \E n \in Nat : GoesOn(c, 1, n, odd)
         \/ /\ Started(c) /\ Loops(c)
            /\ \E n \in Nat : GoesOn(c, chain[c].i + 1, n,
                  [odd EXCEPT !.orphans = (@ \ DOMAIN chain[c].got) \cup Gone(c)
                                           \cup (DOMAIN chain[c].got \cap errored)])
<1>1. c = User => chain[c].pc \in {"idle", "start", "reconnect"}
  BY DEF CallsOK
<1>2. CASE Limited(c)
  <2>1. chain[c].pc = "limit" /\ c # User
    BY <1>1, <1>2 DEF Limited, Arrived
  <2>2. \/ chain'[c] = Idle /\ loop' = loop
        \/ loop = 0 /\ \E n \in Nat : GoesOn(c, 1, n, odd)
    BY <1>2, LimitedDoes
  <2>3. QED
    BY <1>2, <2>1, <2>2, IdleIs DEF Loops
<1>3. CASE Started(c)
  <2>1. chain[c].pc = "start"
    BY <1>3 DEF Started, Arrived
  <2>2. \/ c = User /\ chain'[c] = Idle /\ loop' = loop
        \/ /\ c # User
           /\ \E n \in Nat : GoesOn(c, chain[c].i + 1, n,
                  [odd EXCEPT !.orphans = (@ \ DOMAIN chain[c].got) \cup Gone(c)
                                           \cup (DOMAIN chain[c].got \cap errored)])
    BY <1>3, StartedDoes
  <2>3. QED
    BY <1>3, <2>1, <2>2, IdleIs DEF Loops
<1>4. CASE ~Limited(c) /\ ~Started(c)
  <2>1. loop' = loop
    BY <1>4 DEF Step, WaitEnds, GivesUp, Pinged, Listed, Reconnected
  <2>2. chain[c].pc # "start"
    BY <1>4 DEF Step, WaitEnds, GivesUp, Pinged, Listed, Reconnected, Arrived
  <2>3. chain'[c].pc # "start"
    <3>1. SUFFICES ASSUME chain'[c].pc = "start" PROVE FALSE
      OBVIOUS
    <3>2. chain[c].pc = "limit"
      BY <2>2, <3>1, ComesToStart
    <3>3. QED
      BY <1>4, <3>2 DEF Step, WaitEnds, GivesUp, Pinged, Listed, Reconnected, Arrived
  <2>4. QED
    BY <2>1, <2>2, <2>3 DEF Loops
<1>5. QED
  BY <1>2, <1>3, <1>4

LEMMA LoopStep ==
  ASSUME Worker, OneLoop, [Next]_vars
  PROVE  OneLoop'
<1> USE DEF Worker
<1>1. life \in Nat \ {0}
  BY TypedSays
<1>2. ASSUME NEW c \in Chains, Step(c) PROVE OneLoop'
  <2>1. \A d \in Chains \ {c} : Loops(d)' => Loops(d)
    BY <1>2, Turning DEF Turns, Others, Loops
  <2>2. CASE loop' = loop /\ ~Loops(c)'
    BY <2>1, <2>2 DEF OneLoop
  <2>3. CASE loop = 0 /\ \E n \in Nat : GoesOn(c, 1, n, odd)
    <3>1. \A d \in Chains : Loops(d)' => d = c
      BY <2>1, <2>3 DEF OneLoop
    <3>2. odd \in Histories /\ 1 \in 1 .. Len(Saved) + 1
      BY Constants DEF Typed
    <3>3. Loops(c)' => loop' # 0
      BY <1>1, <2>3, <3>2, GoesOnDoes, IdleIs, Constants DEF Loops
    <3>4. QED
      BY <3>1, <3>3 DEF OneLoop
  <2>4. CASE Started(c) /\ Loops(c)
    <3> DEFINE o == [odd EXCEPT !.orphans = (@ \ DOMAIN chain[c].got) \cup Gone(c)
                                             \cup (DOMAIN chain[c].got \cap errored)]
    <3>1. \A d \in Chains : Loops(d)' => d = c
      BY <2>1, <2>4 DEF OneLoop
    <3>2. o \in Histories /\ c # User /\ \E n \in Nat : GoesOn(c, chain[c].i + 1, n, o)
      BY <2>4, StartedDoes DEF Loops
    <3> HIDE DEF o
    <3>3. chain[c].i + 1 \in 1 .. Len(Saved) + 1
      BY <2>4, Constants DEF Loops, CallsOK, CallOK
    <3>4. Loops(c)' => loop' # 0
      BY <1>1, <2>4, <3>2, <3>3, GoesOnDoes, IdleIs, Constants DEF Loops, OneLoop
    <3>5. QED
      BY <3>1, <3>4 DEF OneLoop
  <2>5. QED
    BY <1>2, <2>2, <2>3, <2>4, Looping
<1>3. CASE \A c \in Chains : ~Step(c)
  <2>1. loop' = loop
    BY <1>3, MarkKept DEF Step
  <2>2. \A c \in Chains : Loops(c)' => Loops(c)
    BY <1>3, LoopKept DEF Loops
  <2>3. QED
    BY <2>1, <2>2 DEF OneLoop
<1>4. QED
  BY <1>2, <1>3

-----------------------------------------------------------------------------
(* No saved tunnel runs twice.                                              *)

\* A call that waits for the present worker, and one that it answered.
Waiting(r)  == r.st = "sent" /\ r.life = life
Answered(r) == r.st = "ok" /\ r.life = life

SameCall(c) ==
    LET r == chain[c] q == chain'[c] IN
    q.pc = r.pc /\ q.i = r.i /\ q.life = r.life /\ q.st = r.st /\ q.got = r.got

(* While no session begins, a session loses the answer to its start only to *)
(* its card, and a chain begins to start only what does not run.            *)
LEMMA CopiesKept ==
  ASSUME Worker, Copies, Grows, [Next]_vars, life' = life,
         \A id \in DOMAIN sessions' : id \in DOMAIN sessions /\ sessions'[id] = sessions[id],
         late' \subseteq odd'.touched,
         Waiting(chain[User])' => \/ Target(chain'[User]) \in odd'.touched
                                  \/ SameCall(User),
         \A c \in Chains : Loops(c) /\ Answered(chain[c]) =>
            \A id \in DOMAIN chain[c].got \cap DOMAIN sessions' :
               \/ Drawn(id)
               \/ SameCall(c),
         \A c \in Chains : Loops(c)' /\ Waiting(chain[c])' =>
            \/ SameCall(c) /\ Loops(c)
            \/ Saved[chain'[c].i] \in Quietly => ~Alive(Saved[chain'[c].i])
  PROVE  Copies'
<1> USE DEF Worker
<1>1. \A t \in Quietly' : t \in Quietly
  BY DEF Quietly, Grows
<1>2. \A t : Alive(t)' => Alive(t)
  BY DEF Alive
<1>3. Waiting(chain[User])' => Target(chain[User])' \in odd'.touched
  <2>1. SUFFICES ASSUME Waiting(chain[User])', SameCall(User)
                 PROVE  Target(chain[User])' \in odd'.touched
    BY DEF Target
  <2>2. Target(chain[User]) \in odd.touched
    BY <2>1 DEF Copies, Waiting, SameCall
  <2>3. QED
    BY <2>1, <2>2 DEF Target, Grows, SameCall
<1>4. \A a, b \in DOMAIN sessions' :
         sessions'[a] = sessions'[b] /\ sessions'[a] \in Quietly' => a = b
  BY <1>1 DEF Copies
<1>5. ASSUME NEW id \in DOMAIN sessions', sessions'[id] \in Quietly'
      PROVE  \/ Drawn(id)'
             \/ \E c \in Chains : Loops(c)' /\ Answered(chain[c])' /\ id \in DOMAIN chain'[c].got
  <2>1. id \in DOMAIN sessions /\ sessions[id] \in Quietly
    BY <1>1, <1>5
  <2>2. CASE Drawn(id)
    BY <2>1, <2>2, DrawnKept
  <2>3. ASSUME NEW c \in Chains, Loops(c), Answered(chain[c]), id \in DOMAIN chain[c].got
        PROVE  \/ Drawn(id)'
               \/ \E d \in Chains : Loops(d)' /\ Answered(chain[d])' /\ id \in DOMAIN chain'[d].got
    <3>1. CASE Drawn(id)
      BY <2>2, <3>1
    <3>2. CASE SameCall(c)
      <4>1. Loops(c)' /\ Answered(chain[c])' /\ id \in DOMAIN chain'[c].got
        BY <2>3, <3>2 DEF Loops, Answered, SameCall
      <4>2. QED
        BY <4>1
    <3>3. QED
      BY <2>3, <3>1, <3>2
  <2>4. QED
    BY <2>1, <2>2, <2>3 DEF Copies, Answered
<1>6. ASSUME NEW c \in Chains, Loops(c)', Waiting(chain[c])', Saved[chain'[c].i] \in Quietly'
      PROVE  ~Alive(Saved[chain[c].i])'
  <2>1. Saved[chain'[c].i] \in Quietly
    BY <1>1, <1>6
  <2>2. ~Alive(Saved[chain'[c].i])
    BY <1>6, <2>1 DEF Copies, Waiting, SameCall
  <2>3. QED
    BY <2>2 DEF Alive
<1>7. QED
  BY <1>3, <1>4, <1>5, <1>6 DEF Copies, Waiting, Answered

(* A tunnel that has no card does not run, unless its start is answered.    *)
LEMMA NotShown ==
  ASSUME Copies, NEW t \in Quietly, ~Shown(t),
         \A c \in Chains : Loops(c) /\ Answered(chain[c]) =>
            \A id \in DOMAIN chain[c].got \cap DOMAIN sessions : Drawn(id)
  PROVE  ~Alive(t)
<1>1. SUFFICES ASSUME NEW id \in DOMAIN sessions, sessions[id] = t PROVE FALSE
  BY DEF Alive
<1>2. Drawn(id)
  BY <1>1 DEF Copies, Answered
<1>3. QED
  BY <1>1, <1>2 DEF Drawn, Shown, Quietly

LEMMA CopiesTurn ==
  ASSUME Worker, OneLoop, Announced, Copies, [Next]_vars, NEW c \in Chains, Step(c)
  PROVE  Copies'
<1> USE DEF Worker
<1>1. Turns(c) /\ UNCHANGED <<life, up, events, sessions>>
  BY Turning, Calling
<1>2. ~Respawn /\ ~Restart /\ life \in Nat
  BY <1>1, TypedSays DEF Respawn, Restart, Spawned
<1>3. Grows /\ late' = late
  BY <1>2, OddGrows DEF Step, WaitEnds, GivesUp, Pinged, Listed, Limited, Started,
                        Reconnected, worker
<1>4. late' \subseteq odd'.touched
  BY <1>3 DEF Grows, Copies
<1>5. c = User => chain'[c] = Idle
  <2>1. SUFFICES ASSUME c = User PROVE chain'[c] = Idle
    OBVIOUS
  <2>2. chain[c].pc \in {"idle", "start", "reconnect"}
    BY <2>1 DEF CallsOK
  <2>3. Started(c) \/ Reconnected(c)
    BY <2>2 DEF Step, WaitEnds, GivesUp, Pinged, Listed, Limited, Arrived
  <2>4. QED
    BY <2>1, <2>3, StartedDoes, EndsIdle DEF Reconnected, Goto
<1>6. Waiting(chain[User])' => \/ Target(chain'[User]) \in odd'.touched
                               \/ SameCall(User)
  BY <1>1, <1>5, IdleIs, ChainNames DEF Turns, Others, Waiting, SameCall
<1>7. ASSUME NEW d \in Chains, Loops(d), Answered(chain[d])
      PROVE  \A id \in DOMAIN chain[d].got \cap DOMAIN sessions' :
                Drawn(id) \/ SameCall(d)
  <2>1. CASE d # c
    BY <1>1, <2>1 DEF Turns, Others, SameCall
  <2>2. CASE d = c
    <3>1. Started(c)
      BY <1>7, <2>2 DEF Loops, Step, WaitEnds, GivesUp, Pinged, Listed, Limited, Reconnected, Arrived
    <3>2. chain[c].after = 0
      BY <3>1 DEF Started, Arrived
    <3>3. QED
      BY <1>1, <1>7, <2>2, <3>2 DEF Announced, Comes, Loops, Answered
  <2>3. QED
    BY <2>1, <2>2
<1>8. ASSUME NEW d \in Chains, Loops(d)', Waiting(chain[d])'
      PROVE  \/ SameCall(d) /\ Loops(d)
             \/ Saved[chain'[d].i] \in Quietly => ~Alive(Saved[chain'[d].i])
  <2>1. CASE d # c
    BY <1>1, <1>8, <2>1 DEF Turns, Others, Loops, SameCall
  <2>2. CASE d = c
    <3>1. PICK n \in Nat, i \in 1 .. Len(Saved) + 1, o \in Histories :
             GoesOn(c, i, n, o) /\ (loop = 0 \/ (Started(c) /\ Loops(c)))
      <4>1. CASE loop = 0 /\ \E n \in Nat : GoesOn(c, 1, n, odd)
        <5>1. 1 \in 1 .. Len(Saved) + 1 /\ odd \in Histories
          BY Constants DEF Typed
        <5>2. QED
          BY <4>1, <5>1
      <4>2. CASE Started(c) /\ Loops(c)
        <5>1. chain[c].i + 1 \in 1 .. Len(Saved) + 1
          BY <4>2, Constants DEF Loops, CallsOK, CallOK
        <5>2. \E n \in Nat, o \in Histories : GoesOn(c, chain[c].i + 1, n, o)
          BY <4>2, StartedDoes DEF Loops
        <5>3. QED
          BY <4>2, <5>1, <5>2
      <4>3. QED
        BY <1>8, <2>2, <4>1, <4>2, Looping
    <3>2. chain'[c].i = n /\ ~Shown(Saved[n])
      <4>1. n \in Nat /\ Len(Saved) \in Nat /\ chain'[c] # Idle
        BY <1>8, <2>2, Constants, IdleIs DEF Loops
      <4>2. n <= Len(Saved) /\ up = "up"
        BY <3>1, <4>1, GoesOnDoes
      <4>3. ~Shown(Saved[n])
        BY <3>1, <4>2 DEF GoesOn
      <4>4. chain'[c].i = n
        BY <3>1, <4>2, GoesOnDoes
      <4>5. QED
        BY <4>3, <4>4
    <3>3. ASSUME NEW b \in Chains, Loops(b), Answered(chain[b])
          PROVE  \A id \in DOMAIN chain[b].got \cap DOMAIN sessions : Drawn(id)
      <4>1. loop # 0 /\ b = c
        BY <3>1, <3>3 DEF OneLoop
      <4>2. chain[c].after = 0
        BY <3>1, <4>1 DEF Started, Arrived
      <4>3. QED
        BY <3>3, <4>1, <4>2 DEF Announced, Comes, Loops, Answered
    <3>4. Saved[n] \in Quietly => ~Alive(Saved[n])
      BY <3>2, <3>3, NotShown
    <3>5. QED
      BY <2>2, <3>2, <3>4
  <2>3. QED
    BY <2>1, <2>2
<1>9. QED
  BY <1>1, <1>3, <1>4, <1>6, <1>7, <1>8, CopiesKept

(* A session begins.                                                        *)
LEMMA CopiesBegin ==
  ASSUME Worker, OneLoop, Copies, [Next]_vars,
         (\E c \in Chains : StartsTunnel(c)) \/ (\E t \in Tunnels : StartsLate(t))
  PROVE  Copies'
<1> USE DEF Worker
<1>1. /\ up = "up" /\ UNCHANGED <<life, up, cards>> /\ life \in Nat
  BY Beginning, TypedSays
<1>2. Grows /\ ~Hears
  <2>1. PICK t : Writes(Written("update", nextId, t))
    BY Beginning
  <2>2. ~Hears
    BY <2>1, NotHearing DEF Writes
  <2>3. QED
    BY <1>1, <2>2, OddGrows DEF Respawn, Restart, Spawned
<1>3. \A t \in Quietly' : t \in Quietly
  BY <1>2 DEF Quietly, Grows
<1>4. PICK t \in Tunnels :
         /\ NewSession(t)
         /\ \/ \E c \in Chains : StartsTunnel(c) /\ t = Target(chain[c])
            \/ StartsLate(t)
  BY Beginning
<1>5. /\ DOMAIN sessions' = DOMAIN sessions \cup {nextId} /\ nextId \notin DOMAIN sessions
      /\ sessions'[nextId] = t /\ \A id \in DOMAIN sessions : sessions'[id] = sessions[id]
  BY <1>4, NewSessionIs
<1>6. late' \subseteq odd'.touched
  BY <1>2, <1>4 DEF Grows, Copies, StartsTunnel, StartsLate
<1>7. ASSUME NEW id \in DOMAIN sessions, Drawn(id) PROVE Drawn(id)'
  BY <1>5, <1>7, DrawnKept
<1>8. ASSUME t \notin Quietly, chain' = chain \/ \E c \in Chains : Ending(c, "ok") /\ ~Loops(c)
      PROVE  Copies'
  <2>1. \A c \in Chains : Loops(c) \/ Loops(c)' => chain'[c] = chain[c]
    BY <1>8 DEF Ending, Others, Loops
  <2>2. Waiting(chain[User])' => chain'[User] = chain[User]
    BY <1>8, ChainNames DEF Ending, Others, Waiting
  <2>3. Waiting(chain[User])' => Target(chain[User])' \in odd'.touched
    BY <1>1, <1>2, <2>2 DEF Waiting, Copies, Target, Grows
  <2>4. \A a \in DOMAIN sessions' : sessions'[a] \in Quietly' =>
           a \in DOMAIN sessions /\ sessions'[a] = sessions[a]
    BY <1>3, <1>5, <1>8
  <2>5. \A a, b \in DOMAIN sessions' :
           sessions'[a] = sessions'[b] /\ sessions'[a] \in Quietly' => a = b
    BY <1>3, <2>4 DEF Copies
  <2>6. ASSUME NEW id \in DOMAIN sessions', sessions'[id] \in Quietly'
        PROVE  \/ Drawn(id)'
               \/ \E c \in Chains : Loops(c)' /\ Answered(chain[c])' /\ id \in DOMAIN chain'[c].got
    <3>1. id \in DOMAIN sessions /\ sessions[id] \in Quietly
      BY <1>3, <2>4, <2>6
    <3>2. CASE Drawn(id)
      BY <1>7, <3>1, <3>2
    <3>3. ASSUME NEW c \in Chains, Loops(c), Answered(chain[c]), id \in DOMAIN chain[c].got
          PROVE  Loops(c)' /\ Answered(chain[c])' /\ id \in DOMAIN chain'[c].got
      BY <1>1, <2>1, <3>3 DEF Loops, Answered
    <3>4. QED
      BY <3>1, <3>2, <3>3 DEF Copies, Answered
  <2>7. ASSUME NEW c \in Chains, Loops(c)', Waiting(chain[c])', Saved[chain'[c].i] \in Quietly'
        PROVE  ~Alive(Saved[chain[c].i])'
    <3>1. chain'[c] = chain[c] /\ Loops(c) /\ Saved[chain[c].i] \in Quietly
      BY <1>3, <2>1, <2>7 DEF Loops
    <3>2. ~Alive(Saved[chain[c].i])
      BY <1>1, <2>7, <3>1 DEF Copies, Waiting
    <3>3. QED
      BY <1>5, <1>8, <3>1, <3>2 DEF Alive
  <2>8. QED
    BY <1>6, <2>3, <2>5, <2>6, <2>7 DEF Copies, Waiting, Answered
<1>9. CASE StartsLate(t)
  BY <1>8, <1>9 DEF StartsLate, Copies, Quietly
<1>10. ASSUME NEW c \in Chains, StartsTunnel(c), t = Target(chain[c]) PROVE Copies'
  <2>1. /\ Ending(c, "ok") /\ chain[c].life = life /\ Starts(c)
        /\ DOMAIN chain'[c].got = {nextId}
    BY <1>10, StartsTunnelDoes
  <2>2. CASE c = User
    <3>1. t \notin Quietly
      BY <1>10, <2>1, <2>2 DEF Ending, Copies, Quietly
    <3>2. QED
      BY <1>8, <2>1, <2>2, <3>1 DEF Loops
  <2>3. CASE c # User
    <3>1. chain[c].pc = "start" /\ Loops(c) /\ t = Saved[chain[c].i]
      BY <1>10, <2>1, <2>3 DEF Starts, CallsOK, Loops, Target
    <3>2. \A d \in Chains : Loops(d) => d = c
      BY <3>1 DEF OneLoop
    <3>3. t \in Quietly => ~Alive(t)
      BY <2>1, <3>1 DEF Copies, Ending
    <3>4. chain'[User] = chain[User]
      BY <2>1, <2>3, ChainNames DEF Ending, Others
    <3>5. Waiting(chain[User])' => Target(chain[User])' \in odd'.touched
      BY <1>1, <1>2, <3>4 DEF Waiting, Copies, Target, Grows
    <3>6. \A a, b \in DOMAIN sessions' :
             sessions'[a] = sessions'[b] /\ sessions'[a] \in Quietly' => a = b
      BY <1>3, <1>5, <3>3 DEF Copies, Alive
    <3>7. ASSUME NEW id \in DOMAIN sessions', sessions'[id] \in Quietly'
          PROVE  \/ Drawn(id)'
                 \/ \E d \in Chains : Loops(d)' /\ Answered(chain[d])' /\ id \in DOMAIN chain'[d].got
      <4>1. CASE id = nextId
        <5>1. Loops(c)' /\ Answered(chain[c])' /\ id \in DOMAIN chain'[c].got
          BY <1>1, <2>1, <3>1, <4>1 DEF Loops, Answered, Ending
        <5>2. QED
          BY <5>1
      <4>2. CASE id # nextId
        <5>1. id \in DOMAIN sessions /\ sessions[id] \in Quietly
          BY <1>3, <1>5, <3>7, <4>2
        <5>2. \A d \in Chains : Loops(d) => chain[d].st # "ok"
          BY <2>1, <3>2 DEF Ending
        <5>3. Drawn(id)
          BY <5>1, <5>2 DEF Copies
        <5>4. QED
          BY <1>7, <5>1, <5>3
      <4>3. QED
        BY <4>1, <4>2
    <3>8. \A d \in Chains : Loops(d)' => ~Waiting(chain[d])'
      BY <2>1, <3>2 DEF Ending, Others, Loops, Waiting
    <3>9. QED
      BY <1>6, <3>5, <3>6, <3>7, <3>8 DEF Copies, Waiting, Answered
  <2>4. QED
    BY <2>2, <2>3
<1>11. QED
  BY <1>4, <1>9, <1>10

LEMMA HearIsNoStep ==
  ASSUME Typed, CallsOK, Hears, NEW c \in Chains
  PROVE  ~Step(c)
<1>1. SUFFICES ASSUME Step(c) PROVE FALSE
  OBVIOUS
<1>2. events' = events
  BY <1>1, Turning
<1>3. QED
  BY <1>2, NotHearing

LEMMA CopiesStep ==
  ASSUME Worker, OneLoop, Announced, Copies, [Next]_vars
  PROVE  Copies'
<1> USE DEF Worker
<1>1. /\ life \in Nat /\ odd \in Histories /\ chain[User].life <= life /\ User \in Chains
      /\ \A c \in Chains : chain[c].life \in Nat /\ chain[c].life <= life
      /\ late \subseteq odd.touched
  BY TypedSays, CallsAre, ChainNames DEF Typed, CallsOK, CallOK, Copies
<1>2. ASSUME sessions' = <<>>, late' = {},
             \A c \in Chains : ~Waiting(chain[c])'
      PROVE  Copies'
  BY <1>1, <1>2, EmptyMap DEF Copies, Waiting
<1>3. CASE Respawn \/ Restart
  <2>1. life' = life + 1 /\ sessions' = <<>> /\ late' = {}
    BY <1>3 DEF Respawn, Restart, Spawned
  <2>2. \A c \in Chains : chain'[c] = chain[c] \/ chain'[c].st = "none"
    BY <1>3, RestartDoes DEF Respawn, Others
  <2>3. \A c \in Chains : ~Waiting(chain[c])'
    BY <1>1, <2>1, <2>2 DEF Waiting
  <2>4. QED
    BY <1>2, <2>1, <2>3
<1>4. CASE Crash
  <2>1. sessions' = <<>> /\ late' = {}
    BY <1>4 DEF Crash
  <2>2. \A c \in Chains : ~Waiting(chain[c])'
    <3>1. PICK d \in Nat : Drains(d)
      BY <1>4, CrashIs
    <3>2. QED
      BY <3>1 DEF Drains, Unread, Waiting
  <2>3. QED
    BY <1>2, <2>1, <2>2
<1>5. ASSUME ~Respawn, ~Restart, life' = life,
             \A id \in DOMAIN sessions' : id \in DOMAIN sessions /\ sessions'[id] = sessions[id],
             late' \subseteq odd'.touched,
             Waiting(chain[User])' => Target(chain'[User]) \in odd'.touched \/ SameCall(User),
             \A c \in Chains : Loops(c) /\ Answered(chain[c]) => SameCall(c),
             \A c \in Chains : Loops(c)' /\ Waiting(chain[c])' => SameCall(c)
      PROVE  Copies'
  <2>1. Grows
    BY <1>5, OddGrows
  <2>2. \A c \in Chains : Loops(c)' /\ SameCall(c) => Loops(c)
    BY DEF Loops, SameCall
  <2>3. QED
    BY <1>5, <2>1, <2>2, CopiesKept
<1>6. ASSUME ~Respawn, ~Restart PROVE odd.touched \subseteq odd'.touched
  BY <1>6, OddGrows DEF Grows
<1>7. ASSUME NEW c \in Chains, Ending(c, "ok") \/ Ending(c, "failed"),
             Ending(c, "ok") => ~Starts(c)
      PROVE  /\ Waiting(chain[User])' => SameCall(User)
             /\ \A d \in Chains : Loops(d) /\ Answered(chain[d]) => SameCall(d)
             /\ \A d \in Chains : Loops(d)' /\ Waiting(chain[d])' => SameCall(d)
  BY <1>1, <1>7 DEF Ending, Others, SameCall, Waiting, Answered
<1>8. ASSUME NEW c \in Chains, Answers(c) PROVE Copies'
  <2>1. Ending(c, "ok") /\ ~Starts(c) /\ life' = life
    BY <1>8, AnswersDoes
  <2>2. UNCHANGED <<sessions, late>> /\ ~Respawn /\ ~Restart
    BY <1>1, <1>8, <2>1 DEF Answers, Respawn, Restart, Spawned
  <2>3. QED
    BY <1>1, <1>5, <1>6, <1>7, <2>1, <2>2
<1>9. ASSUME NEW c \in Chains, StartFails(c) \/ TimeOut(c) PROVE Copies'
  <2>1. Ending(c, "failed") /\ life' = life /\ sessions' = sessions
    BY <1>9, StartFailsDoes, TypedSays, TimeOutDoes DEF Ending, StartFails, TimeOut, worker
  <2>2. ~Ending(c, "ok")
    BY <2>1 DEF Ending
  <2>3. ~Respawn /\ ~Restart
    BY <1>1, <2>1 DEF Respawn, Restart, Spawned
  <2>4. late' \subseteq odd'.touched
    <3>1. CASE late' = late
      BY <1>1, <1>6, <2>3, <3>1
    <3>2. CASE late' = late \cup {Target(chain[c])} /\ TimeOut(c) /\ Asks(c) /\ Starts(c)
      <4>1. odd'.touched = odd.touched \cup {Target(chain[c])}
        BY <1>1, <3>2 DEF TimeOut, Histories
      <4>2. QED
        BY <1>1, <3>2, <4>1
    <3>3. QED
      BY <1>9, <3>1, <3>2 DEF StartFails, TimeOut, worker
  <2>5. /\ Waiting(chain[User])' => SameCall(User)
        /\ \A d \in Chains : Loops(d) /\ Answered(chain[d]) => SameCall(d)
        /\ \A d \in Chains : Loops(d)' /\ Waiting(chain[d])' => SameCall(d)
    BY <1>7, <2>1, <2>2
  <2>6. QED
    BY <1>5, <2>1, <2>3, <2>4, <2>5
<1>10. CASE (\E i \in 1 .. Len(Saved) : StartSaved(i)) \/ (\E o \in offers : Reconnect(o))
  <2>1. /\ Turns(User) /\ UNCHANGED <<life, sessions, late>>
    BY <1>10, UserTurns DEF StartSaved, Reconnect, worker
  <2>2. ~Respawn /\ ~Restart
    BY <1>1, <2>1 DEF Respawn, Restart, Spawned
  <2>3. Target(chain'[User]) \in odd'.touched
    <3>1. ASSUME NEW i \in 1 .. Len(Saved), StartSaved(i) PROVE Target(chain'[User]) \in odd'.touched
      <4>1. chain'[User].pc = "start" /\ chain'[User].i = i
        BY <3>1, StartSavedDoes
      <4>2. Saved[i] \in odd'.touched
        BY <1>1, <3>1 DEF StartSaved, Histories
      <4>3. QED
        BY <4>1, <4>2 DEF Target
    <3>2. ASSUME NEW o \in offers, Reconnect(o) PROVE Target(chain'[User]) \in odd'.touched
      <4>1. LET q == chain'[User] IN
            q.pc = "reconnect" /\ q.i = o.id /\ q.got[o.id] = replay[o.id]
        BY <3>2, ReconnectDoes
      <4>2. replay[o.id] \in odd'.touched
        BY <1>1, <3>2 DEF Reconnect, Histories
      <4>3. QED
        BY <4>1, <4>2 DEF Target
    <3>3. QED
      BY <1>10, <3>1, <3>2
  <2>4. late' \subseteq odd'.touched
    BY <1>1, <1>6, <2>1, <2>2
  <2>5. \A d \in Chains : Loops(d) \/ Loops(d)' => SameCall(d)
    BY <2>1 DEF Turns, Others, Loops, SameCall
  <2>6. QED
    BY <1>5, <2>1, <2>2, <2>3, <2>4, <2>5
<1>11. ASSUME NEW id \in DOMAIN sessions, SessionFails(id) \/ Stop(id) PROVE Copies'
  <2>1. /\ DOMAIN sessions' = DOMAIN sessions \ {id}
        /\ \A j \in DOMAIN sessions' : sessions'[j] = sessions[j]
        /\ UNCHANGED <<life, up, nextId, capped, late, status, screen, loop, chain>>
    BY <1>11, EndsDoes
  <2>2. ~Respawn /\ ~Restart
    BY <1>1, <2>1 DEF Respawn, Restart, Spawned
  <2>3. \A c \in Chains : SameCall(c)
    BY <2>1 DEF SameCall
  <2>4. late' \subseteq odd'.touched
    BY <1>1, <1>6, <2>1, <2>2
  <2>5. QED
    BY <1>1, <1>5, <2>1, <2>2, <2>3, <2>4
<1>12. CASE Ready \/ UNCHANGED vars
  <2>1. UNCHANGED <<life, sessions, late, chain>>
    BY <1>12 DEF Ready, vars, worker
  <2>2. ~Respawn /\ ~Restart
    BY <1>1, <2>1 DEF Respawn, Restart, Spawned
  <2>3. \A c \in Chains : SameCall(c)
    BY <2>1 DEF SameCall
  <2>4. late' \subseteq odd'.touched
    BY <1>1, <1>6, <2>1, <2>2
  <2>5. QED
    BY <1>1, <1>5, <2>1, <2>2, <2>3, <2>4
<1>13. CASE Hears
  <2>1. UNCHANGED <<life, sessions, late>>
    BY <1>13, Hearing DEF Shifts
  <2>2. ~Respawn /\ ~Restart
    BY <1>1, <2>1 DEF Respawn, Restart, Spawned
  <2>3. \A c \in Chains : Waits(c) => SameCall(c)
    BY DEF Waits, SameCall
  <2>4. SameCall(User)
    BY <1>1, <1>13, <2>3, Heard
  <2>5. ASSUME NEW c \in Chains, Loops(c) \/ Loops(c)' PROVE SameCall(c)
    <3>1. chain'[c].pc = "start"
      BY <1>13, <2>5, HearIsNoStep, LoopKept DEF Loops, LoopsOn
    <3>2. Waits(c)
      BY <1>13, <3>1, Heard
    <3>3. QED
      BY <2>3, <3>2
  <2>6. late' \subseteq odd'.touched
    BY <1>1, <1>6, <2>1, <2>2
  <2>7. QED
    BY <1>5, <2>1, <2>2, <2>4, <2>5, <2>6
<1>14. CASE Murmurs
  <2>1. UNCHANGED <<life, sessions, chain>> /\ late' \subseteq late
    BY <1>14, MurmursDoes
  <2>2. ~Respawn /\ ~Restart
    BY <1>1, <2>1 DEF Respawn, Restart, Spawned
  <2>3. \A c \in Chains : SameCall(c)
    BY <2>1 DEF SameCall
  <2>4. late' \subseteq odd'.touched
    BY <1>1, <1>6, <2>1, <2>2
  <2>5. QED
    BY <1>1, <1>5, <2>1, <2>2, <2>3, <2>4
<1>15. QED
  BY <1>3, <1>4, <1>8, <1>9, <1>10, <1>11, <1>12, <1>13, <1>14, NextIs, CopiesTurn, CopiesBegin

-----------------------------------------------------------------------------
(* Every saved tunnel comes back.                                           *)

(* A tunnel runs on, or what ended it is excepted.                          *)
LEMMA CoveredKept ==
  ASSUME Worker, [Next]_vars, ~Crash, ~Respawn, ~Restart, NEW t, Covered(t)
  PROVE  Covered(t)'
<1> USE DEF Worker
<1>1. Grows /\ odd \in Histories
  BY OddGrows DEF Typed
<1>2. CASE t \in odd.touched \cup odd.skipped
  BY <1>1, <1>2 DEF Grows, Covered
<1>3. ASSUME NEW id \in DOMAIN sessions, sessions[id] = t PROVE Covered(t)'
  <2>1. CASE id \in DOMAIN sessions' /\ sessions'[id] = sessions[id]
    BY <1>3, <2>1 DEF Covered, Alive
  <2>2. CASE sessions' = sessions
    BY <1>3, <2>2 DEF Covered, Alive
  <2>3. CASE (\E c \in Chains : StartsTunnel(c)) \/ (\E u \in Tunnels : StartsLate(u))
    <3>1. PICK u \in Tunnels : NewSession(u)
      BY <2>3, Beginning
    <3>2. QED
      BY <1>3, <2>1, <3>1, NewSessionIs
  <2>4. ASSUME NEW i \in DOMAIN sessions, SessionFails(i) \/ Stop(i) PROVE Covered(t)'
    <3>1. /\ DOMAIN sessions' = DOMAIN sessions \ {i}
          /\ \A j \in DOMAIN sessions' : sessions'[j] = sessions[j]
          /\ odd' = [odd EXCEPT !.touched = @ \cup {sessions[i]}]
      BY <2>4, EndsDoes
    <3>2. sessions[i] \in odd'.touched
      BY <1>1, <3>1 DEF Histories
    <3>3. QED
      BY <1>3, <2>1, <3>1, <3>2 DEF Covered
  <2>5. CASE Ready
    BY <2>2, <2>5 DEF Ready
  <2>6. CASE Hears \/ Murmurs
    BY <2>2, <2>6, Hearing, MurmursDoes DEF Shifts
  <2>7. QED
    BY <2>2, <2>3, <2>4, <2>5, <2>6, NextIs, Calling
<1>4. QED
  BY <1>2, <1>3 DEF Covered, Alive

(* What the loop passes over runs, or is one of those it skipped.           *)
LEMMA PassedOver ==
  ASSUME NEW c, NEW i \in Nat, NEW n \in Nat, NEW o \in Histories, GoesOn(c, i, n, o),
         sessions' = sessions, NEW j \in i .. n - 1
  PROVE  Covered(Saved[j])'
<1> DEFINE more == {t \in {Saved[k] : k \in i .. n - 1} : ~Alive(t)}
<1>1. odd' = [o EXCEPT !.skipped = @ \cup more]
  BY DEF GoesOn
<1>2. Alive(Saved[j]) \/ Saved[j] \in more
  OBVIOUS
<1>3. Alive(Saved[j]) => Alive(Saved[j])'
  BY Constants DEF Alive
<1> HIDE DEF more
<1>4. odd'.skipped = o.skipped \cup more
  BY <1>1 DEF Histories
<1>5. QED
  BY <1>2, <1>3, <1>4 DEF Covered

\* The loop got to the n-th tunnel, or through.
GotTo(c, n) ==
    /\ \A j \in 1 .. Len(Saved) : j < n => Covered(Saved[j])'
    /\ n > Len(Saved) => loop' = 0
    /\ n <= Len(Saved) =>
          LET q == chain'[c] IN
          Loops(c)' /\ q.i = n /\ q.st = "sent" /\ q.life = life /\ loop' = life

LEMMA LoopCovers ==
  ASSUME Worker, OneLoop, Progress, [Next]_vars, NEW c \in Chains, Step(c), up = "up",
         \/ loop = 0 /\ c # User /\ \E n \in Nat : GoesOn(c, 1, n, odd)
         \/ loop = life /\ Started(c) /\ Loops(c)
  PROVE  \E n \in Nat : GotTo(c, n)
<1> USE DEF Worker
<1>1. UNCHANGED <<life, up, events, sessions>> /\ life \in Nat \ {0} /\ Len(Saved) \in Nat
  BY Calling, TypedSays, Constants
<1>2. ASSUME NEW i \in 1 .. Len(Saved) + 1, NEW n \in Nat, NEW o \in Histories,
             GoesOn(c, i, n, o), c # User, loop \in {0, life},
             \A j \in 1 .. i - 1 : Covered(Saved[j])'
      PROVE  GotTo(c, n)
  <2>1. ASSUME NEW j \in 1 .. Len(Saved), j < n PROVE Covered(Saved[j])'
    <3>1. CASE j < i
      BY <1>2, <3>1
    <3>2. CASE j >= i
      <4>1. i \in Nat /\ j \in i .. n - 1
        BY <1>1, <1>2, <2>1, <3>2
      <4>2. QED
        BY <1>1, <1>2, <4>1, PassedOver
    <3>3. QED
      BY <1>1, <3>1, <3>2
  <2>2. /\ n > Len(Saved) => loop' = 0
        /\ n <= Len(Saved) =>
               LET q == chain'[c] IN
               /\ q.pc = "start" /\ q.i = n /\ q.st = "sent" /\ q.life = life
               /\ loop' = IF loop = 0 THEN life ELSE loop
    BY <1>2, GoesOnDoes
  <2>3. QED
    BY <1>2, <2>1, <2>2 DEF GotTo, Loops
<1>3. CASE loop = 0 /\ c # User /\ \E n \in Nat : GoesOn(c, 1, n, odd)
  <2>1. 1 \in 1 .. Len(Saved) + 1 /\ odd \in Histories /\ 1 .. 1 - 1 = {}
    BY <1>1 DEF Typed
  <2>2. QED
    BY <1>2, <1>3, <2>1
<1>4. CASE loop = life /\ Started(c) /\ Loops(c)
  <2>1. /\ chain[c].i \in 1 .. Len(Saved) /\ chain[c].st \in {"ok", "failed"} /\ c # User
        /\ chain[c].i + 1 \in 1 .. Len(Saved) + 1 /\ (chain[c].i + 1) - 1 = chain[c].i
    BY <1>1, <1>4 DEF Loops, CallsOK, CallOK, Started, Arrived
  <2>2. /\ \A j \in 1 .. chain[c].i - 1 : Covered(Saved[j])
        /\ Covered(Saved[chain[c].i])
    BY <1>4, <2>1 DEF Progress, OneLoop
  <2>3. ~Crash /\ ~Respawn /\ ~Restart
    BY <1>1 DEF Crash, Respawn, Restart, Spawned
  <2>4. ASSUME NEW j \in 1 .. chain[c].i PROVE Covered(Saved[j])'
    <3>1. Covered(Saved[j])
      BY <2>1, <2>2
    <3>2. PICK t : t = Saved[j]
      OBVIOUS
    <3>3. Covered(t)'
      BY <2>3, <3>1, <3>2, CoveredKept
    <3>4. QED
      BY <3>2, <3>3 DEF Covered, Alive
  <2>5. PICK n \in Nat, o \in Histories : GoesOn(c, chain[c].i + 1, n, o)
    BY <1>4, <2>1, StartedDoes
  <2>6. QED
    BY <1>2, <1>4, <2>1, <2>4, <2>5
<1>5. QED
  BY <1>3, <1>4

(* The start of the loop ends with a session, or is excepted.               *)
LEMMA StartCovers ==
  ASSUME Worker, [Next]_vars, ~Crash, up = "up", NEW c \in Chains, Loops(c), chain[c].life = life,
         chain[c].st = "sent", chain'[c].st \in {"ok", "failed"}
  PROVE  Covered(Saved[chain[c].i])'
<1> USE DEF Worker
<1>1. /\ c # User /\ chain[c].pc = "start" /\ Target(chain[c]) = Saved[chain[c].i]
      /\ odd \in Histories /\ Asks(c) /\ Starts(c)
  BY DEF Loops, Target, Typed, Asks, Starts
<1>2. ASSUME Target(chain[c]) \in odd'.touched PROVE Covered(Saved[chain[c].i])'
  <2>1. chain'[c].i = chain[c].i
    <3>1. CASE Step(c)
      BY <3>1, Turning
    <3>2. CASE ~Step(c)
      BY <1>1, <3>2, LoopKept DEF LoopsOn
    <3>3. QED
      BY <3>1, <3>2
  <2>2. QED
    BY <1>1, <1>2, <2>1 DEF Covered
<1>3. CASE StartsTunnel(c)
  <2>1. NewSession(Target(chain[c])) /\ Target(chain[c]) \in Tunnels /\ chain'[c].i = chain[c].i
    BY <1>3, StartsTunnelDoes DEF Ending
  <2>2. sessions'[nextId] = Saved[chain[c].i] /\ nextId \in DOMAIN sessions'
    BY <1>1, <2>1, NewSessionIs
  <2>3. QED
    BY <2>1, <2>2 DEF Covered, Alive
<1>4. CASE StartFails(c)
  <2>1. odd'.touched = odd.touched \cup {Target(chain[c])}
    BY <1>1, <1>4 DEF StartFails, Histories
  <2>2. QED
    BY <1>2, <2>1
<1>5. CASE TimeOut(c)
  <2>1. odd'.touched = odd.touched \cup {Target(chain[c])}
    BY <1>1, <1>5 DEF TimeOut, Histories
  <2>2. QED
    BY <1>2, <2>1
<1>6. ASSUME NEW d \in Chains, Others(d) PROVE d = c
  BY <1>6 DEF Others
<1>7. ASSUME NEW d \in Chains, Answers(d) \/ StartsTunnel(d) \/ StartFails(d) \/ TimeOut(d)
      PROVE  d = c /\ ~Answers(c)
  <2>1. d = c
    BY <1>6, <1>7, Settling DEF Ending
  <2>2. QED
    BY <1>1, <2>1 DEF Answers
<1>8. ASSUME NEW d \in Chains, Step(d) PROVE FALSE
  BY <1>6, <1>8, Turning DEF Turns
<1>9. ~((\E i \in 1 .. Len(Saved) : StartSaved(i)) \/ (\E o \in offers : Reconnect(o)))
  BY <1>1, <1>6, UserTurns, ChainNames DEF Turns
<1>10. ASSUME Hears PROVE FALSE
  BY <1>10, Heard DEF Waits
<1>11. ~Restart
  BY <1>6, RestartDoes, ChainNames
<1>12. ~(\/ \E t \in Tunnels : StartsLate(t)
         \/ \E id \in DOMAIN sessions : SessionFails(id) \/ Stop(id)
         \/ Ready \/ Respawn \/ Murmurs \/ UNCHANGED vars)
  BY MurmursDoes DEF StartsLate, SessionFails, Stop, Ends, Ready, Respawn, vars
<1>13. QED
  BY <1>3, <1>4, <1>5, <1>7, <1>8, <1>9, <1>10, <1>11, <1>12, NextIs

LEMMA ProgressStep ==
  ASSUME Worker, OneLoop, Progress, [Next]_vars
  PROVE  Progress'
<1> USE DEF Worker
<1>1. life \in Nat \ {0} /\ loop \in 0 .. life /\ Len(Saved) \in Nat
  BY TypedSays, Constants DEF Typed
<1>2. CASE Respawn \/ Restart
  BY <1>1, <1>2 DEF Respawn, Restart, Spawned, Progress
<1>3. CASE Crash
  BY <1>3 DEF Crash, Progress
<1>4. CASE Ready
  BY <1>1, <1>4 DEF Ready, Progress
<1>5. CASE ~Ready /\ ~Crash /\ ~Respawn /\ ~Restart
  <2>1. life' = life /\ up' = up
    BY <1>5, SameWorker
  <2>2. ASSUME NEW c \in Chains, Step(c), loop' # loop, up # "up" PROVE loop' = 0
    <3>1. odd \in Histories /\ 1 \in 1 .. Len(Saved) + 1
      BY <1>1 DEF Typed
    <3>2. CASE \E n \in Nat : GoesOn(c, 1, n, odd)
      BY <2>2, <3>1, <3>2, GoesOnDoes
    <3>3. CASE Started(c) /\ Loops(c)
      <4>1. chain[c].i + 1 \in 1 .. Len(Saved) + 1
        BY <1>1, <3>3 DEF Loops, CallsOK, CallOK
      <4>2. \E n \in Nat, o \in Histories : GoesOn(c, chain[c].i + 1, n, o)
        BY <3>3, StartedDoes DEF Loops
      <4>3. QED
        BY <2>2, <4>1, <4>2, GoesOnDoes
    <3>4. QED
      BY <2>2, <3>2, <3>3, Looping
  <2>3. up' = "starting" => loop' < life'
    BY <1>1, <2>1, <2>2, MarkKept DEF Progress, Step
  <2>4. SUFFICES ASSUME up = "up", loop' = life
                 PROVE \E c \in Chains :
                          /\ Loops(c)' /\ chain'[c].life = life
                          /\ \A j \in 1 .. chain'[c].i - 1 : Covered(Saved[j])'
                          /\ chain'[c].st \in {"ok", "failed"} => Covered(Saved[chain[c].i])'
    BY <2>1, <2>3 DEF Progress
  <2>5. ASSUME NEW c \in Chains, NEW n \in Nat, GotTo(c, n)
        PROVE  /\ Loops(c)' /\ chain'[c].life = life
               /\ \A j \in 1 .. chain'[c].i - 1 : Covered(Saved[j])'
               /\ chain'[c].st \in {"ok", "failed"} => Covered(Saved[chain[c].i])'
    <3>1. n <= Len(Saved) /\ n \in Nat
      BY <1>1, <2>4, <2>5 DEF GotTo
    <3>2. Loops(c)' /\ chain'[c].life = life /\ chain'[c].i = n /\ chain'[c].st = "sent"
      BY <2>5, <3>1 DEF GotTo
    <3>3. \A j \in 1 .. n - 1 : Covered(Saved[j])'
      BY <1>1, <2>5, <3>1 DEF GotTo
    <3>4. QED
      BY <3>2, <3>3
  <2>6. ASSUME NEW t, Covered(t) PROVE Covered(t)'
    BY <1>5, <2>6, CoveredKept
  <2>7. ASSUME loop = life,
               NEW c \in Chains, Loops(c), chain[c].life = life,
               \A j \in 1 .. chain[c].i - 1 : Covered(Saved[j]),
               chain[c].st \in {"ok", "failed"} => Covered(Saved[chain[c].i]),
               Loops(c)', chain'[c].life = life, chain'[c].i = chain[c].i,
               chain'[c].st \in {"ok", "failed"} => chain'[c].st = chain[c].st \/ chain[c].st = "sent"
        PROVE  /\ \A j \in 1 .. chain'[c].i - 1 : Covered(Saved[j])'
               /\ chain'[c].st \in {"ok", "failed"} => Covered(Saved[chain[c].i])'
    <3>1. ASSUME NEW j \in 1 .. chain'[c].i - 1 PROVE Covered(Saved[j])'
      <4>1. PICK t : t = Saved[j]
        OBVIOUS
      <4>2. Covered(t)'
        BY <2>6, <2>7, <3>1, <4>1
      <4>3. QED
        BY <4>1, <4>2 DEF Covered, Alive
    <3>2. ASSUME chain'[c].st \in {"ok", "failed"}, chain[c].st # "sent"
          PROVE  Covered(Saved[chain[c].i])'
      <4>1. PICK t : t = Saved[chain[c].i]
        OBVIOUS
      <4>2. Covered(t)'
        BY <2>6, <2>7, <3>2, <4>1
      <4>3. QED
        BY <2>7, <4>1, <4>2 DEF Covered, Alive
    <3>3. QED
      BY <1>5, <2>4, <2>7, <3>1, <3>2, StartCovers
  <2>8. CASE loop = life /\ \A c \in Chains : Step(c) => ~Loops(c)
    <3>1. PICK c \in Chains :
             /\ Loops(c) /\ chain[c].life = life
             /\ \A j \in 1 .. chain[c].i - 1 : Covered(Saved[j])
             /\ chain[c].st \in {"ok", "failed"} => Covered(Saved[chain[c].i])
      BY <2>4, <2>8 DEF Progress
    <3>2. ~Step(c) /\ LoopsOn(c) /\ Loops(c)'
      BY <2>8, <3>1, LoopKept DEF Loops, LoopsOn
    <3>3. chain'[c].life = life /\ chain'[c].i = chain[c].i
      BY <3>1, <3>2 DEF LoopsOn
    <3>4. chain[c].st # "none"
      BY <3>1 DEF Loops, CallsOK, CallOK
    <3>5. chain[c].st \in {"ok", "failed"} => chain'[c].st = chain[c].st
      <4>1. SUFFICES ASSUME chain[c].st \in {"ok", "failed"} PROVE chain'[c].st = chain[c].st
        OBVIOUS
      <4>2. ASSUME NEW d \in Chains, Others(d), chain[d].st = "sent" \/ d = User \/ Step(d)
            PROVE  chain'[c].st = chain[c].st
        BY <3>1, <3>2, <4>1, <4>2 DEF Others, Loops
      <4>3. CASE \E d \in Chains : Answers(d) \/ StartFails(d) \/ TimeOut(d) \/ StartsTunnel(d)
        BY <4>2, <4>3, Settling DEF Ending
      <4>4. CASE \E d \in Chains : Step(d)
        BY <4>2, <4>4, Turning DEF Turns
      <4>5. CASE (\E i \in 1 .. Len(Saved) : StartSaved(i)) \/ (\E o \in offers : Reconnect(o))
        BY <4>2, <4>5, UserTurns, ChainNames DEF Turns
      <4>6. CASE Hears
        BY <3>2, <4>6, Heard DEF Waits, Loops
      <4>7. CASE \/ \E t \in Tunnels : StartsLate(t)
                 \/ \E id \in DOMAIN sessions : SessionFails(id) \/ Stop(id)
                 \/ Murmurs \/ UNCHANGED vars
        BY <4>7, MurmursDoes DEF StartsLate, SessionFails, Stop, Ends, vars
      <4>8. QED
        BY <1>5, <4>3, <4>4, <4>5, <4>6, <4>7, NextIs
    <3>6. chain[c].st \in {"none", "sent", "ok", "failed"}
      BY TypedSays, CallsAre
    <3>7. QED
      BY <2>7, <2>8, <3>1, <3>2, <3>3, <3>4, <3>5, <3>6
  <2>9. CASE \A c \in Chains : ~Step(c)
    <3>1. loop' = loop
      BY <2>9, MarkKept DEF Step
    <3>2. QED
      BY <2>4, <2>8, <2>9, <3>1
  <2>10. ASSUME NEW c \in Chains, Step(c)
         PROVE  (loop = life /\ ~Loops(c)) \/ \E n \in Nat : GotTo(c, n)
    <3>1. CASE loop' = loop /\ ~Loops(c)
      BY <2>4, <3>1
    <3>2. CASE loop = 0 /\ c # User /\ \E n \in Nat : GoesOn(c, 1, n, odd)
      BY <2>4, <2>10, <3>2, LoopCovers
    <3>3. CASE Started(c) /\ Loops(c)
      <4>1. CASE loop = life
        BY <2>4, <2>10, <3>3, <4>1, LoopCovers
      <4>2. CASE loop # life
        <5>1. loop # 0 /\ loop # life
          BY <3>3, <4>2 DEF OneLoop
        <5>2. chain[c].i + 1 \in 1 .. Len(Saved) + 1
          BY <1>1, <3>3 DEF Loops, CallsOK, CallOK
        <5>3. PICK n \in Nat, o \in Histories : GoesOn(c, chain[c].i + 1, n, o)
          BY <3>3, StartedDoes DEF Loops
        <5>4. loop' \in {0, loop}
          BY <1>1, <2>4, <5>1, <5>2, <5>3, GoesOnDoes
        <5>5. QED
          BY <1>1, <2>4, <5>1, <5>4
      <4>3. QED
        BY <4>1, <4>2
    <3>4. QED
      BY <2>10, <3>1, <3>2, <3>3, Looping
  <2>11. CASE \E c \in Chains, n \in Nat : GotTo(c, n)
    <3>1. PICK c \in Chains, n \in Nat : GotTo(c, n)
      BY <2>11
    <3>2. QED
      BY <2>5, <3>1
  <2>12. CASE \E c \in Chains : Step(c)
    BY <2>8, <2>10, <2>11, <2>12
  <2>13. QED
    BY <2>9, <2>12
<1>6. QED
  BY <1>2, <1>3, <1>4, <1>5

(* What does not begin with the loop leaves the saved tunnels as read.      *)
LEMMA LoadedKept ==
  ASSUME Typed, [Next]_vars, up = "up", \A c \in Chains : ~Limited(c)
  PROVE  loaded' = loaded
<1>1. ASSUME NEW c \in Chains,
             Answers(c) \/ StartsTunnel(c) \/ StartFails(c) \/ TimeOut(c) \/ Step(c)
      PROVE  loaded' = loaded
  <2>1. CASE Answers(c) \/ StartsTunnel(c) \/ StartFails(c) \/ TimeOut(c)
    BY <2>1 DEF Answers, StartsTunnel, StartFails, TimeOut, status
  <2>2. CASE Listed(c)
    BY <2>2 DEF Listed, Typed
  <2>3. CASE WaitEnds(c) \/ GivesUp(c) \/ Pinged(c)
    BY <2>3 DEF WaitEnds, GivesUp, Pinged
  <2>4. CASE Started(c) \/ Reconnected(c)
    BY <2>4 DEF Started, Reconnected, status
  <2>5. QED
    BY <1>1, <2>1, <2>2, <2>3, <2>4 DEF Step
<1>2. CASE (\E i \in 1 .. Len(Saved) : StartSaved(i)) \/ (\E o \in offers : Reconnect(o))
  BY <1>2 DEF StartSaved, Reconnect, status
<1>3. CASE \/ \E t \in Tunnels : StartsLate(t)
           \/ \E id \in DOMAIN sessions : SessionFails(id) \/ Stop(id)
           \/ Ready \/ Crash \/ Respawn \/ Restart \/ Murmurs
  BY <1>3, MurmursDoes DEF StartsLate, SessionFails, Stop, Ends, Ready, Crash, Respawn, Restart, Spawned, status
<1>4. CASE OnReady \/ OnExit \/ OnUpdate \/ OnState \/ OnError \/ OnStopped
  BY <1>4 DEF OnReady, OnExit, OnUpdate, OnState, OnError, OnStopped, status
<1>5. CASE UNCHANGED vars
  BY <1>5 DEF vars, status
<1>6. QED
  BY <1>1, <1>2, <1>3, <1>4, <1>5 DEF Next, Murmurs

(* The chain of the ready event syncs the worker, or has done so.           *)
LEMMA SyncsOn ==
  ASSUME Typed, CallsOK, [Next]_vars, life' = life, up = "up", up' = up, ~odd'.gaveUp,
         NEW c \in Chains \ {Boot, Button, User}, Syncs(chain[c]), ~Limited(c)
  PROVE  Syncs(chain[c])'
<1>1. chain[c].pc \in {"ping", "list", "limit"} /\ chain[c].life = life /\ c \in Chains /\ c # User
      /\ odd \in Histories
  BY DEF Syncs, Typed
<1>2. ASSUME NEW d \in Chains, Others(d), d # c PROVE Syncs(chain[c])'
  BY <1>2 DEF Others, Syncs
<1>3. ASSUME NEW d \in Chains, Answers(d) \/ StartsTunnel(d) \/ StartFails(d) \/ TimeOut(d)
      PROVE  Syncs(chain[c])'
  <2>1. CASE d # c
    BY <1>2, <1>3, <2>1, Settling DEF Ending
  <2>2. CASE d = c /\ Answers(c)
    BY <1>1, <2>2, AnswersDoes DEF Ending, Syncs
  <2>3. CASE d = c /\ (StartsTunnel(c) \/ StartFails(c))
    BY <1>1, <2>3 DEF StartsTunnel, StartFails, Starts
  <2>4. CASE d = c /\ TimeOut(c)
    <3>1. /\ chain'[c].pc = chain[c].pc /\ chain'[c].life = chain[c].life
          /\ chain[c].st = "sent"
      BY <2>4, TypedSays, TimeOutDoes
    <3>2. CASE chain[c].pc = "limit"
      BY <1>1, <3>1, <3>2 DEF Syncs
    <3>3. CASE chain[c].pc # "limit"
      <4>1. Asks(c) /\ chain[c].pc \in {"ping", "list"}
        BY <1>1, <3>1, <3>3 DEF Asks
      <4>2. odd'.gaveUp = (odd.gaveUp \/ chain[c].pc \in {"ping", "list"})
        BY <1>1, <2>4, <4>1 DEF TimeOut, Histories
      <4>3. QED
        BY <4>1, <4>2
    <3>4. QED
      BY <3>2, <3>3
  <2>5. QED
    BY <1>3, <2>1, <2>2, <2>3, <2>4
<1>4. ASSUME NEW d \in Chains, Step(d) PROVE Syncs(chain[c])'
  <2>1. CASE d # c
    BY <1>2, <1>4, <2>1, Turning DEF Turns
  <2>2. CASE d = c
    <3>1. Pinged(c) \/ Listed(c)
      BY <1>1, <1>4, <2>2 DEF Step, WaitEnds, GivesUp, Started, Reconnected, Arrived, Syncs
    <3>2. PICK pc \in {"list", "limit"} : chain' = [chain EXCEPT ![c] = Ask(chain[c], pc, 0)]
      BY <3>1 DEF Pinged, Listed, Goto
    <3>3. pc \in Steps /\ 0 \in Nat
      BY DEF Steps
    <3>4. LET q == chain'[c] IN q.pc = pc /\ q.st = "sent" /\ q.life = life
      BY <3>2, <3>3, AskDoes, ZenonT(30)
    <3>5. QED
      BY <3>4 DEF Syncs
  <2>3. QED
    BY <2>1, <2>2
<1>5. CASE (\E i \in 1 .. Len(Saved) : StartSaved(i)) \/ (\E o \in offers : Reconnect(o))
  BY <1>1, <1>2, <1>5, UserTurns, ChainNames DEF Turns
<1>6. CASE \/ \E t \in Tunnels : StartsLate(t)
           \/ \E id \in DOMAIN sessions : SessionFails(id) \/ Stop(id)
           \/ Ready \/ Murmurs \/ UNCHANGED vars
  BY <1>6, MurmursDoes DEF StartsLate, SessionFails, Stop, Ends, Ready, vars, Syncs
<1>7. CASE Hears
  BY <1>1, <1>7, Heard DEF Waits, Syncs
<1>8. ~Crash /\ ~Respawn /\ ~Restart
  BY <1>1, TypedSays DEF Crash, Respawn, Restart, Spawned
<1>9. QED
  BY <1>3, <1>4, <1>5, <1>6, <1>7, <1>8, NextIs

(* The ready event comes on, or has begun the chain that syncs.             *)
LEMMA ReadyComesOn ==
  ASSUME Worker, [Next]_vars, up = "up", up' = up, ReadyComes
  PROVE  ReadyComes' \/ Syncs(chain[<<"ready", life>>])'
<1> USE DEF Worker
<1>1. PICK k \in DOMAIN events : events[k].ev = "ready"
  BY DEF ReadyComes
<1>2. CASE ~Hears
  <2>1. k \in DOMAIN events' /\ events'[k] = events[k]
    <3>1. ~Crash
      BY DEF Crash
    <3>2. QED
      BY <1>2, <3>1, Extending DEF Extends
  <2>2. QED
    BY <1>1, <2>1 DEF ReadyComes
<1>3. CASE Hears /\ k # 1
  <2>1. k - 1 \in DOMAIN events' /\ events'[k - 1] = events[k]
    BY <1>3, Hearing DEF Shifts
  <2>2. QED
    BY <1>1, <2>1 DEF ReadyComes
<1>4. CASE Hears /\ k = 1
  <2>1. e = events[1] /\ life' = life
    BY <1>4, Hearing DEF Shifts
  <2>2. OnReady /\ e.life = life
    BY <1>1, <1>4, <2>1, Hearing DEF EventsOK, EventOK
  <2>3. LET q == chain'[<<"ready", life>>] IN q.pc = "ping" /\ q.st = "sent" /\ q.life = life
    BY <2>2, OnReadyDoes
  <2>4. QED
    BY <2>1, <2>3 DEF Syncs
<1>5. QED
  BY <1>2, <1>3, <1>4

LEMMA SyncedStep ==
  ASSUME Worker, OneLoop, Progress, Synced, [Next]_vars
  PROVE  Synced'
<1> USE DEF Worker
<1> DEFINE R == <<"ready", life>>
           Goal == \/ ReadyComes' \/ Syncs(chain[<<"ready", life>>])'
                   \/ loop' = life' \/ \A t \in Tunnels : Covered(t)'
<1>1. SUFFICES ASSUME up' = "up", loaded', ~odd'.heldOff, ~odd'.gaveUp PROVE Goal
  BY DEF Synced
<1>2. CASE Ready
  <2>1. Writes(Written("ready", 0, 0))
    BY <1>2, ReadyDoes
  <2>2. Len(events') \in DOMAIN events' /\ events'[Len(events')].ev = "ready"
    BY <2>1 DEF Writes, Written
  <2>3. QED
    BY <2>2 DEF ReadyComes
<1>3. CASE Crash \/ Respawn \/ Restart
  BY <1>1, <1>3 DEF Crash, Respawn, Restart, Spawned
<1>4. CASE ~Ready /\ ~Crash /\ ~Respawn /\ ~Restart
  <2>1. life' = life /\ up' = up /\ up = "up" /\ ~odd.heldOff /\ ~odd.gaveUp /\ odd \in Histories
    BY <1>1, <1>4, SameWorker, OddGrows DEF Grows, Typed
  <2>2. R \in Chains \ {Boot, Button, User} /\ life \in Nat \ {0} /\ Len(Saved) \in Nat
    BY TypedSays, ChainNames, Constants
  <2>3. ASSUME NEW c \in Chains, NEW n \in Nat, GotTo(c, n) PROVE Goal
    <3>1. CASE n <= Len(Saved)
      BY <2>1, <2>3, <3>1 DEF GotTo
    <3>2. CASE n > Len(Saved)
      <4>1. ASSUME NEW t \in Tunnels PROVE Covered(t)'
        <5>1. PICK i \in 1 .. Len(Saved) : t = Saved[i]
          BY Constants
        <5>2. Covered(Saved[i])'
          BY <2>2, <2>3, <3>2 DEF GotTo
        <5>3. QED
          BY <5>1, <5>2 DEF Covered, Alive
      <4>2. QED
        BY <4>1
    <3>3. QED
      BY <2>2, <3>1, <3>2
  <2>4. ASSUME NEW t, Covered(t) PROVE Covered(t)'
    BY <1>4, <2>4, CoveredKept
  <2>5. ASSUME loaded, loop = life => loop' = life, ~Limited(R) PROVE Goal
    <3>1. CASE ReadyComes
      BY <2>1, <3>1, ReadyComesOn
    <3>2. CASE Syncs(chain[R])
      BY <1>1, <2>1, <2>2, <2>5, <3>2, SyncsOn
    <3>3. CASE loop = life
      BY <2>1, <2>5, <3>3
    <3>4. CASE \A t \in Tunnels : Covered(t)
      BY <2>4, <3>4
    <3>5. QED
      BY <2>1, <2>5, <3>1, <3>2, <3>3, <3>4 DEF Synced
  <2>6. ASSUME NEW c \in Chains, Limited(c) PROVE Goal
    <3>1. Step(c) /\ c # User
      BY <2>6 DEF Step, Limited, Arrived, CallsOK
    <3>2. CASE loop = 0 /\ \E n \in Nat : GoesOn(c, 1, n, odd)
      BY <2>1, <2>3, <3>1, <3>2, LoopCovers
    <3>3. CASE loop # 0 /\ loop' = loop /\ odd' = [odd EXCEPT !.heldOff = @ \/ loop # life]
      <4>1. odd'.heldOff = (odd.heldOff \/ loop # life)
        BY <2>1, <3>3 DEF Histories
      <4>2. QED
        BY <1>1, <2>1, <3>3, <4>1
    <3>4. QED
      BY <1>1, <2>6, <3>2, <3>3, LimitedDoes
  <2>7. ASSUME NEW c \in Chains, Step(c), \A d \in Chains : ~Limited(d) PROVE Goal
    <3>1. loaded
      BY <1>1, <2>1, <2>7, LoadedKept
    <3>2. CASE loop' = loop
      BY <2>2, <2>5, <2>7, <3>1, <3>2
    <3>3. CASE Started(c) /\ Loops(c) /\ loop = life
      BY <2>1, <2>3, <2>7, <3>3, LoopCovers
    <3>4. CASE loop # life
      BY <2>2, <2>5, <2>7, <3>1, <3>4
    <3>5. QED
      BY <2>7, <3>2, <3>3, <3>4, Looping
  <2>8. CASE \A c \in Chains : ~Step(c)
    <3>1. \A c \in Chains : ~Limited(c) /\ ~Started(c)
      BY <2>8 DEF Step
    <3>2. loaded /\ loop' = loop
      BY <1>1, <2>1, <3>1, LoadedKept, MarkKept
    <3>3. QED
      BY <2>2, <2>5, <3>1, <3>2
  <2>9. QED
    BY <2>6, <2>7, <2>8
<1>5. QED
  BY <1>2, <1>3, <1>4

-----------------------------------------------------------------------------
(* The invariant.                                                           *)

Sound == Worker /\ Cap /\ Cards /\ Announced /\ OneLoop /\ Copies /\ Progress /\ Synced
         /\ ReplayKept /\ OffersKept

LEMMA SoundInit ==
  ASSUME Init
  PROVE  Sound
<1>1. Worker
  BY WorkerInit
<1>2. /\ life = 1 /\ up \in {"starting", "up"} /\ sessions = <<>> /\ late = {} /\ events = <<>>
      /\ loaded = FALSE /\ cards = <<>> /\ blank = {} /\ replay = <<>> /\ errored = {} /\ offers = {}
      /\ loop = 0
  BY DEF Init
<1>3. /\ DOMAIN sessions = {} /\ DOMAIN events = {} /\ DOMAIN cards = {} /\ DOMAIN replay = {}
      /\ Len(events) = 0
  BY <1>2, EmptyMap
<1>4. \A c \in Chains : chain[c].pc \in {"idle", "wait"} /\ chain[c].st = "none"
  <2> DEFINE w == [Idle EXCEPT !.pc = "wait"]
             q == [w EXCEPT !.born = 1]
  <2>1. Idle \in Calls
    BY IdleIs
  <2>2. chain = [c \in Chains |-> IF c = Boot THEN q ELSE Idle]
    <3> DEFINE a == [c \in Chains |-> Idle]
               b == [a EXCEPT ![Boot].pc = "wait"]
    <3>1. chain = [b EXCEPT ![Boot].born = 1]
      BY DEF Init
    <3>2. b = [c \in Chains |-> IF c = Boot THEN w ELSE Idle]
      BY ChainNames
    <3> HIDE DEF b, w
    <3>3. QED
      BY <3>1, <3>2, ChainNames
  <2>3. q.pc = "wait" /\ q.st = "none"
    BY <2>1, IdleIs DEF Calls
  <2> HIDE DEF q
  <2>4. QED
    BY <2>2, <2>3, IdleIs
<1>5. Cap
  BY <1>3, <1>4 DEF Cap, CapFirst, CapReady
<1>6. Cards /\ Announced
  BY <1>2, <1>3, <1>4 DEF Cards, Announced
<1>7. OneLoop /\ Progress /\ Synced
  BY <1>2, <1>4 DEF OneLoop, Loops, Progress, Synced
<1>8. Copies
  BY <1>2, <1>3, <1>4, ChainNames DEF Copies
<1>9. ReplayKept /\ OffersKept
  BY <1>2, <1>3 DEF ReplayKept, OffersKept
<1>10. QED
  BY <1>1, <1>5, <1>6, <1>7, <1>8, <1>9 DEF Sound

LEMMA Inductive == Spec => []Sound
<1>1. Init => Sound
  BY SoundInit
<1>2. Sound /\ [Next]_vars => Sound'
  <2>1. SUFFICES ASSUME Sound, [Next]_vars PROVE Sound'
    OBVIOUS
  <2>2. Worker'
    BY <2>1, WorkerStep DEF Sound
  <2>3. Cap' /\ Cards' /\ Announced' /\ OneLoop'
    BY <2>1, CapStep, CardsStep, AnnouncedStep, LoopStep DEF Sound
  <2>4. Copies' /\ Progress' /\ Synced'
    BY <2>1, CopiesStep, ProgressStep, SyncedStep DEF Sound
  <2>5. ReplayKept' /\ OffersKept'
    BY <2>1, <2>2, ReplayStep, OffersStep DEF Sound
  <2>6. QED
    BY <2>2, <2>3, <2>4, <2>5 DEF Sound
<1>3. QED
  BY <1>1, <1>2, PTL DEF Spec

-----------------------------------------------------------------------------
(* The theorems.                                                            *)

(* The state of the renderer, of its calls and of the worker is of its      *)
(* types: a call is out exactly when its function waits for it, and with no *)
(* worker that is yet to come.                                              *)
THEOREM RendererTypes == Spec => []TypeOK
<1>1. Sound => TypeOK
  <2>1. SUFFICES ASSUME Sound PROVE TypeOK
    OBVIOUS
  <2>2. Typed /\ CallsOK
    BY <2>1 DEF Sound, Worker
  <2>3. Range(sessions) \cup Range(cards) \cup Range(replay) \cup late \subseteq Tunnels
    BY <2>2, TypedSays, MapHas DEF Range, Typed
  <2>4. DOMAIN sessions \subseteq 1 .. nextId - 1
    BY <2>2, TypedSays, MapHas DEF Typed
  <2>5. ASSUME NEW c \in Chains
        PROVE  /\ chain[c].pc \in {"idle", "wait", "ping", "list", "limit", "start", "reconnect"}
               /\ chain[c].st \in {"none", "sent", "ok", "failed"} /\ chain[c].after \in Nat
               /\ chain[c].st = "none" <=> chain[c].pc \in {"idle", "wait"}
               /\ {chain[c].life, chain[c].born} \subseteq 0 .. life
    <3>1. chain[c] \in Calls /\ CallOK(chain[c]) /\ life \in Nat
      BY <2>2, TypedSays DEF CallsOK
    <3>2. QED
      BY <3>1 DEF Calls, Steps, CallOK
  <2>6. QED
    BY <2>2, <2>3, <2>4, <2>5 DEF TypeOK, Typed
<1>2. QED
  BY <1>1, Inductive, PTL

(* Of a saved tunnel whose session can be told, which nobody else started   *)
(* and whose start did not fail, there never is a second session, however   *)
(* the boot, the ready handshakes and the restart button interleave.        *)
THEOREM NeverSecondCopy == Spec => []NoSecondCopy
<1>1. Sound => NoSecondCopy
  <2>1. SUFFICES ASSUME Sound, NEW t \in Recognised \ odd.touched
                 PROVE  Cardinality({id \in DOMAIN sessions : sessions[id] = t}) <= 1
    BY DEF NoSecondCopy
  <2> DEFINE S == {id \in DOMAIN sessions : sessions[id] = t}
  <2>2. \A a, b \in S : a = b
    BY <2>1 DEF Sound, Copies, Quietly
  <2> HIDE DEF S
  <2>3. CASE S = {}
    BY <2>3, FS_EmptySet DEF S
  <2>4. CASE S # {}
    <3>1. PICK a \in S : S = {a}
      BY <2>2, <2>4
    <3>2. Cardinality(S) = 1
      BY <3>1, FS_Singleton
    <3>3. QED
      BY <3>2 DEF S
  <2>5. QED
    BY <2>3, <2>4
<1>2. QED
  BY <1>1, Inductive, PTL

(* A worker that has a session has its total limit back, or it could not be *)
(* set, or a button or a function that began with an earlier worker started *)
(* one in it.                                                               *)
THEOREM CapComesFirst == Spec => []CapFirst
<1>1. Sound => CapFirst
  BY DEF Sound, Cap
<1>2. QED
  BY <1>1, Inductive, PTL

(* When nothing is under way the cards are those of the sessions, however   *)
(* the exit of a worker falls among the lines it wrote and whenever a pause *)
(* ends; but for the cards that a manual restart left, or that were drawn   *)
(* for a session that was gone already.                                     *)
THEOREM CardsAreSessions == Spec => []CardsTrue
<1>1. Sound => CardsTrue
  <2>1. SUFFICES ASSUME Sound, Quiet,
                        NEW id \in (DOMAIN cards \cup blank \cup DOMAIN sessions) \ odd.stale
                 PROVE  id \in DOMAIN cards \cap DOMAIN sessions /\ cards[id] = sessions[id]
    BY DEF CardsTrue
  <2>2. DOMAIN events = {} /\ Len(events) = 0
    BY <2>1, EmptyMap DEF Quiet
  <2>3. id \in DOMAIN sessions
    BY <2>1, <2>2 DEF Sound, Cards, Pending, Exits
  <2>4. Drawn(id)
    BY <2>1, <2>2, <2>3 DEF Sound, Cards, Comes
  <2>5. QED
    BY <2>3, <2>4 DEF Drawn
<1>2. QED
  BY <1>1, Inductive, PTL

(* When nothing is under way every saved tunnel runs, after any crashes and *)
(* restarts, but for the exceptions.                                        *)
THEOREM TunnelsComeBack == Spec => []BackWhenQuiet
<1>1. Sound => BackWhenQuiet
  <2>1. SUFFICES ASSUME Sound, Quiet, loaded, ~odd.heldOff, ~odd.gaveUp,
                        NEW t \in Tunnels \ (odd.touched \cup odd.skipped)
                 PROVE  Alive(t)
    BY DEF BackWhenQuiet
  <2>2. DOMAIN events = {} /\ up = "up" /\ \A c \in Chains : chain[c].pc = "idle"
    BY <2>1, EmptyMap DEF Quiet
  <2>3. ~ReadyComes
    BY <2>2 DEF ReadyComes
  <2>4. ~Syncs(chain[<<"ready", life>>])
    <3>1. life \in Lives
      BY <2>1 DEF Sound, Worker, Typed
    <3>2. QED
      BY <2>2, <3>1, ChainNames DEF Syncs
  <2>5. loop # life
    BY <2>1, <2>2 DEF Sound, Progress, Loops
  <2>6. Covered(t)
    BY <2>1, <2>2, <2>3, <2>4, <2>5 DEF Sound, Synced
  <2>7. QED
    BY <2>1, <2>6 DEF Covered
<1>2. QED
  BY <1>1, Inductive, PTL

(* While the worker lives, the Reconnect button of a session has what it    *)
(* needs to start its tunnel, and starts no other, until it is answered.    *)
THEOREM OffersWork == Spec => []OfferHolds
<1>1. Sound => OfferHolds
  <2>1. SUFFICES ASSUME Sound, NEW o \in offers, o.life = life, up # "down",
                        o.id \notin odd.orphans \cup odd.used
                 PROVE  o.id \in DOMAIN replay /\ replay[o.id] = o.t
    BY DEF OfferHolds
  <2>2. Typed /\ OneTunnelPerId
    BY <2>1 DEF Sound, Worker
  <2>3. o.id \in Nat /\ o.t \in Tunnels
    BY <2>2 DEF Typed
  <2>4. o.id \in DOMAIN replay
    BY <2>1 DEF Sound, OffersKept
  <2>5. replay[o.id] \in Tunnels
    BY <2>2, <2>4, TypedSays, MapHas
  <2>6. Says(o.id, o.t) /\ Says(o.id, replay[o.id])
    BY <2>1, <2>4 DEF Says, Shows, Keeps
  <2>7. QED
    BY <2>2, <2>3, <2>4, <2>5, <2>6 DEF OneTunnelPerId
<1>2. QED
  BY <1>1, Inductive, PTL

(* When nothing is under way no parameters are kept of a session that is    *)
(* gone, but for those a button offers, and for the orphans.                *)
THEOREM ReplayStaysSmall == Spec => []ReplayBounded
<1>1. Sound => ReplayBounded
  <2>1. SUFFICES ASSUME Sound, Quiet, NEW id \in DOMAIN replay
                 PROVE  id \in DOMAIN cards \cup {o.id : o \in offers} \cup odd.orphans
    BY DEF ReplayBounded
  <2>2. DOMAIN events = {}
    BY <2>1, EmptyMap DEF Quiet
  <2>3. QED
    BY <2>1, <2>2 DEF Sound, ReplayKept, Offered, Pending
<1>2. QED
  BY <1>1, Inductive, PTL
=============================================================================
