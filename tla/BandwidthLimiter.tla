-------------------------- MODULE BandwidthLimiter --------------------------
(***************************************************************************)
(* The bandwidth caps of the worker: one token bucket per session and one  *)
(* shared by all of them (worker/limiter.js), charged where bytes enter    *)
(* and leave the streams of a session (wrapStream of worker/stats.js).     *)
(*                                                                         *)
(* A write the budget does not cover is queued and the ticker of the       *)
(* session drains the queue; a read it does not cover is forwarded and its *)
(* stream paused until the next tick.  Every action is one synchronous     *)
(* JavaScript callback.  The bytes written to a stream are numbered, so    *)
(* that their order on the wire can be told.  A unit stands for any fixed  *)
(* number of bytes, so a tick refills a bucket by one unit at least.       *)
(***************************************************************************)
EXTENDS Naturals, Sequences, FiniteSets

CONSTANTS
    Sessions,
    Streams,       \* the wrapped streams
    SessionOf,     \* the session of each stream
    OwnLimit,      \* entry.limit of each session, 0 for none
    GlobalLimits,  \* the values limit:global is called with, 0 to clear it
    MaxQueue,      \* MAX_QUEUE_BYTES
    MaxChunk,      \* the largest chunk a stream delivers or is given
    MaxBytes       \* how much is written to a stream (a bound)

ASSUME LimiterAssumption ==
    /\ SessionOf \in [Streams -> Sessions]
    /\ OwnLimit \in [Sessions -> Nat]
    /\ GlobalLimits \subseteq Nat
    /\ {MaxQueue, MaxChunk, MaxBytes} \subseteq Nat \ {0}
    /\ IsFiniteSet(Streams)

VARIABLES
    where,       \* "new", "listed" in the Map, "stopping" (listed, but its
                 \* stop awaits the engine), "dropped" by an error or "closed"
    tokens,      \* _lim.tokens of each session
    ticking,     \* the sessions whose _lim.timer is set
    queue,       \* _lim.queue, byte by byte
    overflowed,  \* the sessions with _lim.overflowed
    paused,      \* _lim.paused of all sessions
    pendingEnds, \* the streams whose end is held in _lim.pendingEnds
    gLimit,      \* global.limit
    gTokens,     \* global.tokens
    written,     \* the bytes each stream was given
    sent,        \* those that reached the stream's own write
    blocked,     \* the streams whose write returned false, up to their 'drain'
    ended,       \* the streams whose own end was called
    closed,      \* the streams that emitted 'close'
    moved,       \* history: the bytes a capped session moved since its last tick
    crashed      \* an error found no session to blame, and the worker exits

vars == <<where, tokens, ticking, queue, overflowed, paused, pendingEnds, gLimit,
          gTokens, written, sent, blocked, ended, closed, moved, crashed>>

\* All a tick, a read or a write leaves alone.
outside == <<where, overflowed, gLimit, closed, crashed>>

Least(a, b) == IF a < b THEN a ELSE b

StreamsOf(s) == {t \in Streams : SessionOf[t] = s}

InMap(s) == where[s] \in {"listed", "stopping"}

\* The tick of s can come.
Due(s) == ~crashed /\ s \in ticking

\* Not closed, and its session has not been closed either.
Usable(t) ==
    /\ ~crashed /\ t \notin closed
    /\ where[SessionOf[t]] \in {"listed", "stopping", "dropped"}

-----------------------------------------------------------------------------
(* Budgets                                                                 *)

Capped(s) == OwnLimit[s] > 0 \/ gLimit > 0

\* limitTokens of a capped session whose own bucket holds own.
Budget(s, own) ==
    IF OwnLimit[s] = 0 THEN gTokens
    ELSE IF gLimit = 0 THEN own
    ELSE Least(own, gTokens)

\* chargeTokens, for n bytes out of a bucket that holds own.
Charge(s, own, n) ==
    /\ tokens' = [tokens EXCEPT ![s] = IF OwnLimit[s] > 0 THEN own - n ELSE @]
    /\ gTokens' = IF gLimit > 0 THEN gTokens - n ELSE gTokens

Count(s, n) ==
    moved' = [moved EXCEPT ![s] =
        IF OwnLimit[s] > 0 /\ where[s] = "listed" THEN @ + n ELSE @]

-----------------------------------------------------------------------------
(* Streams                                                                 *)

Bytes(q) == {q[i] : i \in 1 .. Len(q)}

\* The streams that have a byte in q.
Waiting(q) == {b[1] : b \in Bytes(q)}

\* The bytes of the set B reach the wire.
Send(B) == sent' = [t \in Streams |-> sent[t] \cup {b[2] : b \in {c \in B : c[1] = t}}]

\* The next n bytes written to stream t.
NextBytes(t, n) == [i \in 1 .. n |-> <<t, written[t] + i>>]

Give(t, n) ==
    /\ Usable(t) /\ t \notin ended \cup pendingEnds
    /\ n \in 1 .. Least(MaxChunk, MaxBytes - written[t])
    /\ written' = [written EXCEPT ![t] = @ + n]

\* No cap, or both buckets have the budget.
WriteThrough(t, n) ==
    LET s == SessionOf[t] IN
    /\ Give(t, n)
    /\ IF Capped(s)
       THEN /\ s \notin overflowed /\ n <= Budget(s, tokens[s])
            /\ Charge(s, tokens[s], n)
       ELSE UNCHANGED <<tokens, gTokens>>
    /\ Send(Bytes(NextBytes(t, n)))
    /\ Count(s, n)
    /\ UNCHANGED <<outside, ticking, queue, paused, pendingEnds, blocked, ended>>

\* A capped write that exceeds the budget.
Excess(t, n) ==
    LET s == SessionOf[t] IN
    /\ Give(t, n)
    /\ Capped(s) /\ s \notin overflowed /\ n > Budget(s, tokens[s])

WriteQueued(t, n) ==
    LET s == SessionOf[t] IN
    /\ Excess(t, n) /\ Len(queue[s]) + n <= MaxQueue
    /\ queue' = [queue EXCEPT ![s] = @ \o NextBytes(t, n)]
    /\ blocked' = blocked \cup {t}
    /\ UNCHANGED <<outside, tokens, ticking, paused, pendingEnds, gTokens, sent,
                   ended, moved>>

\* stopLimitTicker: the bytes of q go out, then the ends that waited for them,
\* and the paused streams resume.
Flush(s, q) ==
    /\ ticking' = ticking \ {s}
    /\ queue' = [queue EXCEPT ![s] = <<>>]
    /\ Send(Bytes(q))
    /\ blocked' = blocked \ Waiting(q)
    /\ ended' = ended \cup (pendingEnds \cap StreamsOf(s))
    /\ pendingEnds' = pendingEnds \ StreamsOf(s)
    /\ paused' = paused \ StreamsOf(s)

\* The queue is given up, and the error stops the session that is named in it;
\* when that has left the Map, nothing is to blame and the worker exits.
WriteOverflows(t, n) ==
    LET s == SessionOf[t] IN
    /\ Excess(t, n) /\ Len(queue[s]) + n > MaxQueue
    /\ overflowed' = overflowed \cup {s}
    /\ IF InMap(s)
       THEN /\ where' = [where EXCEPT ![s] = "dropped"]
            /\ Flush(s, <<>>)
            /\ UNCHANGED crashed
       ELSE /\ crashed' = TRUE
            /\ queue' = [queue EXCEPT ![s] = <<>>]
            /\ UNCHANGED <<where, ticking, paused, pendingEnds, sent, blocked, ended>>
    /\ UNCHANGED <<tokens, gLimit, gTokens, closed, moved>>

WriteDiscarded(t, n) ==
    LET s == SessionOf[t] IN
    /\ Give(t, n) /\ Capped(s) /\ s \in overflowed
    /\ UNCHANGED <<outside, tokens, ticking, queue, paused, pendingEnds, gTokens,
                   sent, blocked, ended, moved>>

\* Mutant of ReadExceeds: the stream is not paused.
ReadUnpaused(t, n) ==
    LET s == SessionOf[t] IN
    /\ Usable(t) /\ t \notin paused /\ Capped(s) /\ n > Budget(s, tokens[s])
    /\ Count(s, n)
    /\ UNCHANGED <<outside, tokens, ticking, queue, pendingEnds, gTokens, paused,
                   written, sent, blocked, ended>>

\* A chunk is read and forwarded: the budget is charged, or the stream paused.
ReadFits(t, n) ==
    LET s == SessionOf[t] IN
    /\ Usable(t) /\ t \notin paused /\ Capped(s) /\ n <= Budget(s, tokens[s])
    /\ Charge(s, tokens[s], n)
    /\ Count(s, n)
    /\ UNCHANGED <<outside, ticking, queue, paused, pendingEnds, written, sent,
                   blocked, ended>>

ReadExceeds(t, n) ==
    LET s == SessionOf[t] IN
    /\ Usable(t) /\ t \notin paused /\ Capped(s) /\ n > Budget(s, tokens[s])
    /\ paused' = paused \cup {t}
    /\ Count(s, n)
    /\ UNCHANGED <<outside, tokens, ticking, queue, pendingEnds, gTokens,
                   written, sent, blocked, ended>>

\* Mutant of End: the queue is not looked at.
EndAtOnce(t) ==
    /\ Usable(t) /\ t \notin ended \cup pendingEnds
    /\ ended' = ended \cup {t}
    /\ UNCHANGED <<outside, tokens, ticking, queue, paused, gTokens, written, sent,
                   blocked, pendingEnds, moved>>

\* An end waits for the queue of the session, unless that was given up.
End(t) ==
    LET s == SessionOf[t] IN
    /\ Usable(t) /\ t \notin ended \cup pendingEnds
    /\ IF s \notin overflowed /\ queue[s] # <<>>
       THEN pendingEnds' = pendingEnds \cup {t} /\ UNCHANGED ended
       ELSE ended' = ended \cup {t} /\ UNCHANGED pendingEnds
    /\ UNCHANGED <<outside, tokens, ticking, queue, paused, gTokens, written, sent,
                   blocked, moved>>

CloseStream(t) ==
    /\ Usable(t)
    /\ closed' = closed \cup {t}
    /\ paused' = paused \ {t}
    /\ UNCHANGED <<where, tokens, ticking, queue, overflowed, pendingEnds, gLimit,
                   gTokens, written, sent, blocked, ended, moved, crashed>>

-----------------------------------------------------------------------------
(* Tickers                                                                 *)

\* What the own bucket holds after r units of budget came in.
Refilled(s, r) == Least(OwnLimit[s], tokens[s] + r)

\* Mutant of Drained: nothing goes out unless all does.
DrainedWhole(s, own) == IF Len(queue[s]) <= Budget(s, own) THEN Len(queue[s]) ELSE 0

\* How many bytes of the queue go out: as many as both budgets allow.
Drained(s, own) == Least(Len(queue[s]), Budget(s, own))

\* Mutant of Left: the partly written chunk is kept one byte too long.
LeftTwice(s, n) == SubSeq(queue[s], IF n = 0 THEN 1 ELSE n, Len(queue[s]))

\* The queue without its first n bytes.
Left(s, n) == SubSeq(queue[s], n + 1, Len(queue[s]))

\* Mutant of Resumed: 'drain' is left to the stream.
ResumedNone(out, left) == {}

\* The producers that are sent 'drain' when out went out and left is left.
Resumed(out, left) == Waiting(out) \ Waiting(left)

\* The tick of startLimitTicker, with r units of budget since the one before:
\* the bucket is refilled, the queue drained, the producers of what went out
\* told to go on, the paused streams resumed if any budget is left and the held
\* ends released if the queue is empty.
Tick(s, r) ==
    /\ Due(s) /\ InMap(s) /\ Capped(s)
    /\ IF OwnLimit[s] > 0 THEN r \in 1 .. OwnLimit[s] ELSE r = 0
    /\ LET own  == Refilled(s, r)
           n    == Drained(s, own)
           left == Left(s, n)
           out  == SubSeq(queue[s], 1, n)
       IN /\ queue' = [queue EXCEPT ![s] = left]
          /\ Send(Bytes(out))
          /\ blocked' = blocked \ Resumed(out, left)
          /\ Charge(s, own, n)
          /\ moved' = [moved EXCEPT ![s] = IF OwnLimit[s] > 0 THEN n ELSE @]
          /\ paused' = IF Budget(s, own) > n THEN paused \ StreamsOf(s) ELSE paused
          /\ IF left = <<>>
             THEN /\ ended' = ended \cup (pendingEnds \cap StreamsOf(s))
                  /\ pendingEnds' = pendingEnds \ StreamsOf(s)
             ELSE UNCHANGED <<ended, pendingEnds>>
    /\ UNCHANGED <<outside, ticking, written>>

\* Mutant of TickEnds: the timer stops and nothing is flushed.
TickEndsDry(s) ==
    /\ Due(s) /\ ~(InMap(s) /\ Capped(s))
    /\ ticking' = ticking \ {s}
    /\ UNCHANGED <<outside, tokens, queue, paused, pendingEnds, gTokens, written,
                   sent, blocked, ended, moved>>

\* Nothing is left to enforce: the ticker flushes and stops.
TickEnds(s) ==
    /\ Due(s) /\ ~(InMap(s) /\ Capped(s))
    /\ Flush(s, queue[s])
    /\ UNCHANGED <<outside, tokens, gTokens, written, moved>>

GlobalTick(r) ==
    /\ ~crashed /\ gLimit > 0 /\ r \in 1 .. gLimit
    /\ gTokens' = Least(gLimit, gTokens + r)
    /\ UNCHANGED <<outside, tokens, ticking, queue, paused, pendingEnds, written,
                   sent, blocked, ended, moved>>

\* Every session in the Map is ticking again afterwards.
setGlobalLimit(g) ==
    /\ ~crashed
    /\ gLimit' = g
    /\ gTokens' = 0
    /\ ticking' = ticking \cup {s \in Sessions : InMap(s)}
    /\ UNCHANGED <<where, tokens, queue, overflowed, paused, pendingEnds, written,
                   sent, blocked, ended, closed, moved, crashed>>

-----------------------------------------------------------------------------
(* Sessions                                                                *)

Init ==
    /\ where = [s \in Sessions |-> "new"]
    /\ tokens = [s \in Sessions |-> 0]
    /\ ticking = {}
    /\ queue = [s \in Sessions |-> <<>>]
    /\ overflowed = {} /\ paused = {} /\ pendingEnds = {}
    /\ gLimit = 0 /\ gTokens = 0
    /\ written = [t \in Streams |-> 0]
    /\ sent = [t \in Streams |-> {}]
    /\ blocked = {} /\ ended = {} /\ closed = {}
    /\ moved = [s \in Sessions |-> 0]
    /\ crashed = FALSE

\* A start call registers the session and starts its ticker.
Register(s) ==
    /\ ~crashed /\ where[s] = "new"
    /\ where' = [where EXCEPT ![s] = "listed"]
    /\ ticking' = ticking \cup {s}
    /\ UNCHANGED <<tokens, queue, overflowed, paused, pendingEnds, gLimit, gTokens,
                   written, sent, blocked, ended, closed, moved, crashed>>

\* stopSession up to its await, or onAsyncError for another error of s.
Leave(s, to) ==
    /\ ~crashed
    /\ where' = [where EXCEPT ![s] = to]
    /\ Flush(s, queue[s])
    /\ UNCHANGED <<tokens, overflowed, gLimit, gTokens, written, closed, moved, crashed>>

StopAsked(s) == where[s] = "listed" /\ Leave(s, "stopping")
Dropped(s)   == InMap(s) /\ Leave(s, "dropped")

\* hs.close() is over.
Closed(s) ==
    /\ ~crashed /\ where[s] \in {"stopping", "dropped"}
    /\ where' = [where EXCEPT ![s] = "closed"]
    /\ UNCHANGED <<tokens, ticking, queue, overflowed, paused, pendingEnds, gLimit,
                   gTokens, written, sent, blocked, ended, closed, moved, crashed>>

-----------------------------------------------------------------------------
Write(t, n) ==
    \/ WriteThrough(t, n) \/ WriteQueued(t, n)
    \/ WriteOverflows(t, n) \/ WriteDiscarded(t, n)

Refills(limits) == UNION {0 .. l : l \in limits}

Timer(s) == TickEnds(s) \/ \E r \in 0 .. OwnLimit[s] : Tick(s, r)

Next ==
    \/ \E t \in Streams, n \in 1 .. MaxChunk :
          Write(t, n) \/ ReadFits(t, n) \/ ReadExceeds(t, n)
    \/ \E t \in Streams : End(t) \/ CloseStream(t)
    \/ \E s \in Sessions : Timer(s)
    \/ \E r \in Refills(GlobalLimits) : GlobalTick(r)
    \/ \E g \in GlobalLimits : setGlobalLimit(g)
    \/ \E s \in Sessions : Register(s) \/ StopAsked(s) \/ Dropped(s) \/ Closed(s)

Spec == Init /\ [][Next]_vars

\* setTimeout callbacks run.
Fairness == \A s \in Sessions : WF_vars(Timer(s))

FairSpec == Spec /\ Fairness

-----------------------------------------------------------------------------
(* Properties                                                              *)

\* The type invariant.
TypeOK ==
    /\ where \in [Sessions -> {"new", "listed", "stopping", "dropped", "closed"}]
    /\ tokens \in [Sessions -> Nat]
    /\ \A s \in Sessions : tokens[s] <= OwnLimit[s]
    /\ ticking \subseteq Sessions
    /\ queue \in [Sessions -> Seq(Streams \X Nat)]
    /\ \A s \in Sessions : Len(queue[s]) <= MaxQueue
    /\ overflowed \subseteq Sessions
    /\ paused \subseteq Streams
    /\ pendingEnds \subseteq Streams
    /\ gLimit \in Nat /\ gTokens \in Nat /\ gTokens <= gLimit
    /\ written \in [Streams -> Nat]
    /\ sent \in [Streams -> SUBSET Nat]
    /\ blocked \subseteq Streams /\ ended \subseteq Streams /\ closed \subseteq Streams
    /\ moved \in [Sessions -> Nat]
    /\ crashed \in BOOLEAN

\* Nothing is lost or sent twice: every byte written to a stream has been sent
\* or is in the queue, once, whatever was drained, flushed or written through,
\* unless the session overflowed.
BytesAccounted ==
    \A t \in Streams : SessionOf[t] \notin overflowed =>
        LET q == queue[SessionOf[t]]
            held == {i \in 1 .. Len(q) : q[i][1] = t}
        IN /\ \A i \in held : q[i][2] \notin sent[t]
           /\ \A i, j \in held : i < j => q[i][2] < q[j][2]
           /\ sent[t] \cup {q[i][2] : i \in held} = 1 .. written[t]

\* limiter.js, queueEnd: without it "a capped download would look like a clean
\* but truncated response".  When a stream is ended, all that was written to it
\* has been sent.
NoTruncation ==
    \A t \in ended : SessionOf[t] \notin overflowed => 1 .. written[t] \subseteq sent[t]

\* What a cap holds back in a running session has a ticker to release it.
HeldHasTicker ==
    \A s \in Sessions :
        /\ where[s] = "listed"
        /\ queue[s] # <<>> \/ StreamsOf(s) \cap (paused \cup pendingEnds) # {}
        => s \in ticking

\* A producer that was told to wait has bytes in the queue, so the drain of
\* these will tell it to go on.
BlockedHasBytes ==
    \A t \in blocked :
        SessionOf[t] \notin overflowed => t \in Waiting(queue[SessionOf[t]])

\* Between two ticks a session with a cap of its own moves at most one second's
\* budget, and one chunk more for each stream it reads from.
OvershootBounded ==
    \A s \in Sessions : where[s] = "listed" /\ OwnLimit[s] > 0 =>
        moved[s] <= OwnLimit[s] + MaxChunk * Cardinality(StreamsOf(s))

\* A queued byte of a running session with a cap of its own is sent, however
\* much is written behind it.
QueuedIsSent ==
    \A t \in Streams : \A k \in 1 .. MaxBytes :
        LET s == SessionOf[t] IN
        (<<t, k>> \in Bytes(queue[s]) /\ where[s] = "listed") ~>
            (k \in sent[t] \/ where[s] # "listed" \/ crashed)

=============================================================================
