----------------------- MODULE BandwidthLimiter_proof -----------------------
(***************************************************************************)
(* Proofs about BandwidthLimiter, for any number of sessions and streams,  *)
(* any caps and chunks and any order of writes, reads, ends, ticks, stops  *)
(* and changes of the total cap.                                           *)
(***************************************************************************)
EXTENDS BandwidthLimiter, FiniteSetTheorems, TLAPS

\* The buckets are within their limits, the queues within the ceiling.
BucketsOK ==
    /\ tokens \in [Sessions -> Nat]
    /\ \A s \in Sessions : tokens[s] <= OwnLimit[s]
    /\ gLimit \in Nat /\ gTokens \in Nat /\ gTokens <= gLimit
    /\ moved \in [Sessions -> Nat]

QueuesOK ==
    /\ queue \in [Sessions -> Seq(Streams \X Nat)]
    /\ \A s \in Sessions : Len(queue[s]) <= MaxQueue
    /\ written \in [Streams -> Nat]
    /\ sent \in [Streams -> SUBSET Nat]

SetsOK ==
    /\ where \in [Sessions -> {"new", "listed", "stopping", "dropped", "closed"}]
    /\ ticking \subseteq Sessions /\ overflowed \subseteq Sessions
    /\ paused \subseteq Streams /\ pendingEnds \subseteq Streams
    /\ blocked \subseteq Streams /\ ended \subseteq Streams /\ closed \subseteq Streams
    /\ crashed \in BOOLEAN

(* The type invariant, by what the steps change together.                   *)
LEMMA TypeParts == TypeOK <=> BucketsOK /\ QueuesOK /\ SetsOK
  BY DEF TypeOK, BucketsOK, QueuesOK, SetsOK

-----------------------------------------------------------------------------
(* limitTokens never gives more than either bucket holds.                   *)
LEMMA BudgetBounds ==
  ASSUME BucketsOK, NEW s \in Sessions, NEW own \in Nat
  PROVE  /\ Budget(s, own) \in Nat
         /\ OwnLimit[s] > 0 => Budget(s, own) <= own
         /\ gLimit > 0 => Budget(s, own) <= gTokens
  BY LimiterAssumption DEF BucketsOK, Budget, Least

(* chargeTokens, of an amount the budget covers, keeps the buckets within   *)
(* their limits.                                                            *)
LEMMA ChargeKeeps ==
  ASSUME BucketsOK, NEW s \in Sessions, NEW own \in Nat, own <= OwnLimit[s],
         NEW n \in Nat, n <= Budget(s, own), Charge(s, own, n),
         UNCHANGED gLimit, moved' \in [Sessions -> Nat]
  PROVE  BucketsOK'
<1>1. (OwnLimit[s] > 0 => n <= own) /\ (gLimit > 0 => n <= gTokens)
  BY BudgetBounds DEF BucketsOK
<1>2. gTokens' \in Nat /\ gTokens' <= gLimit'
  BY <1>1 DEF Charge, BucketsOK
<1>3. (IF OwnLimit[s] > 0 THEN own - n ELSE tokens[s]) \in 0 .. OwnLimit[s]
  BY <1>1, LimiterAssumption DEF BucketsOK
<1>4. tokens' \in [Sessions -> Nat] /\ \A r \in Sessions : tokens'[r] <= OwnLimit[r]
  BY <1>3, LimiterAssumption DEF Charge, BucketsOK
<1>5. QED
  BY <1>2, <1>4 DEF BucketsOK

(* The history of moved bytes keeps its type.                               *)
LEMMA CountKeeps ==
  ASSUME BucketsOK, NEW s \in Sessions, NEW n \in Nat, Count(s, n)
  PROVE  moved' \in [Sessions -> Nat]
  BY DEF BucketsOK, Count

(* What reaches the wire is what was there and the bytes sent.              *)
LEMMA SendKeeps ==
  ASSUME QueuesOK, NEW B \in SUBSET (Streams \X Nat), Send(B)
  PROVE  /\ sent' \in [Streams -> SUBSET Nat]
         /\ \A t \in Streams : \A k : k \in sent'[t] <=> k \in sent[t] \/ <<t, k>> \in B
<1>1. \A t \in Streams : sent'[t] = sent[t] \cup {b[2] : b \in {c \in B : c[1] = t}}
  BY DEF Send
<1>2. \A b \in B : b[1] \in Streams /\ b[2] \in Nat /\ b = <<b[1], b[2]>>
  OBVIOUS
<1>3. ASSUME NEW t \in Streams, NEW k
      PROVE  k \in sent'[t] <=> k \in sent[t] \/ <<t, k>> \in B
  <2>1. k \in {b[2] : b \in {c \in B : c[1] = t}} <=> <<t, k>> \in B
    BY <1>2
  <2>2. QED
    BY <1>1, <2>1
<1>4. ASSUME NEW t \in Streams PROVE sent'[t] \subseteq Nat
  BY <1>1, <1>2, <1>4 DEF QueuesOK
<1>5. QED
  BY <1>3, <1>4 DEF Send

(* The bytes of a queue, and the streams they belong to.                    *)
LEMMA BytesOf ==
  ASSUME NEW q \in Seq(Streams \X Nat)
  PROVE  /\ Bytes(q) \subseteq Streams \X Nat
         /\ \A b : b \in Bytes(q) <=> \E i \in 1 .. Len(q) : q[i] = b
         /\ Waiting(q) \subseteq Streams
         /\ \A t : t \in Waiting(q) <=> \E i \in 1 .. Len(q) : q[i][1] = t
<1>1. \A i \in 1 .. Len(q) : q[i] \in Streams \X Nat
  OBVIOUS
<1>2. QED
  BY <1>1 DEF Bytes, Waiting

(* The bytes given are numbered on from the last one.                       *)
LEMMA NextBytesAre ==
  ASSUME QueuesOK, NEW t \in Streams, NEW n \in Nat
  PROVE  /\ NextBytes(t, n) \in Seq(Streams \X Nat)
         /\ Len(NextBytes(t, n)) = n
         /\ \A i \in 1 .. n : NextBytes(t, n)[i] = <<t, written[t] + i>>
<1>1. written[t] \in Nat
  BY DEF QueuesOK
<1>2. NextBytes(t, n) \in [1 .. n -> Streams \X Nat]
  BY <1>1 DEF NextBytes
<1>3. QED
  BY <1>2 DEF NextBytes

(* A queue cut after its first n bytes.                                     *)
LEMMA CutAt ==
  ASSUME NEW q \in Seq(Streams \X Nat), NEW n \in 0 .. Len(q)
  PROVE  /\ SubSeq(q, 1, n) \in Seq(Streams \X Nat)
         /\ Len(SubSeq(q, 1, n)) = n
         /\ \A i \in 1 .. n : SubSeq(q, 1, n)[i] = q[i]
         /\ SubSeq(q, n + 1, Len(q)) \in Seq(Streams \X Nat)
         /\ Len(SubSeq(q, n + 1, Len(q))) = Len(q) - n
         /\ \A i \in 1 .. Len(q) - n : SubSeq(q, n + 1, Len(q))[i] = q[n + i]
  OBVIOUS

(* A tick drains no more than is queued, and no more than the budget.       *)
LEMMA DrainBounds ==
  ASSUME TypeOK, NEW s \in Sessions, NEW own \in Nat
  PROVE  Drained(s, own) \in 0 .. Len(queue[s]) /\ Drained(s, own) <= Budget(s, own)
<1>1. Budget(s, own) \in Nat
  BY BudgetBounds, TypeParts
<1>2. Len(queue[s]) \in Nat
  BY DEF TypeOK
<1>3. QED
  BY <1>1, <1>2 DEF Drained, Least

(* A refill does not pass the limit.                                        *)
LEMMA RefillBounds ==
  ASSUME TypeOK, NEW s \in Sessions, NEW r \in Nat
  PROVE  Refilled(s, r) \in 0 .. OwnLimit[s]
<1>1. tokens[s] \in Nat /\ OwnLimit[s] \in Nat
  BY LimiterAssumption DEF TypeOK
<1>2. QED
  BY <1>1 DEF Refilled, Least

-----------------------------------------------------------------------------
(* Next, with the disjuncts of its parts in one list.                       *)
LEMMA NextCases ==
  ASSUME Next
  PROVE  \/ \E t \in Streams, n \in 1 .. MaxChunk :
               \/ WriteThrough(t, n) \/ WriteQueued(t, n)
               \/ WriteOverflows(t, n) \/ WriteDiscarded(t, n)
               \/ ReadFits(t, n) \/ ReadExceeds(t, n)
         \/ \E t \in Streams : End(t) \/ CloseStream(t)
         \/ \E s \in Sessions : TickEnds(s) \/ \E r \in 0 .. OwnLimit[s] : Tick(s, r)
         \/ \E r \in Refills(GlobalLimits) : GlobalTick(r)
         \/ \E g \in GlobalLimits : setGlobalLimit(g)
         \/ \E s \in Sessions : Register(s) \/ StopAsked(s) \/ Dropped(s) \/ Closed(s)
  BY DEF Next, Write, Timer

(* The buckets.                                                             *)
LEMMA BucketsStep == TypeOK /\ [Next]_vars => BucketsOK'
  <1> SUFFICES ASSUME TypeOK, [Next]_vars PROVE BucketsOK'
    OBVIOUS
  <1> USE LimiterAssumption, TypeParts DEF outside
  <1>1. ASSUME NEW t \in Streams, NEW n \in 1 .. MaxChunk, WriteThrough(t, n) PROVE BucketsOK'
    <2>1. tokens[SessionOf[t]] \in Nat /\ tokens[SessionOf[t]] <= OwnLimit[SessionOf[t]]
      BY DEF BucketsOK
    <2>2. moved' \in [Sessions -> Nat]
      BY <1>1, CountKeeps DEF WriteThrough
    <2>3. CASE Capped(SessionOf[t])
      BY <1>1, <2>1, <2>2, <2>3, ChargeKeeps DEF WriteThrough
    <2>4. CASE ~Capped(SessionOf[t])
      BY <1>1, <2>2, <2>4 DEF WriteThrough, BucketsOK
    <2>5. QED
      BY <2>3, <2>4
  <1>2. ASSUME NEW t \in Streams, NEW n \in 1 .. MaxChunk, WriteQueued(t, n) PROVE BucketsOK'
    BY <1>2 DEF WriteQueued, Excess, Give, BucketsOK
  <1>3. ASSUME NEW t \in Streams, NEW n \in 1 .. MaxChunk, WriteOverflows(t, n) PROVE BucketsOK'
    BY <1>3 DEF WriteOverflows, Excess, Give, Flush, BucketsOK
  <1>4. ASSUME NEW t \in Streams, NEW n \in 1 .. MaxChunk, WriteDiscarded(t, n) PROVE BucketsOK'
    BY <1>4 DEF WriteDiscarded, Give, BucketsOK
  <1>5. ASSUME NEW t \in Streams, NEW n \in 1 .. MaxChunk, ReadFits(t, n) PROVE BucketsOK'
    <2>1. tokens[SessionOf[t]] \in Nat /\ tokens[SessionOf[t]] <= OwnLimit[SessionOf[t]]
      BY DEF BucketsOK
    <2>2. moved' \in [Sessions -> Nat]
      BY <1>5, CountKeeps DEF ReadFits
    <2>3. QED
      BY <1>5, <2>1, <2>2, ChargeKeeps DEF ReadFits
  <1>6. ASSUME NEW t \in Streams, NEW n \in 1 .. MaxChunk, ReadExceeds(t, n) PROVE BucketsOK'
    <2>1. moved' \in [Sessions -> Nat]
      BY <1>6, CountKeeps DEF ReadExceeds
    <2>2. QED
      BY <1>6, <2>1 DEF ReadExceeds, BucketsOK
  <1>7. ASSUME NEW t \in Streams, End(t) PROVE BucketsOK'
    BY <1>7 DEF End, BucketsOK
  <1>8. ASSUME NEW t \in Streams, CloseStream(t) PROVE BucketsOK'
    BY <1>8 DEF CloseStream, BucketsOK
  <1>9. ASSUME NEW s \in Sessions, TickEnds(s) PROVE BucketsOK'
    BY <1>9 DEF TickEnds, Flush, BucketsOK
  <1>10. ASSUME NEW s \in Sessions, NEW r \in 0 .. OwnLimit[s], Tick(s, r) PROVE BucketsOK'
    <2> DEFINE own == Refilled(s, r)
               n   == Drained(s, own)
    <2>1. own \in Nat /\ own <= OwnLimit[s]
      BY RefillBounds
    <2>2. n \in Nat /\ n <= Budget(s, own)
      BY <2>1, DrainBounds DEF QueuesOK
    <2>3. Charge(s, own, n) /\ UNCHANGED gLimit
      BY <1>10 DEF Tick
    <2>4. moved' \in [Sessions -> Nat]
      BY <1>10, <2>2 DEF Tick, BucketsOK
    <2>5. QED
      BY <2>1, <2>2, <2>3, <2>4, ChargeKeeps
  <1>11. ASSUME NEW r \in Refills(GlobalLimits), GlobalTick(r) PROVE BucketsOK'
    <2>1. r \in Nat
      BY DEF Refills
    <2>2. QED
      BY <1>11, <2>1 DEF GlobalTick, BucketsOK, Least
  <1>12. ASSUME NEW g \in GlobalLimits, setGlobalLimit(g) PROVE BucketsOK'
    BY <1>12 DEF setGlobalLimit, BucketsOK
  <1>13. ASSUME NEW s \in Sessions, Register(s) PROVE BucketsOK'
    BY <1>13 DEF Register, BucketsOK
  <1>14. ASSUME NEW s \in Sessions, StopAsked(s) PROVE BucketsOK'
    BY <1>14 DEF StopAsked, Leave, Flush, BucketsOK
  <1>15. ASSUME NEW s \in Sessions, Dropped(s) PROVE BucketsOK'
    BY <1>15 DEF Dropped, Leave, Flush, BucketsOK
  <1>16. ASSUME NEW s \in Sessions, Closed(s) PROVE BucketsOK'
    BY <1>16 DEF Closed, BucketsOK
  <1>17. CASE UNCHANGED vars
    BY <1>17 DEF vars, BucketsOK
  <1>18. QED
    BY <1>1, <1>2, <1>3, <1>4, <1>5, <1>6, <1>7, <1>8, <1>9, <1>10, <1>11, <1>12,
       <1>13, <1>14, <1>15, <1>16, <1>17, NextCases

(* The sets.                                                                *)
LEMMA SetsStep == TypeOK /\ [Next]_vars => SetsOK'
  <1> SUFFICES ASSUME TypeOK, [Next]_vars PROVE SetsOK'
    OBVIOUS
  <1> USE LimiterAssumption, TypeParts DEF outside, InMap, Usable, StreamsOf
  <1>1. ASSUME NEW t \in Streams, NEW n \in 1 .. MaxChunk, WriteThrough(t, n) PROVE SetsOK'
    BY <1>1 DEF WriteThrough, Give, SetsOK
  <1>2. ASSUME NEW t \in Streams, NEW n \in 1 .. MaxChunk, WriteQueued(t, n) PROVE SetsOK'
    BY <1>2 DEF WriteQueued, Excess, Give, SetsOK
  <1>3. ASSUME NEW t \in Streams, NEW n \in 1 .. MaxChunk, WriteOverflows(t, n) PROVE SetsOK'
    BY <1>3 DEF WriteOverflows, Excess, Give, Flush, SetsOK
  <1>4. ASSUME NEW t \in Streams, NEW n \in 1 .. MaxChunk, WriteDiscarded(t, n) PROVE SetsOK'
    BY <1>4 DEF WriteDiscarded, Give, SetsOK
  <1>5. ASSUME NEW t \in Streams, NEW n \in 1 .. MaxChunk, ReadFits(t, n) PROVE SetsOK'
    BY <1>5 DEF ReadFits, SetsOK
  <1>6. ASSUME NEW t \in Streams, NEW n \in 1 .. MaxChunk, ReadExceeds(t, n) PROVE SetsOK'
    BY <1>6 DEF ReadExceeds, SetsOK
  <1>7. ASSUME NEW t \in Streams, End(t) PROVE SetsOK'
    BY <1>7 DEF End, SetsOK
  <1>8. ASSUME NEW t \in Streams, CloseStream(t) PROVE SetsOK'
    BY <1>8 DEF CloseStream, SetsOK
  <1>9. ASSUME NEW s \in Sessions, TickEnds(s) PROVE SetsOK'
    BY <1>9 DEF TickEnds, Flush, SetsOK
  <1>10. ASSUME NEW s \in Sessions, NEW r \in 0 .. OwnLimit[s], Tick(s, r) PROVE SetsOK'
    BY <1>10 DEF Tick, SetsOK
  <1>11. ASSUME NEW r \in Refills(GlobalLimits), GlobalTick(r) PROVE SetsOK'
    BY <1>11 DEF GlobalTick, SetsOK
  <1>12. ASSUME NEW g \in GlobalLimits, setGlobalLimit(g) PROVE SetsOK'
    BY <1>12 DEF setGlobalLimit, SetsOK
  <1>13. ASSUME NEW s \in Sessions, Register(s) PROVE SetsOK'
    BY <1>13 DEF Register, SetsOK
  <1>14. ASSUME NEW s \in Sessions, StopAsked(s) PROVE SetsOK'
    BY <1>14 DEF StopAsked, Leave, Flush, SetsOK
  <1>15. ASSUME NEW s \in Sessions, Dropped(s) PROVE SetsOK'
    BY <1>15 DEF Dropped, Leave, Flush, SetsOK
  <1>16. ASSUME NEW s \in Sessions, Closed(s) PROVE SetsOK'
    BY <1>16 DEF Closed, SetsOK
  <1>17. CASE UNCHANGED vars
    BY <1>17 DEF vars, SetsOK
  <1>18. QED
    BY <1>1, <1>2, <1>3, <1>4, <1>5, <1>6, <1>7, <1>8, <1>9, <1>10, <1>11, <1>12,
       <1>13, <1>14, <1>15, <1>16, <1>17, NextCases

-----------------------------------------------------------------------------
(* What a step does to the bytes.  The streams that join ended and the       *)
(* producers that leave blocked go with it.                                  *)

Grows(t, n) ==
    /\ n \in Nat \ {0} /\ t \notin ended
    /\ written' = [written EXCEPT ![t] = @ + n]

Passed(t, n) ==
    /\ Grows(t, n) /\ Send(Bytes(NextBytes(t, n)))
    /\ UNCHANGED <<queue, blocked, ended, overflowed>>

Held(t, n) ==
    LET s == SessionOf[t] IN
    /\ Grows(t, n) /\ Len(queue[s]) + n <= MaxQueue
    /\ queue' = [queue EXCEPT ![s] = @ \o NextBytes(t, n)]
    /\ blocked' = blocked \cup {t}
    /\ UNCHANGED <<sent, ended, overflowed>>

Lost(t, n) ==
    LET s == SessionOf[t] IN
    /\ Grows(t, n) /\ overflowed' = overflowed \cup {s}
    /\ queue' = queue \/ queue' = [queue EXCEPT ![s] = <<>>]
    /\ UNCHANGED sent
    /\ blocked' \subseteq blocked /\ ended' \subseteq ended \cup StreamsOf(s)

Out(s, n) ==
    /\ n \in 0 .. Len(queue[s])
    /\ queue' = [queue EXCEPT ![s] = SubSeq(queue[s], n + 1, Len(queue[s]))]
    /\ Send(Bytes(SubSeq(queue[s], 1, n)))
    /\ blocked' = blocked \ (Waiting(SubSeq(queue[s], 1, n))
                                \ Waiting(SubSeq(queue[s], n + 1, Len(queue[s]))))
    /\ ended' \subseteq ended \cup (IF n = Len(queue[s]) THEN StreamsOf(s) ELSE {})
    /\ UNCHANGED <<written, overflowed>>

Quiet ==
    /\ UNCHANGED <<queue, written, sent, blocked, overflowed>>
    /\ \A t \in ended' \ ended : SessionOf[t] \in overflowed \/ queue[SessionOf[t]] = <<>>

Effect ==
    \/ Quiet
    \/ \E t \in Streams, n \in Nat : Passed(t, n) \/ Held(t, n) \/ Lost(t, n)
    \/ \E s \in Sessions, n \in Nat : Out(s, n)

(* A flush sends the whole queue.                                            *)
LEMMA FlushIsOut ==
  ASSUME QueuesOK, NEW s \in Sessions, Flush(s, queue[s]), UNCHANGED <<written, overflowed>>
  PROVE  Effect
<1> DEFINE q == queue[s]
<1>1. q \in Seq(Streams \X Nat) /\ Len(q) \in 0 .. Len(q) /\ Len(q) \in Nat
  BY DEF QueuesOK
<1>2. SubSeq(q, 1, Len(q)) = q /\ SubSeq(q, Len(q) + 1, Len(q)) = <<>>
  BY <1>1
<1>3. Waiting(<<>>) = {}
  BY DEF Waiting, Bytes
<1>4. Out(s, Len(q))
  BY <1>1, <1>2, <1>3 DEF Out, Flush
<1>5. QED
  BY <1>1, <1>4 DEF Effect

(* Nothing is sent.                                                          *)
LEMMA SendNone ==
  ASSUME QueuesOK, Send(Bytes(<<>>))
  PROVE  UNCHANGED sent
<1>1. Bytes(<<>>) = {}
  BY DEF Bytes
<1>2. \A t \in Streams : sent'[t] = sent[t] \cup {b[2] : b \in {c \in Bytes(<<>>) : c[1] = t}}
  BY DEF Send
<1>3. \A t \in Streams : sent'[t] = sent[t]
  BY <1>1, <1>2
<1>4. sent' = [t \in Streams |-> sent'[t]] /\ sent = [t \in Streams |-> sent[t]]
  BY DEF Send, QueuesOK
<1>5. QED
  BY <1>3, <1>4

(* Every step has one of these effects.                                    *)
LEMMA Effects == TypeOK /\ [Next]_vars => Effect
  <1> SUFFICES ASSUME TypeOK, [Next]_vars PROVE Effect
    OBVIOUS
  <1> USE LimiterAssumption, TypeParts DEF outside
  <1>1. ASSUME NEW t \in Streams, NEW n \in 1 .. MaxChunk, WriteThrough(t, n) PROVE Effect
    <2>1. Passed(t, n)
      BY <1>1 DEF WriteThrough, Passed, Grows, Give
    <2>2. QED
      BY <2>1 DEF Effect
  <1>2. ASSUME NEW t \in Streams, NEW n \in 1 .. MaxChunk, WriteQueued(t, n) PROVE Effect
    <2>1. Held(t, n)
      BY <1>2 DEF WriteQueued, Excess, Held, Grows, Give
    <2>2. QED
      BY <2>1 DEF Effect
  <1>3. ASSUME NEW t \in Streams, NEW n \in 1 .. MaxChunk, WriteOverflows(t, n) PROVE Effect
    <2>1. Grows(t, n) /\ overflowed' = overflowed \cup {SessionOf[t]}
      BY <1>3 DEF WriteOverflows, Excess, Grows, Give
    <2>2. CASE InMap(SessionOf[t])
      <3>1. Flush(SessionOf[t], <<>>)
        BY <1>3, <2>2 DEF WriteOverflows
      <3>2. UNCHANGED sent
        BY <3>1, SendNone DEF Flush
      <3>3. Lost(t, n)
        BY <2>1, <3>1, <3>2 DEF Lost, Flush, StreamsOf
      <3>4. QED
        BY <3>3 DEF Effect
    <2>3. CASE ~InMap(SessionOf[t])
      BY <1>3, <2>1, <2>3 DEF WriteOverflows, Lost, Effect
    <2>4. QED
      BY <2>2, <2>3
  <1>4. ASSUME NEW t \in Streams, NEW n \in 1 .. MaxChunk, WriteDiscarded(t, n) PROVE Effect
    <2>1. Lost(t, n)
      BY <1>4 DEF WriteDiscarded, Lost, Grows, Give
    <2>2. QED
      BY <2>1 DEF Effect
  <1>5. ASSUME NEW t \in Streams, NEW n \in 1 .. MaxChunk, ReadFits(t, n) PROVE Effect
    BY <1>5 DEF ReadFits, Effect, Quiet
  <1>6. ASSUME NEW t \in Streams, NEW n \in 1 .. MaxChunk, ReadExceeds(t, n) PROVE Effect
    BY <1>6 DEF ReadExceeds, Effect, Quiet
  <1>7. ASSUME NEW t \in Streams, End(t) PROVE Effect
    BY <1>7 DEF End, Effect, Quiet
  <1>8. ASSUME NEW t \in Streams, CloseStream(t) PROVE Effect
    BY <1>8 DEF CloseStream, Effect, Quiet
  <1>9. ASSUME NEW s \in Sessions, TickEnds(s) PROVE Effect
    BY <1>9, FlushIsOut DEF TickEnds
  <1>10. ASSUME NEW s \in Sessions, NEW r \in 0 .. OwnLimit[s], Tick(s, r) PROVE Effect
    <2> DEFINE own == Refilled(s, r)
               n   == Drained(s, own)
               q   == queue[s]
    <2>1. q \in Seq(Streams \X Nat) /\ Len(q) \in Nat
      BY DEF QueuesOK
    <2>2. r \in Nat /\ own \in Nat
      BY RefillBounds
    <2>3. n \in 0 .. Len(q)
      BY <2>2, DrainBounds
    <2>4. n \in 0 .. Len(q) /\ n \in Nat
      BY <2>3, <2>1
    <2>5. SubSeq(q, n + 1, Len(q)) = <<>> => n = Len(q)
      <3>1. Len(SubSeq(q, n + 1, Len(q))) = Len(q) - n
        BY <2>1, <2>4, CutAt
      <3>2. Len(<<>>) = 0
        OBVIOUS
      <3>3. ASSUME SubSeq(q, n + 1, Len(q)) = <<>> PROVE n = Len(q)
        <4>1. Len(q) - n = 0
          BY <3>1, <3>2, <3>3
        <4>2. QED
          BY <4>1, <2>1, <2>4
      <3>4. QED
        BY <3>3
    <2>6. ended' \subseteq ended \cup (IF n = Len(q) THEN StreamsOf(s) ELSE {})
      BY <1>10, <2>5 DEF Tick, Left
    <2>7. Out(s, n)
      BY <1>10, <2>4, <2>6 DEF Tick, Out, Left, Resumed
    <2>8. QED
      BY <2>4, <2>7 DEF Effect
  <1>11. ASSUME NEW r \in Refills(GlobalLimits), GlobalTick(r) PROVE Effect
    BY <1>11 DEF GlobalTick, Effect, Quiet
  <1>12. ASSUME NEW g \in GlobalLimits, setGlobalLimit(g) PROVE Effect
    BY <1>12 DEF setGlobalLimit, Effect, Quiet
  <1>13. ASSUME NEW s \in Sessions, Register(s) PROVE Effect
    BY <1>13 DEF Register, Effect, Quiet
  <1>14. ASSUME NEW s \in Sessions, StopAsked(s) PROVE Effect
    BY <1>14, FlushIsOut DEF StopAsked, Leave
  <1>15. ASSUME NEW s \in Sessions, Dropped(s) PROVE Effect
    BY <1>15, FlushIsOut DEF Dropped, Leave
  <1>16. ASSUME NEW s \in Sessions, Closed(s) PROVE Effect
    BY <1>16 DEF Closed, Effect, Quiet
  <1>17. CASE UNCHANGED vars
    BY <1>17 DEF vars, Effect, Quiet
  <1>18. QED
    BY <1>1, <1>2, <1>3, <1>4, <1>5, <1>6, <1>7, <1>8, <1>9, <1>10, <1>11, <1>12,
       <1>13, <1>14, <1>15, <1>16, <1>17, NextCases

-----------------------------------------------------------------------------
(* The queues.                                                               *)
LEMMA QueuesStep == TypeOK /\ [Next]_vars => QueuesOK'
<1> SUFFICES ASSUME TypeOK, [Next]_vars PROVE QueuesOK'
  OBVIOUS
<1> USE LimiterAssumption, TypeParts
<1>1. CASE Quiet
  BY <1>1 DEF Quiet, QueuesOK
<1>2. ASSUME NEW t \in Streams, NEW n \in Nat, Passed(t, n) PROVE QueuesOK'
  <2>1. Bytes(NextBytes(t, n)) \subseteq Streams \X Nat
    BY NextBytesAre, BytesOf
  <2>2. QED
    BY <1>2, <2>1, SendKeeps DEF Passed, Grows, QueuesOK
<1>3. ASSUME NEW t \in Streams, NEW n \in Nat, Held(t, n) PROVE QueuesOK'
  <2> DEFINE s == SessionOf[t]
             q == queue[s] \o NextBytes(t, n)
  <2>1. s \in Sessions /\ queue[s] \in Seq(Streams \X Nat)
    BY DEF QueuesOK
  <2>2. NextBytes(t, n) \in Seq(Streams \X Nat) /\ Len(NextBytes(t, n)) = n
    BY NextBytesAre
  <2>3. q \in Seq(Streams \X Nat) /\ Len(q) <= MaxQueue
    BY <1>3, <2>1, <2>2 DEF Held
  <2>4. queue' = [queue EXCEPT ![s] = q]
    BY <1>3 DEF Held
  <2>5. queue' \in [Sessions -> Seq(Streams \X Nat)] /\ \A r \in Sessions : Len(queue'[r]) <= MaxQueue
    BY <2>1, <2>3, <2>4 DEF QueuesOK
  <2>6. QED
    BY <1>3, <2>5 DEF Held, Grows, QueuesOK
<1>4. ASSUME NEW t \in Streams, NEW n \in Nat, Lost(t, n) PROVE QueuesOK'
  <2>1. queue' \in [Sessions -> Seq(Streams \X Nat)] /\ \A r \in Sessions : Len(queue'[r]) <= MaxQueue
    <3>1. CASE queue' = queue
      BY <3>1 DEF QueuesOK
    <3>2. CASE queue' = [queue EXCEPT ![SessionOf[t]] = <<>>]
      <4>1. Len(<<>>) <= MaxQueue /\ <<>> \in Seq(Streams \X Nat)
        OBVIOUS
      <4>2. QED
        BY <3>2, <4>1 DEF QueuesOK
    <3>3. QED
      BY <1>4, <3>1, <3>2 DEF Lost
  <2>2. written' \in [Streams -> Nat] /\ sent' \in [Streams -> SUBSET Nat]
    BY <1>4 DEF Lost, Grows, QueuesOK
  <2>3. QED
    BY <2>1, <2>2 DEF QueuesOK
<1>5. ASSUME NEW s \in Sessions, NEW n \in Nat, Out(s, n) PROVE QueuesOK'
  <2> DEFINE q == queue[s]
             l == SubSeq(q, n + 1, Len(q))
  <2>1. q \in Seq(Streams \X Nat) /\ n \in 0 .. Len(q) /\ Len(q) <= MaxQueue
    BY <1>5 DEF QueuesOK, Out
  <2>2. Len(q) \in Nat
    BY <2>1
  <2>3. SubSeq(q, 1, n) \in Seq(Streams \X Nat) /\ l \in Seq(Streams \X Nat) /\ Len(l) = Len(q) - n
    BY <2>1, CutAt
  <2>4. SubSeq(q, 1, n) \in Seq(Streams \X Nat) /\ l \in Seq(Streams \X Nat) /\ Len(l) <= Len(q)
    BY <2>1, <2>2, <2>3
  <2>5. sent' \in [Streams -> SUBSET Nat]
    BY <1>5, <2>4, BytesOf, SendKeeps DEF Out
  <2>6. Len(l) <= MaxQueue
    BY <2>1, <2>4
  <2>7. queue' = [queue EXCEPT ![s] = l]
    BY <1>5 DEF Out
  <2>8. QED
    BY <1>5, <2>4, <2>5, <2>6, <2>7 DEF Out, QueuesOK
<1>6. QED
  BY <1>1, <1>2, <1>3, <1>4, <1>5, Effects DEF Effect

(* At first, no queue holds anything.                                       *)
LEMMA InitTypes == Init => TypeOK
<1> SUFFICES ASSUME Init PROVE TypeOK
  OBVIOUS
<1>1. BucketsOK
  <2>1. \A s \in Sessions : OwnLimit[s] \in Nat /\ 0 <= OwnLimit[s]
    BY LimiterAssumption
  <2>2. QED
    BY <2>1 DEF Init, BucketsOK
<1>2. SetsOK
  BY DEF Init, SetsOK
<1>3. <<>> \in Seq(Streams \X Nat) /\ Len(<<>>) <= MaxQueue
  BY LimiterAssumption
<1>4. QueuesOK
  BY <1>3 DEF Init, QueuesOK
<1>5. QED
  BY <1>1, <1>4, <1>2, TypeParts

(* The parts of the limiter keep their types, the buckets stay within their  *)
(* limits, however the total cap is changed, and no queue passes the ceiling.*)
THEOREM LimiterTypes == Spec => []TypeOK
<1>1. TypeOK /\ [Next]_vars => TypeOK'
  BY TypeParts, BucketsStep, QueuesStep, SetsStep DEF TypeOK, BucketsOK, QueuesOK, SetsOK
<1>2. QED
  BY InitTypes, <1>1, PTL DEF Spec

-----------------------------------------------------------------------------
(* The bytes of a stream.                                                    *)

\* A queue holds the bytes of its session's streams only.
OwnBytes == \A s \in Sessions : \A i \in 1 .. Len(queue[s]) : SessionOf[queue[s][i][1]] = s

\* Byte k of stream t is in the queue q.
Queued(q, t, k) == \E i \in 1 .. Len(q) : q[i][1] = t /\ q[i][2] = k

\* The books of one stream: w bytes were given, S are sent and q is the queue.
Balanced(t, w, S, q) ==
    /\ \A i \in 1 .. Len(q) : q[i][1] = t => q[i][2] \in 1 .. w /\ q[i][2] \notin S
    /\ \A i, j \in 1 .. Len(q) :
          q[i][1] = t /\ q[j][1] = t /\ i < j => q[i][2] < q[j][2]
    /\ S \subseteq 1 .. w
    /\ \A k \in 1 .. w : k \in S \/ Queued(q, t, k)

Books ==
    \A t \in Streams : SessionOf[t] \notin overflowed =>
        Balanced(t, written[t], sent[t], queue[SessionOf[t]])

\* An ended stream has nothing in the queue.
Sealed ==
    \A t \in ended : SessionOf[t] \notin overflowed => t \notin Waiting(queue[SessionOf[t]])

Bytewise == OwnBytes /\ Books /\ Sealed /\ BlockedHasBytes

(* One sequence behind another.                                              *)
LEMMA Joined ==
  ASSUME NEW a \in Seq(Streams \X Nat), NEW b \in Seq(Streams \X Nat)
  PROVE  /\ a \o b \in Seq(Streams \X Nat)
         /\ Len(a) \in Nat /\ Len(a \o b) = Len(a) + Len(b)
         /\ \A i \in 1 .. Len(a) : (a \o b)[i] = a[i]
         /\ \A i \in 1 .. Len(b) : (a \o b)[Len(a) + i] = b[i]
  OBVIOUS

\* p is q with the n bytes of t behind it that follow its byte w.
Longer(p, q, t, n, w) ==
    /\ p \in Seq(Streams \X Nat) /\ Len(p) = Len(q) + n /\ Len(q) \in Nat
    /\ \A i \in 1 .. Len(q) : p[i] = q[i]
    /\ \A i \in Len(q) + 1 .. Len(q) + n : p[i] = <<t, w + (i - Len(q))>>

(* The bytes given are the next ones: behind a queue they keep its order.    *)
LEMMA Behind ==
  ASSUME QueuesOK, NEW t \in Streams, NEW n \in Nat, NEW q \in Seq(Streams \X Nat),
         NEW p, p = q \o NextBytes(t, n)
  PROVE  Longer(p, q, t, n, written[t])
<1> DEFINE e == NextBytes(t, n)
<1>1. e \in Seq(Streams \X Nat) /\ Len(e) = n
  BY NextBytesAre
<1>2. \A i \in 1 .. n : e[i] = <<t, written[t] + i>>
  BY NextBytesAre
<1>3. p = q \o e
  OBVIOUS
<1> HIDE DEF e
<1>4. p \in Seq(Streams \X Nat) /\ Len(p) = Len(q) + n /\ Len(q) \in Nat
  BY <1>1, <1>3, Joined
<1>5. \A i \in 1 .. Len(q) : p[i] = q[i]
  BY <1>1, <1>3, Joined
<1>6. \A i \in 1 .. n : p[Len(q) + i] = e[i]
  BY <1>1, <1>3, Joined
<1>7. ASSUME NEW i \in Len(q) + 1 .. Len(q) + n
      PROVE  p[i] = <<t, written[t] + (i - Len(q))>>
  <2>1. i - Len(q) \in 1 .. n /\ Len(q) + (i - Len(q)) = i
    BY <1>4
  <2>2. QED
    BY <1>2, <1>6, <2>1
<1>8. QED
  BY <1>1, <1>4, <1>5, <1>7 DEF Longer

(* Written through: the bytes given are sent, ahead of those in the queue.   *)
LEMMA BalancedPassed ==
  ASSUME NEW t \in Streams, NEW w \in Nat, NEW n \in Nat, NEW S \in SUBSET Nat,
         NEW q \in Seq(Streams \X Nat), Balanced(t, w, S, q), NEW T,
         \A k : k \in T <=> k \in S \/ k \in w + 1 .. w + n
  PROVE  Balanced(t, w + n, T, q)
<1>1. \A i \in 1 .. Len(q) : q[i][1] = t => q[i][2] \in 1 .. w + n /\ q[i][2] \notin T
  BY DEF Balanced
<1>2. T \subseteq 1 .. w + n
  <2>1. ASSUME NEW k \in S PROVE k \in 1 .. w + n
    <3>1. k \in 1 .. w
      BY DEF Balanced
    <3>2. QED
      BY <3>1
  <2>2. \A k \in w + 1 .. w + n : k \in 1 .. w + n
    OBVIOUS
  <2>3. QED
    BY <2>1, <2>2
<1>3. \A k \in 1 .. w + n : k \in T \/ Queued(q, t, k)
  BY DEF Balanced
<1>4. QED
  BY <1>1, <1>2, <1>3 DEF Balanced

(* Queued: the bytes given are the last ones in the queue.                   *)
LEMMA BalancedHeld ==
  ASSUME NEW t \in Streams, NEW w \in Nat, NEW n \in Nat, NEW S \in SUBSET Nat,
         NEW q \in Seq(Streams \X Nat), Balanced(t, w, S, q),
         NEW p \in Seq(Streams \X Nat), Len(p) = Len(q) + n,
         \A i \in 1 .. Len(q) : p[i] = q[i],
         \A i \in Len(q) + 1 .. Len(q) + n : p[i] = <<t, w + (i - Len(q))>>
  PROVE  Balanced(t, w + n, S, p)
<1> DEFINE m == Len(q)
<1>1. m \in Nat
  OBVIOUS
<1>2. \A i \in 1 .. Len(p) : i \in 1 .. m \/ i \in m + 1 .. m + n
  BY <1>1
<1>3. \A i \in 1 .. m : q[i][1] = t => q[i][2] \in 1 .. w /\ q[i][2] \notin S
  BY DEF Balanced
<1>4. \A i \in m + 1 .. m + n : p[i][1] = t /\ p[i][2] = w + (i - m)
  OBVIOUS
<1>5. S \subseteq 1 .. w
  BY DEF Balanced
<1> HIDE DEF m
<1>6. ASSUME NEW i \in 1 .. Len(p), p[i][1] = t
      PROVE  p[i][2] \in 1 .. w + n /\ p[i][2] \notin S
  <2>1. CASE i \in 1 .. m
    <3>1. p[i] = q[i]
      BY <2>1 DEF m
    <3>2. q[i][2] \in 1 .. w /\ q[i][2] \notin S
      BY <1>3, <1>6, <2>1, <3>1
    <3>3. QED
      BY <3>1, <3>2
  <2>2. CASE i \in m + 1 .. m + n
    BY <1>1, <1>4, <1>5, <2>2
  <2>3. QED
    BY <1>2, <2>1, <2>2
<1>7. ASSUME NEW i \in 1 .. Len(p), NEW j \in 1 .. Len(p), p[i][1] = t, p[j][1] = t, i < j
      PROVE  p[i][2] < p[j][2]
  <2>1. CASE j \in 1 .. m
    <3>1. i \in 1 .. m
      BY <1>1, <1>7, <2>1
    <3>2. QED
      BY <1>7, <2>1, <3>1 DEF m, Balanced
  <2>2. CASE i \in 1 .. m /\ j \in m + 1 .. m + n
    <3>1. p[i][2] \in 1 .. w
      BY <1>3, <1>7, <2>2 DEF m
    <3>2. QED
      BY <1>1, <1>4, <2>2, <3>1
  <2>3. CASE i \in m + 1 .. m + n /\ j \in m + 1 .. m + n
    BY <1>1, <1>4, <1>7, <2>3
  <2>4. QED
    BY <1>1, <1>2, <1>7, <2>1, <2>2, <2>3
<1>8. ASSUME NEW k \in 1 .. w + n PROVE k \in S \/ Queued(p, t, k)
  <2>1. CASE k \in 1 .. w
    <3>1. ASSUME NEW i \in 1 .. m, q[i][1] = t, q[i][2] = k PROVE Queued(p, t, k)
      <4>1. i \in 1 .. Len(p) /\ p[i] = q[i]
        BY <1>1 DEF m
      <4>2. QED
        BY <3>1, <4>1 DEF Queued
    <3>2. QED
      BY <2>1, <3>1 DEF Balanced, Queued, m
  <2>2. CASE k \in w + 1 .. w + n
    <3>1. m + (k - w) \in m + 1 .. m + n /\ m + (k - w) \in 1 .. Len(p)
      BY <1>1, <2>2 DEF m
    <3>2. p[m + (k - w)][1] = t /\ p[m + (k - w)][2] = k
      BY <1>1, <1>4, <2>2, <3>1
    <3>3. QED
      BY <3>1, <3>2 DEF Queued
  <2>3. QED
    BY <2>1, <2>2
<1>9. S \subseteq 1 .. w + n
  BY <1>5
<1>10. QED
  BY <1>6, <1>7, <1>8, <1>9 DEF Balanced

(* Sent: the first bytes of the queue leave it.                              *)
LEMMA BalancedOut ==
  ASSUME NEW t \in Streams, NEW w \in Nat, NEW S \in SUBSET Nat,
         NEW q \in Seq(Streams \X Nat), NEW n \in 0 .. Len(q), Balanced(t, w, S, q),
         NEW T, \A k : k \in T <=> k \in S \/ Queued(SubSeq(q, 1, n), t, k)
  PROVE  Balanced(t, w, T, SubSeq(q, n + 1, Len(q)))
<1> DEFINE l == SubSeq(q, n + 1, Len(q))
           o == SubSeq(q, 1, n)
           m == Len(q)
<1>1. m \in Nat /\ n \in Nat /\ n <= m
  OBVIOUS
<1>2. Len(l) = m - n /\ \A i \in 1 .. m - n : l[i] = q[n + i]
  BY CutAt
<1>3. Len(o) = n /\ \A i \in 1 .. n : o[i] = q[i]
  BY CutAt
<1> HIDE DEF l, o
<1>4. \A i \in 1 .. m - n : n + i \in 1 .. m
  BY <1>1
<1>5. \A k : Queued(o, t, k) <=> \E i \in 1 .. n : q[i][1] = t /\ q[i][2] = k
  BY <1>3 DEF Queued
<1>6. ASSUME NEW i \in 1 .. Len(l), l[i][1] = t
      PROVE  l[i][2] \in 1 .. w /\ l[i][2] \notin T
  <2>1. i \in 1 .. m - n /\ n + i \in 1 .. m /\ l[i] = q[n + i]
    BY <1>2, <1>4
  <2>2. q[n + i][2] \in 1 .. w /\ q[n + i][2] \notin S
    BY <1>6, <2>1 DEF Balanced
  <2>3. ASSUME NEW j \in 1 .. n, q[j][1] = t PROVE q[j][2] # q[n + i][2]
    <3>1. j \in 1 .. m /\ j < n + i
      BY <1>1, <2>1
    <3>2. q[j][2] < q[n + i][2]
      BY <1>6, <2>1, <2>3, <3>1 DEF Balanced
    <3>3. q[n + i][2] \in Nat /\ q[j][2] \in Nat
      BY <2>1, <3>1
    <3>4. QED
      BY <3>2, <3>3
  <2>4. ~Queued(o, t, q[n + i][2])
    BY <1>5, <2>3
  <2>5. QED
    BY <2>1, <2>2, <2>4 DEF o
<1>7. ASSUME NEW i \in 1 .. Len(l), NEW j \in 1 .. Len(l), l[i][1] = t, l[j][1] = t, i < j
      PROVE  l[i][2] < l[j][2]
  <2>1. /\ n + i \in 1 .. m /\ l[i] = q[n + i]
        /\ n + j \in 1 .. m /\ l[j] = q[n + j]
    BY <1>2, <1>4
  <2>2. n + i < n + j
    BY <1>1, <1>2, <1>7
  <2>3. QED
    BY <1>7, <2>1, <2>2 DEF Balanced
<1>8. T \subseteq 1 .. w
  <2>1. \A k : Queued(o, t, k) => k \in 1 .. w
    BY <1>1, <1>5 DEF Balanced
  <2>2. QED
    BY <2>1 DEF Balanced, o
<1>9. ASSUME NEW k \in 1 .. w PROVE k \in T \/ Queued(l, t, k)
  <2>1. CASE k \in S
    BY <2>1
  <2>2. ASSUME NEW i \in 1 .. m, q[i][1] = t, q[i][2] = k PROVE k \in T \/ Queued(l, t, k)
    <3>1. CASE i \in 1 .. n
      BY <1>5, <2>2, <3>1 DEF o
    <3>2. CASE i \in n + 1 .. m
      <4>1. i - n \in 1 .. m - n /\ n + (i - n) = i
        BY <1>1, <3>2
      <4>2. i - n \in 1 .. Len(l) /\ l[i - n] = q[i]
        BY <1>2, <4>1
      <4>3. QED
        BY <2>2, <4>2 DEF Queued
    <3>3. QED
      BY <1>1, <3>1, <3>2
  <2>3. QED
    BY <2>1, <2>2 DEF Balanced, Queued
<1>10. QED
  BY <1>6, <1>7, <1>8, <1>9 DEF Balanced, l

-----------------------------------------------------------------------------
(* Bytes written through.                                                    *)
LEMMA PassedStep ==
  ASSUME QueuesOK, Bytewise, NEW t \in Streams, NEW n \in Nat, Passed(t, n)
  PROVE  Bytewise'
<1> USE LimiterAssumption
<1> DEFINE e == NextBytes(t, n)
<1>1. e \in Seq(Streams \X Nat) /\ Len(e) = n /\ written[t] \in Nat
  BY NextBytesAre DEF QueuesOK
<1>2. written[t] \in Nat
  BY <1>1
<1>3. \A i \in 1 .. n : e[i] = <<t, written[t] + i>>
  BY NextBytesAre
<1>4. Bytes(e) \subseteq Streams \X Nat /\ \A b : b \in Bytes(e) <=> \E i \in 1 .. Len(e) : e[i] = b
  BY <1>1, BytesOf
<1>5. Send(Bytes(e))
  BY <1>1 DEF Passed
<1> HIDE DEF e
<1>6. \A u \in Streams : \A k : k \in sent'[u] <=> k \in sent[u] \/ <<u, k>> \in Bytes(e)
  BY <1>4, <1>5, SendKeeps
<1>7. \A u \in Streams : \A k : <<u, k>> \in Bytes(e) <=> u = t /\ k \in written[t] + 1 .. written[t] + n
  <2>1. ASSUME NEW u \in Streams, NEW k, <<u, k>> \in Bytes(e)
        PROVE  u = t /\ k \in written[t] + 1 .. written[t] + n
    <3>1. PICK i \in 1 .. n : e[i] = <<u, k>>
      BY <1>1, <1>4, <2>1
    <3>2. <<u, k>> = <<t, written[t] + i>>
      BY <1>3, <3>1
    <3>3. u = t /\ k = written[t] + i
      BY <3>2
    <3>4. QED
      BY <1>2, <3>3
  <2>2. ASSUME NEW k \in written[t] + 1 .. written[t] + n PROVE <<t, k>> \in Bytes(e)
    <3>1. k - written[t] \in 1 .. n /\ written[t] + (k - written[t]) = k
      BY <1>2
    <3>2. e[k - written[t]] = <<t, k>>
      BY <1>3, <3>1
    <3>3. QED
      BY <1>1, <1>4, <3>1, <3>2
  <2>3. QED
    BY <2>1, <2>2
<1>8. Books'
  <2> SUFFICES ASSUME NEW u \in Streams, SessionOf[u] \notin overflowed'
               PROVE  Balanced(u, written'[u], sent'[u], queue'[SessionOf[u]])
    BY DEF Books
  <2>1. /\ written[u] \in Nat /\ sent[u] \in SUBSET Nat
        /\ queue[SessionOf[u]] \in Seq(Streams \X Nat)
        /\ queue'[SessionOf[u]] = queue[SessionOf[u]]
        /\ Balanced(u, written[u], sent[u], queue[SessionOf[u]])
    BY DEF Passed, Bytewise, Books, QueuesOK
  <2>2. CASE u = t
    <3>1. written'[u] = written[u] + n
      BY <2>2 DEF Passed, Grows, QueuesOK
    <3>2. \A k : k \in sent'[u] <=> k \in sent[u] \/ k \in written[u] + 1 .. written[u] + n
      BY <1>6, <1>7, <2>2
    <3>3. \A T : (\A k : k \in T <=> k \in sent[u] \/ k \in written[u] + 1 .. written[u] + n)
              => Balanced(u, written[u] + n, T, queue[SessionOf[u]])
      BY <2>1, BalancedPassed
    <3>4. QED
      BY <2>1, <3>1, <3>2, <3>3
  <2>3. CASE u # t
    <3>1. written'[u] = written[u]
      BY <2>3 DEF Passed, Grows, QueuesOK
    <3>2. sent'[u] = sent[u]
      <4>1. \A k : k \in sent'[u] <=> k \in sent[u]
        BY <1>6, <1>7, <2>3
      <4>2. QED
        BY <4>1
    <3>3. QED
      BY <2>1, <3>1, <3>2
  <2>4. QED
    BY <2>2, <2>3
<1>9. OwnBytes' /\ Sealed' /\ BlockedHasBytes'
  BY DEF Passed, Bytewise, OwnBytes, Sealed, BlockedHasBytes
<1>10. QED
  BY <1>8, <1>9 DEF Bytewise

(* Bytes queued.                                                             *)
LEMMA HeldStep ==
  ASSUME QueuesOK, SetsOK, Bytewise, NEW t \in Streams, NEW n \in Nat, Held(t, n)
  PROVE  Bytewise'
<1> USE LimiterAssumption
<1> DEFINE s == SessionOf[t]
           q == queue[s]
           p == q \o NextBytes(t, n)
<1>1. s \in Sessions /\ q \in Seq(Streams \X Nat) /\ written[t] \in Nat
  BY DEF QueuesOK
<1>2. p = q \o NextBytes(t, n)
  OBVIOUS
<1> HIDE DEF p, q, s
<1>3. /\ p \in Seq(Streams \X Nat) /\ Len(p) = Len(q) + n /\ Len(q) \in Nat
      /\ \A i \in 1 .. Len(q) : p[i] = q[i]
      /\ \A i \in Len(q) + 1 .. Len(q) + n : p[i] = <<t, written[t] + (i - Len(q))>>
  <2>1. Longer(p, q, t, n, written[t])
    BY <1>1, <1>2, Behind
  <2>2. QED
    BY <2>1 DEF Longer
<1>4. queue' = [queue EXCEPT ![s] = p]
  BY DEF Held, p, q, s
<1> USE DEF q, s
<1>5. queue'[s] = p /\ \A r \in Sessions : r # s => queue'[r] = queue[r]
  BY <1>1, <1>4 DEF QueuesOK
<1>6. \A i \in 1 .. Len(p) : i \in 1 .. Len(q) \/ i \in Len(q) + 1 .. Len(q) + n
  BY <1>3
<1>7. \A i \in Len(q) + 1 .. Len(q) + n : p[i][1] = t
  <2> SUFFICES ASSUME NEW i \in Len(q) + 1 .. Len(q) + n PROVE p[i][1] = t
    OBVIOUS
  <2>1. p[i] = <<t, written[t] + (i - Len(q))>>
    BY <1>3
  <2>2. QED
    BY <2>1
<1>8. OwnBytes'
  <2> SUFFICES ASSUME NEW r \in Sessions, NEW i \in 1 .. Len(queue'[r])
               PROVE  SessionOf[queue'[r][i][1]] = r
    BY DEF OwnBytes
  <2>1. CASE r # s
    BY <1>5, <2>1 DEF Bytewise, OwnBytes
  <2>2. CASE r = s
    <3>1. queue'[r] = p /\ i \in 1 .. Len(p)
      BY <1>5, <2>2
    <3>2. CASE i \in 1 .. Len(q)
      <4>1. p[i] = queue[s][i] /\ i \in 1 .. Len(queue[s])
        BY <1>3, <3>2
      <4>2. SessionOf[queue[s][i][1]] = s
        BY <1>1, <4>1 DEF Bytewise, OwnBytes
      <4>3. QED
        BY <2>2, <3>1, <4>1, <4>2
    <3>3. CASE i \in Len(q) + 1 .. Len(q) + n
      BY <1>7, <2>2, <3>1, <3>3
    <3>4. QED
      BY <1>6, <3>1, <3>2, <3>3
  <2>3. QED
    BY <2>1, <2>2
<1>9. Books'
  <2> SUFFICES ASSUME NEW u \in Streams, SessionOf[u] \notin overflowed'
               PROVE  Balanced(u, written'[u], sent'[u], queue'[SessionOf[u]])
    BY DEF Books
  <2>1. /\ written[u] \in Nat /\ sent[u] \in SUBSET Nat /\ sent'[u] = sent[u]
        /\ Balanced(u, written[u], sent[u], queue[SessionOf[u]])
    BY DEF Held, Bytewise, Books, QueuesOK
  <2>2. CASE u = t
    <3>1. written'[u] = written[u] + n
      BY <2>2 DEF Held, Grows, QueuesOK
    <3>2. Balanced(u, written[u] + n, sent[u], p)
      BY <1>1, <1>3, <2>1, <2>2, BalancedHeld
    <3>3. QED
      BY <1>5, <2>1, <2>2, <3>1, <3>2
  <2>3. CASE u # t /\ SessionOf[u] = s
    <3>1. written'[u] = written[u] /\ queue'[SessionOf[u]] = p
      BY <1>5, <2>3 DEF Held, Grows, QueuesOK
    <3>2. \A i \in 1 .. Len(p) : p[i][1] = u => i \in 1 .. Len(q)
      BY <1>6, <1>7, <2>3
    <3>3. \A i \in 1 .. Len(q) : i \in 1 .. Len(p) /\ p[i] = q[i]
      BY <1>3
    <3>4. Balanced(u, written[u], sent[u], q)
      BY <2>1, <2>3
    <3>5. \A k : Queued(q, u, k) => Queued(p, u, k)
      BY <3>3 DEF Queued
    <3>6. Balanced(u, written[u], sent[u], p)
      BY <3>2, <3>3, <3>4, <3>5 DEF Balanced
    <3>7. QED
      BY <2>1, <3>1, <3>6
  <2>4. CASE SessionOf[u] # s
    <3>1. written'[u] = written[u] /\ queue'[SessionOf[u]] = queue[SessionOf[u]]
      BY <1>5, <2>4 DEF Held, Grows, QueuesOK
    <3>2. QED
      BY <2>1, <3>1
  <2>5. QED
    BY <2>2, <2>3, <2>4
<1>10. \A u : u \in Waiting(p) <=> (u \in Waiting(q) \/ (u = t /\ n # 0))
  <2>1. \A u : u \in Waiting(p) <=> \E i \in 1 .. Len(p) : p[i][1] = u
    BY <1>3, BytesOf
  <2>2. \A u : u \in Waiting(q) <=> \E i \in 1 .. Len(q) : q[i][1] = u
    BY <1>1, BytesOf
  <2>3. ASSUME NEW u, u \in Waiting(p) PROVE u \in Waiting(q) \/ (u = t /\ n # 0)
    <3>1. PICK i \in 1 .. Len(p) : p[i][1] = u
      BY <2>1, <2>3
    <3>2. CASE i \in 1 .. Len(q)
      BY <1>3, <2>2, <3>1, <3>2
    <3>3. CASE i \in Len(q) + 1 .. Len(q) + n
      <4>1. n # 0
        BY <1>3, <3>3
      <4>2. QED
        BY <1>7, <3>1, <3>3, <4>1
    <3>4. QED
      BY <1>6, <3>1, <3>2, <3>3
  <2>4. ASSUME NEW u, u \in Waiting(q) PROVE u \in Waiting(p)
    <3>1. PICK i \in 1 .. Len(q) : q[i][1] = u
      BY <2>2, <2>4
    <3>2. i \in 1 .. Len(p) /\ p[i] = q[i]
      BY <1>3
    <3>3. QED
      BY <2>1, <3>1, <3>2
  <2>5. ASSUME n # 0 PROVE t \in Waiting(p)
    <3>1. Len(q) + 1 \in Len(q) + 1 .. Len(q) + n /\ Len(q) + 1 \in 1 .. Len(p)
      BY <1>3, <2>5
    <3>2. p[Len(q) + 1] = <<t, written[t] + ((Len(q) + 1) - Len(q))>>
      BY <1>3, <3>1
    <3>3. QED
      BY <2>1, <3>1, <3>2
  <2>6. QED
    BY <2>3, <2>4, <2>5
<1>11. Sealed'
  <2> SUFFICES ASSUME NEW u \in ended', SessionOf[u] \notin overflowed'
               PROVE  u \notin Waiting(queue'[SessionOf[u]])
    BY DEF Sealed
  <2>1. u \in Streams /\ u # t /\ u \notin Waiting(queue[SessionOf[u]])
    BY DEF Held, Grows, SetsOK, Bytewise, Sealed
  <2>2. QED
    BY <1>5, <1>10, <2>1
<1>12. BlockedHasBytes'
  <2> SUFFICES ASSUME NEW u \in blocked', SessionOf[u] \notin overflowed'
               PROVE  u \in Waiting(queue'[SessionOf[u]])
    BY DEF BlockedHasBytes
  <2>1. u = t \/ (u \in Streams /\ u \in Waiting(queue[SessionOf[u]]))
    BY DEF Held, SetsOK, Bytewise, BlockedHasBytes
  <2>2. n # 0
    BY DEF Held, Grows
  <2>3. QED
    BY <1>5, <1>10, <2>1, <2>2
<1>13. QED
  BY <1>8, <1>9, <1>11, <1>12 DEF Bytewise

(* Bytes given to an overflowed session.                                     *)
LEMMA LostStep ==
  ASSUME QueuesOK, SetsOK, Bytewise, NEW t \in Streams, NEW n \in Nat, Lost(t, n)
  PROVE  Bytewise'
<1> USE LimiterAssumption
<1> DEFINE s == SessionOf[t]
<1>1. s \in Sessions /\ s \in overflowed' /\ overflowed \subseteq overflowed'
  BY DEF Lost
<1>2. \A r \in Sessions : r # s => queue'[r] = queue[r]
  BY <1>1 DEF Lost, QueuesOK
<1>3. queue'[s] = queue[s] \/ queue'[s] = <<>>
  BY <1>1 DEF Lost, QueuesOK
<1>4. OwnBytes'
  BY <1>2, <1>3 DEF Bytewise, OwnBytes
<1>5. \A u \in Streams : SessionOf[u] \notin overflowed' =>
          /\ SessionOf[u] \in Sessions /\ SessionOf[u] \notin overflowed
          /\ queue'[SessionOf[u]] = queue[SessionOf[u]]
          /\ written'[u] = written[u] /\ sent'[u] = sent[u]
          /\ u \in ended' => u \in ended
  BY <1>1, <1>2 DEF Lost, Grows, QueuesOK, StreamsOf
<1>6. Books'
  BY <1>5 DEF Bytewise, Books
<1>7. ended' \subseteq Streams /\ blocked' \subseteq blocked /\ blocked \subseteq Streams
  BY DEF Lost, SetsOK, StreamsOf
<1>8. Sealed' /\ BlockedHasBytes'
  BY <1>5, <1>7 DEF Bytewise, Sealed, BlockedHasBytes
<1>9. QED
  BY <1>4, <1>6, <1>8 DEF Bytewise

(* Bytes that leave the queue.                                               *)
LEMMA OutStep ==
  ASSUME QueuesOK, SetsOK, Bytewise, NEW s \in Sessions, NEW n \in Nat, Out(s, n)
  PROVE  Bytewise'
<1> USE LimiterAssumption
<1> DEFINE q == queue[s]
           o == SubSeq(q, 1, n)
           l == SubSeq(q, n + 1, Len(q))
<1>1. q \in Seq(Streams \X Nat) /\ n \in 0 .. Len(q) /\ Len(q) \in Nat
  BY DEF QueuesOK, Out
<1>2. /\ o \in Seq(Streams \X Nat) /\ Len(o) = n /\ \A i \in 1 .. n : o[i] = q[i]
      /\ l \in Seq(Streams \X Nat) /\ Len(l) = Len(q) - n
      /\ \A i \in 1 .. Len(q) - n : l[i] = q[n + i]
  BY <1>1, CutAt
<1>3. /\ queue' = [queue EXCEPT ![s] = l] /\ Send(Bytes(o))
      /\ blocked' = blocked \ (Waiting(o) \ Waiting(l))
      /\ ended' \subseteq ended \cup (IF n = Len(q) THEN StreamsOf(s) ELSE {})
      /\ UNCHANGED <<written, overflowed>>
  BY DEF Out
<1>4. \A i \in 1 .. n : i \in 1 .. Len(q)
  BY <1>1
<1>5. \A i \in 1 .. Len(q) - n : n + i \in 1 .. Len(q)
  BY <1>1
<1> HIDE DEF o, l
<1>6. o \in Seq(Streams \X Nat) /\ Len(o) = n
  BY <1>2
<1>7. /\ Bytes(o) \subseteq Streams \X Nat
      /\ \A b : b \in Bytes(o) <=> \E i \in 1 .. n : o[i] = b
  BY <1>6, BytesOf
<1>8. \A u : u \in Waiting(o) <=> \E i \in 1 .. n : o[i][1] = u
  BY <1>6, BytesOf
<1>9. \A u : u \in Waiting(l) <=> \E i \in 1 .. Len(q) - n : l[i][1] = u
  <2>1. \A u : u \in Waiting(l) <=> \E i \in 1 .. Len(l) : l[i][1] = u
    BY <1>2, BytesOf
  <2>2. QED
    BY <1>2, <2>1
<1>10. \A u : u \in Waiting(q) <=> \E i \in 1 .. Len(q) : q[i][1] = u
  BY <1>1, BytesOf
<1>11. queue'[s] = l /\ \A r \in Sessions : r # s => queue'[r] = queue[r]
  BY <1>3 DEF QueuesOK
<1>12. \A u \in Streams : \A k : k \in sent'[u] <=> k \in sent[u] \/ <<u, k>> \in Bytes(o)
  BY <1>3, <1>7, SendKeeps
<1>13. \A u, k : <<u, k>> \in Bytes(o) <=> Queued(o, u, k)
  <2>1. \A i \in 1 .. n : o[i] = <<o[i][1], o[i][2]>>
    <3>1. \A i \in 1 .. n : o[i] \in Streams \X Nat
      BY <1>6
    <3>2. QED
      BY <3>1
  <2>2. QED
    <3>1. ASSUME NEW u, NEW k, <<u, k>> \in Bytes(o) PROVE Queued(o, u, k)
      <4>1. PICK i \in 1 .. n : o[i] = <<u, k>>
        BY <1>7, <3>1
      <4>2. QED
        BY <1>2, <4>1 DEF Queued
    <3>2. ASSUME NEW u, NEW k, Queued(o, u, k) PROVE <<u, k>> \in Bytes(o)
      <4>1. PICK i \in 1 .. n : o[i][1] = u /\ o[i][2] = k
        BY <1>2, <3>2 DEF Queued
      <4>2. QED
        BY <1>7, <2>1, <4>1
    <3>3. QED
      BY <3>1, <3>2
<1>14. \A i \in 1 .. Len(q) : SessionOf[q[i][1]] = s
  BY DEF Bytewise, OwnBytes
<1>15. OwnBytes'
  <2> SUFFICES ASSUME NEW r \in Sessions, NEW i \in 1 .. Len(queue'[r])
               PROVE  SessionOf[queue'[r][i][1]] = r
    BY DEF OwnBytes
  <2>1. CASE r # s
    BY <1>11, <2>1 DEF Bytewise, OwnBytes
  <2>2. CASE r = s
    <3>1. queue'[r] = l /\ i \in 1 .. Len(q) - n
      BY <1>2, <1>11, <2>2
    <3>2. l[i] = q[n + i] /\ n + i \in 1 .. Len(q)
      BY <1>2, <1>5, <3>1
    <3>3. QED
      BY <1>14, <2>2, <3>1, <3>2
  <2>3. QED
    BY <2>1, <2>2
<1>16. Books'
  <2> SUFFICES ASSUME NEW u \in Streams, SessionOf[u] \notin overflowed'
               PROVE  Balanced(u, written'[u], sent'[u], queue'[SessionOf[u]])
    BY DEF Books
  <2>1. /\ written[u] \in Nat /\ sent[u] \in SUBSET Nat /\ written'[u] = written[u]
        /\ Balanced(u, written[u], sent[u], queue[SessionOf[u]])
    BY <1>3 DEF Bytewise, Books, QueuesOK
  <2>2. CASE SessionOf[u] = s
    <3>1. \A k : k \in sent'[u] <=> k \in sent[u] \/ Queued(o, u, k)
      BY <1>12, <1>13
    <3>2. Balanced(u, written[u], sent'[u], l)
      BY <1>1, <2>1, <2>2, <3>1, BalancedOut DEF o, l
    <3>3. QED
      BY <1>11, <2>1, <2>2, <3>2
  <2>3. CASE SessionOf[u] # s
    <3>1. \A k : ~Queued(o, u, k)
      <4>1. \A i \in 1 .. n : SessionOf[o[i][1]] = s
        BY <1>2, <1>4, <1>14
      <4>2. QED
        BY <1>2, <2>3, <4>1 DEF Queued
    <3>2. \A k : k \in sent'[u] <=> k \in sent[u]
      BY <1>12, <1>13, <3>1
    <3>3. sent'[u] = sent[u]
      BY <3>2
    <3>4. QED
      BY <1>11, <2>1, <2>3, <3>3
  <2>4. QED
    BY <2>2, <2>3
<1>17. Waiting(l) \subseteq Waiting(q) /\ Waiting(q) \subseteq Waiting(o) \cup Waiting(l)
  <2>1. ASSUME NEW u \in Waiting(l) PROVE u \in Waiting(q)
    <3>1. PICK i \in 1 .. Len(q) - n : l[i][1] = u
      BY <1>9
    <3>2. n + i \in 1 .. Len(q) /\ q[n + i][1] = u
      BY <1>2, <1>5, <3>1
    <3>3. QED
      BY <1>10, <3>2
  <2>2. ASSUME NEW u \in Waiting(q) PROVE u \in Waiting(o) \cup Waiting(l)
    <3>1. PICK i \in 1 .. Len(q) : q[i][1] = u
      BY <1>10
    <3>2. CASE i \in 1 .. n
      BY <1>2, <1>8, <3>1, <3>2
    <3>3. CASE i \in n + 1 .. Len(q)
      <4>1. i - n \in 1 .. Len(q) - n /\ n + (i - n) = i
        BY <1>1, <3>3
      <4>2. l[i - n][1] = u
        BY <1>2, <3>1, <4>1
      <4>3. QED
        BY <1>9, <4>1, <4>2
    <3>4. QED
      BY <1>1, <3>2, <3>3
  <2>3. QED
    BY <2>1, <2>2
<1>18. Sealed'
  <2> SUFFICES ASSUME NEW u \in ended', SessionOf[u] \notin overflowed'
               PROVE  u \notin Waiting(queue'[SessionOf[u]])
    BY DEF Sealed
  <2>1. CASE u \in ended
    <3>1. u \in Streams /\ SessionOf[u] \in Sessions
      BY <2>1 DEF SetsOK
    <3>2. u \notin Waiting(queue[SessionOf[u]])
      BY <1>3, <2>1 DEF Bytewise, Sealed
    <3>3. QED
      BY <1>11, <1>17, <3>1, <3>2
  <2>2. CASE u \notin ended
    <3>1. n = Len(q) /\ SessionOf[u] = s
      BY <1>3, <2>2 DEF StreamsOf
    <3>2. Waiting(l) = {}
      BY <1>1, <1>9, <3>1
    <3>3. QED
      BY <1>11, <3>1, <3>2
  <2>3. QED
    BY <2>1, <2>2
<1>19. BlockedHasBytes'
  <2> SUFFICES ASSUME NEW u \in blocked', SessionOf[u] \notin overflowed'
               PROVE  u \in Waiting(queue'[SessionOf[u]])
    BY DEF BlockedHasBytes
  <2>1. u \in blocked /\ ~(u \in Waiting(o) /\ u \notin Waiting(l))
    BY <1>3
  <2>2. u \in Streams /\ SessionOf[u] \in Sessions /\ u \in Waiting(queue[SessionOf[u]])
    BY <1>3, <2>1 DEF SetsOK, Bytewise, BlockedHasBytes
  <2>3. QED
    BY <1>11, <1>17, <2>1, <2>2
<1>20. QED
  BY <1>15, <1>16, <1>18, <1>19 DEF Bytewise

(* Nothing moves.                                                           *)
LEMMA QuietStep ==
  ASSUME QueuesOK, SetsOK, Bytewise, Quiet
  PROVE  Bytewise'
<1> USE LimiterAssumption
<1>1. OwnBytes' /\ Books' /\ BlockedHasBytes'
  BY DEF Quiet, Bytewise, OwnBytes, Books, BlockedHasBytes
<1>2. Waiting(<<>>) = {}
  BY DEF Waiting, Bytes
<1>3. Sealed'
  BY <1>2 DEF Quiet, Bytewise, Sealed
<1>4. QED
  BY <1>1, <1>3 DEF Bytewise

(* At first, nothing was given.                                             *)
LEMMA BytewiseInit == Init => Bytewise
<1> SUFFICES ASSUME Init PROVE Bytewise
  OBVIOUS
<1>1. \A s \in Sessions : queue[s] = <<>>
  BY DEF Init
<1>2. OwnBytes
  BY <1>1 DEF OwnBytes
<1>3. \A t \in Streams : written[t] = 0 /\ sent[t] = {} /\ queue[SessionOf[t]] = <<>>
  BY LimiterAssumption DEF Init
<1>4. \A t \in Streams : Balanced(t, 0, {}, <<>>)
  BY DEF Balanced
<1>5. Books
  BY <1>3, <1>4 DEF Books
<1>6. QED
  BY <1>2, <1>5 DEF Bytewise, Sealed, BlockedHasBytes, Init

(* The books balance in every state.                                        *)
LEMMA BytewiseHolds == Spec => []Bytewise
<1>1. TypeOK /\ Bytewise /\ [Next]_vars => Bytewise'
  <2> SUFFICES ASSUME TypeOK, Bytewise, [Next]_vars PROVE Bytewise'
    OBVIOUS
  <2>1. Effect
    BY Effects
  <2>2. QueuesOK /\ SetsOK
    BY TypeParts
  <2>3. QED
    BY <2>1, <2>2, QuietStep, PassedStep, HeldStep, LostStep, OutStep DEF Effect
<1>2. QED
  BY <1>1, BytewiseInit, LimiterTypes, PTL DEF Spec

(* Every byte given to a stream of a session that has not overflowed is       *)
(* sent or waits in the queue, never both, and those that wait keep their     *)
(* order: whatever wrapStream lets through, queues, drains and flushes.       *)
THEOREM BytesAreAccounted == Spec => []BytesAccounted
<1>1. TypeOK /\ Bytewise => BytesAccounted
  <2> SUFFICES ASSUME TypeOK, Bytewise, NEW t \in Streams, SessionOf[t] \notin overflowed
               PROVE  LET q == queue[SessionOf[t]]
                          held == {i \in 1 .. Len(q) : q[i][1] = t}
                      IN /\ \A i \in held : q[i][2] \notin sent[t]
                         /\ \A i, j \in held : i < j => q[i][2] < q[j][2]
                         /\ sent[t] \cup {q[i][2] : i \in held} = 1 .. written[t]
    BY DEF BytesAccounted
  <2> DEFINE q == queue[SessionOf[t]]
             held == {i \in 1 .. Len(q) : q[i][1] = t}
  <2>1. Balanced(t, written[t], sent[t], q)
    BY DEF Bytewise, Books
  <2> HIDE DEF q
  <2>2. sent[t] \cup {q[i][2] : i \in held} \subseteq 1 .. written[t]
    BY <2>1 DEF Balanced
  <2>3. 1 .. written[t] \subseteq sent[t] \cup {q[i][2] : i \in held}
    BY <2>1 DEF Balanced, Queued
  <2>4. (\A i \in held : q[i][2] \notin sent[t]) /\ \A i, j \in held : i < j => q[i][2] < q[j][2]
    BY <2>1 DEF Balanced
  <2>5. QED
    BY <2>2, <2>3, <2>4 DEF q
<1>2. QED
  BY <1>1, BytewiseHolds, LimiterTypes, PTL

(* A stream is ended only when all it was given is on the wire, so that a     *)
(* capped download never looks complete when it is not.                       *)
THEOREM EndsAfterBytes == Spec => []NoTruncation
<1>1. TypeOK /\ Bytewise => NoTruncation
  <2> SUFFICES ASSUME TypeOK, Bytewise, NEW t \in ended, SessionOf[t] \notin overflowed,
                      NEW k \in 1 .. written[t]
               PROVE  k \in sent[t]
    BY DEF NoTruncation
  <2>1. t \in Streams /\ queue[SessionOf[t]] \in Seq(Streams \X Nat)
    BY LimiterAssumption DEF TypeOK
  <2>2. t \notin Waiting(queue[SessionOf[t]])
    BY DEF Bytewise, Sealed
  <2>3. ~Queued(queue[SessionOf[t]], t, k)
    BY <2>1, <2>2, BytesOf DEF Queued
  <2>4. QED
    BY <2>1, <2>3 DEF Bytewise, Books, Balanced
<1>2. QED
  BY <1>1, BytewiseHolds, LimiterTypes, PTL

(* A producer that was told to wait has bytes in the queue, so that the tick  *)
(* or the flush that sends them tells it to go on.                            *)
THEOREM BlockedWaitsForBytes == Spec => []BlockedHasBytes
<1>1. Bytewise => BlockedHasBytes
  BY DEF Bytewise
<1>2. QED
  BY <1>1, BytewiseHolds, PTL

-----------------------------------------------------------------------------
(* Tickers.                                                                  *)

\* A running session with a cap, or with something held back, has a ticker.
Ticks ==
    \A s \in Sessions :
        /\ where[s] = "listed"
        /\ Capped(s) \/ queue[s] # <<>> \/ StreamsOf(s) \cap (paused \cup pendingEnds) # {}
        => s \in ticking

(* A flush leaves nothing behind, and touches no other session.              *)
LEMMA FlushClears ==
  ASSUME QueuesOK, NEW s \in Sessions, NEW q, Flush(s, q)
  PROVE  /\ queue'[s] = <<>> /\ StreamsOf(s) \cap (paused' \cup pendingEnds') = {}
         /\ \A r \in Sessions : r # s =>
               /\ queue'[r] = queue[r] /\ (r \in ticking' <=> r \in ticking)
               /\ StreamsOf(r) \cap (paused' \cup pendingEnds')
                     = StreamsOf(r) \cap (paused \cup pendingEnds)
  BY DEF Flush, QueuesOK, StreamsOf

(* Who caps, holds or pauses in a running session has set its ticker.        *)
LEMMA TicksStep == TypeOK /\ Ticks /\ [Next]_vars => Ticks'
  <1> SUFFICES ASSUME TypeOK, Ticks, [Next]_vars PROVE Ticks'
    OBVIOUS
  <1> USE LimiterAssumption, TypeParts DEF outside, Capped
  <1>1. ASSUME NEW t \in Streams, NEW n \in 1 .. MaxChunk, WriteThrough(t, n) PROVE Ticks'
    BY <1>1 DEF WriteThrough, Ticks
  <1>2. ASSUME NEW t \in Streams, NEW n \in 1 .. MaxChunk, WriteQueued(t, n) PROVE Ticks'
    <2>1. SessionOf[t] \in Sessions /\ Capped(SessionOf[t])
      BY <1>2 DEF WriteQueued, Excess
    <2>2. \A r \in Sessions : r # SessionOf[t] => queue'[r] = queue[r]
      BY <1>2 DEF WriteQueued, QueuesOK
    <2>3. QED
      BY <1>2, <2>1, <2>2 DEF WriteQueued, Ticks
  <1>3. ASSUME NEW t \in Streams, NEW n \in 1 .. MaxChunk, WriteOverflows(t, n) PROVE Ticks'
    <2> DEFINE s == SessionOf[t]
    <2>1. s \in Sessions
      OBVIOUS
    <2>2. CASE InMap(s)
      <3>1. Flush(s, <<>>) /\ where' = [where EXCEPT ![s] = "dropped"] /\ UNCHANGED gLimit
        BY <1>3, <2>2 DEF WriteOverflows
      <3>2. where'[s] # "listed" /\ \A r \in Sessions : r # s => where'[r] = where[r]
        BY <2>1, <3>1 DEF SetsOK
      <3>3. QED
        BY <2>1, <3>1, <3>2, FlushClears DEF Ticks
    <2>3. CASE ~InMap(s)
      <3>1. where[s] # "listed"
        BY <2>3 DEF InMap
      <3>2. \A r \in Sessions : r # s => queue'[r] = queue[r]
        BY <1>3, <2>1, <2>3 DEF WriteOverflows, QueuesOK
      <3>3. UNCHANGED <<where, ticking, paused, pendingEnds, gLimit>>
        BY <1>3, <2>3 DEF WriteOverflows
      <3>4. QED
        BY <3>1, <3>2, <3>3 DEF Ticks
    <2>4. QED
      BY <2>2, <2>3
  <1>4. ASSUME NEW t \in Streams, NEW n \in 1 .. MaxChunk, WriteDiscarded(t, n) PROVE Ticks'
    BY <1>4 DEF WriteDiscarded, Ticks
  <1>5. ASSUME NEW t \in Streams, NEW n \in 1 .. MaxChunk, ReadFits(t, n) PROVE Ticks'
    BY <1>5 DEF ReadFits, Ticks
  <1>6. ASSUME NEW t \in Streams, NEW n \in 1 .. MaxChunk, ReadExceeds(t, n) PROVE Ticks'
    <2>1. \A r \in Sessions : r # SessionOf[t] =>
              StreamsOf(r) \cap (paused' \cup pendingEnds) = StreamsOf(r) \cap (paused \cup pendingEnds)
      BY <1>6 DEF ReadExceeds, StreamsOf
    <2>2. QED
      BY <1>6, <2>1 DEF ReadExceeds, Ticks
  <1>7. ASSUME NEW t \in Streams, End(t) PROVE Ticks'
    <2>1. \A r \in Sessions : r # SessionOf[t] =>
              StreamsOf(r) \cap (paused \cup pendingEnds') = StreamsOf(r) \cap (paused \cup pendingEnds)
      BY <1>7 DEF End, StreamsOf
    <2>2. pendingEnds' = pendingEnds \/ queue[SessionOf[t]] # <<>>
      BY <1>7 DEF End
    <2>3. QED
      BY <1>7, <2>1, <2>2 DEF End, Ticks
  <1>8. ASSUME NEW t \in Streams, CloseStream(t) PROVE Ticks'
    BY <1>8 DEF CloseStream, Ticks
  <1>9. ASSUME NEW s \in Sessions, TickEnds(s) PROVE Ticks'
    <2>1. Flush(s, queue[s]) /\ UNCHANGED <<where, gLimit>> /\ ~(InMap(s) /\ Capped(s))
      BY <1>9 DEF TickEnds
    <2>2. where[s] = "listed" => ~Capped(s)
      BY <2>1 DEF InMap
    <2>3. QED
      BY <2>1, <2>2, FlushClears DEF Ticks
  <1>10. ASSUME NEW s \in Sessions, NEW r \in 0 .. OwnLimit[s], Tick(s, r) PROVE Ticks'
    <2>1. s \in ticking /\ UNCHANGED <<where, ticking, gLimit>>
      BY <1>10 DEF Tick, Due
    <2>2. \A r_1 \in Sessions : r_1 # s => queue'[r_1] = queue[r_1]
      BY <1>10 DEF Tick, QueuesOK
    <2>3. paused' \subseteq paused /\ pendingEnds' \subseteq pendingEnds
      BY <1>10 DEF Tick
    <2>4. QED
      BY <2>1, <2>2, <2>3 DEF Ticks
  <1>11. ASSUME NEW r \in Refills(GlobalLimits), GlobalTick(r) PROVE Ticks'
    BY <1>11 DEF GlobalTick, Ticks
  <1>12. ASSUME NEW g \in GlobalLimits, setGlobalLimit(g) PROVE Ticks'
    BY <1>12 DEF setGlobalLimit, Ticks, InMap
  <1>13. ASSUME NEW s \in Sessions, Register(s) PROVE Ticks'
    <2>1. \A r \in Sessions : r # s => where'[r] = where[r]
      BY <1>13 DEF Register, SetsOK
    <2>2. QED
      BY <1>13, <2>1 DEF Register, Ticks
  <1>14. ASSUME NEW s \in Sessions, StopAsked(s) PROVE Ticks'
    <2>1. Flush(s, queue[s]) /\ where' = [where EXCEPT ![s] = "stopping"] /\ UNCHANGED gLimit
      BY <1>14 DEF StopAsked, Leave
    <2>2. where'[s] # "listed" /\ \A r \in Sessions : r # s => where'[r] = where[r]
      BY <2>1 DEF SetsOK
    <2>3. QED
      BY <2>1, <2>2, FlushClears DEF Ticks
  <1>15. ASSUME NEW s \in Sessions, Dropped(s) PROVE Ticks'
    <2>1. Flush(s, queue[s]) /\ where' = [where EXCEPT ![s] = "dropped"] /\ UNCHANGED gLimit
      BY <1>15 DEF Dropped, Leave
    <2>2. where'[s] # "listed" /\ \A r \in Sessions : r # s => where'[r] = where[r]
      BY <2>1 DEF SetsOK
    <2>3. QED
      BY <2>1, <2>2, FlushClears DEF Ticks
  <1>16. ASSUME NEW s \in Sessions, Closed(s) PROVE Ticks'
    <2>1. where'[s] # "listed" /\ \A r \in Sessions : r # s => where'[r] = where[r]
      BY <1>16 DEF Closed, SetsOK
    <2>2. QED
      BY <1>16, <2>1 DEF Closed, Ticks
  <1>17. CASE UNCHANGED vars
    BY <1>17 DEF vars, Ticks
  <1>18. QED
    BY <1>1, <1>2, <1>3, <1>4, <1>5, <1>6, <1>7, <1>8, <1>9, <1>10, <1>11, <1>12,
       <1>13, <1>14, <1>15, <1>16, <1>17, NextCases

(* What a cap holds back in a running session, a queued byte, a paused stream *)
(* or a held end, has a ticker to release it, also when the total cap is set   *)
(* or cleared in between.                                                      *)
THEOREM TickerIsSet == Spec => []HeldHasTicker
<1>1. Init => Ticks
  BY DEF Init, Ticks
<1>2. Spec => []Ticks
  BY <1>1, TicksStep, LimiterTypes, PTL DEF Spec
<1>3. Ticks => HeldHasTicker
  BY DEF Ticks, HeldHasTicker
<1>4. QED
  BY <1>2, <1>3, PTL

-----------------------------------------------------------------------------
(* The overshoot.                                                            *)

\* The streams of s that will not be read before the next tick.
Halted(s) == (paused \cup closed) \cap StreamsOf(s)

\* What s moved and may still move is covered by its limit and by one chunk of
\* each stream that was halted for it.
Covered(s) == moved[s] + tokens[s] <= OwnLimit[s] + MaxChunk * Cardinality(Halted(s))

CapKept ==
    \A s \in Sessions : OwnLimit[s] > 0 =>
        /\ where[s] = "new" => moved[s] = 0 /\ tokens[s] = 0
        /\ where[s] = "listed" => Covered(s)

(* More streams, more chunks.                                               *)
LEMMA ChunksGrow ==
  ASSUME NEW B \in SUBSET Streams, NEW A \in SUBSET B
  PROVE  /\ Cardinality(A) \in Nat /\ Cardinality(B) \in Nat
         /\ MaxChunk * Cardinality(A) <= MaxChunk * Cardinality(B)
         /\ MaxChunk * Cardinality(A) \in Nat /\ MaxChunk * Cardinality(B) \in Nat
<1>1. IsFiniteSet(B) /\ IsFiniteSet(A)
  BY LimiterAssumption, FS_Subset
<1>2. Cardinality(A) \in Nat /\ Cardinality(B) \in Nat /\ Cardinality(A) <= Cardinality(B)
  BY <1>1, FS_Subset, FS_CardinalityType
<1>3. MaxChunk \in Nat
  BY LimiterAssumption
<1>4. \A a, b, c \in Nat : a <= b => c * a <= c * b /\ c * a \in Nat /\ c * b \in Nat
  OBVIOUS
<1>5. QED
  BY <1>2, <1>3, <1>4

(* One stream more is one chunk more.                                       *)
LEMMA OneMore ==
  ASSUME NEW A \in SUBSET Streams, NEW t \in Streams, t \notin A
  PROVE  /\ MaxChunk * Cardinality(A \cup {t}) = MaxChunk * Cardinality(A) + MaxChunk
         /\ MaxChunk * Cardinality(A) \in Nat
<1>1. IsFiniteSet(A)
  BY LimiterAssumption, FS_Subset
<1>2. Cardinality(A) \in Nat /\ Cardinality(A \cup {t}) = Cardinality(A) + 1
  BY <1>1, FS_AddElement, FS_CardinalityType
<1>3. MaxChunk \in Nat
  BY LimiterAssumption
<1>4. \A a, c \in Nat : c * (a + 1) = c * a + c /\ c * a \in Nat
  OBVIOUS
<1>5. QED
  BY <1>2, <1>3, <1>4

(* A session that moved no more than it paid for and resumed no stream.       *)
LEMMA CoveredKeeps ==
  ASSUME TypeOK, TypeOK', NEW s \in Sessions, Covered(s),
         moved'[s] + tokens'[s] <= moved[s] + tokens[s],
         Halted(s) \subseteq (Halted(s))'
  PROVE  Covered(s)'
<1> DEFINE A == Halted(s)
           B == (Halted(s))'
<1>1. B \in SUBSET Streams /\ A \in SUBSET B
  BY DEF Halted, StreamsOf
<1>2. /\ MaxChunk * Cardinality(A) <= MaxChunk * Cardinality(B)
      /\ MaxChunk * Cardinality(A) \in Nat /\ MaxChunk * Cardinality(B) \in Nat
  BY <1>1, ChunksGrow
<1>3. /\ moved[s] \in Nat /\ tokens[s] \in Nat /\ moved'[s] \in Nat /\ tokens'[s] \in Nat
      /\ OwnLimit[s] \in Nat
  BY LimiterAssumption DEF TypeOK
<1>4. \A a, b, c \in Nat : \A x, y, z, w \in Nat :
          a + b <= c + x /\ z + w <= a + b /\ x <= y => z + w <= c + y
  OBVIOUS
<1>5. moved[s] + tokens[s] <= OwnLimit[s] + MaxChunk * Cardinality(A)
  BY DEF Covered
<1>6. moved'[s] + tokens'[s] <= OwnLimit[s] + MaxChunk * Cardinality(B)
  BY <1>2, <1>3, <1>4, <1>5
<1>7. QED
  BY <1>6 DEF Covered

\* A step that leaves the account of every session as it is, or lighter.
Easy ==
    \A s \in Sessions : OwnLimit[s] > 0 =>
        /\ where'[s] = "new" => where[s] = "new" /\ moved'[s] = moved[s] /\ tokens'[s] = tokens[s]
        /\ where'[s] = "listed" /\ where[s] = "listed" =>
              /\ moved'[s] + tokens'[s] <= moved[s] + tokens[s]
              /\ Halted(s) \subseteq (Halted(s))'
        /\ where'[s] = "listed" => where[s] = "listed"

(* Such a step keeps every session covered.                                 *)
LEMMA EasyStep ==
  ASSUME TypeOK, TypeOK', CapKept, Easy
  PROVE  CapKept'
<1> SUFFICES ASSUME NEW s \in Sessions, OwnLimit[s] > 0
             PROVE  /\ where'[s] = "new" => moved'[s] = 0 /\ tokens'[s] = 0
                    /\ where'[s] = "listed" => Covered(s)'
  BY DEF CapKept
<1>1. where'[s] = "new" => moved'[s] = 0 /\ tokens'[s] = 0
  BY DEF Easy, CapKept
<1>2. ASSUME where'[s] = "listed" PROVE Covered(s)'
  <2>1. where[s] = "listed"
    BY <1>2 DEF Easy
  <2>2. moved'[s] + tokens'[s] <= moved[s] + tokens[s] /\ Halted(s) \subseteq (Halted(s))'
    BY <1>2, <2>1 DEF Easy
  <2>3. QED
    BY <2>1, <2>2, CoveredKeeps DEF CapKept
<1>3. QED
  BY <1>1, <1>2

(* Bytes the budget of s covers are charged to it, byte for byte.             *)
LEMMA PaidFor ==
  ASSUME TypeOK, NEW t \in Streams, NEW n \in Nat,
         Charge(SessionOf[t], tokens[SessionOf[t]], n), Count(SessionOf[t], n),
         n <= Budget(SessionOf[t], tokens[SessionOf[t]])
  PROVE  /\ \A r \in Sessions : r # SessionOf[t] => moved'[r] = moved[r] /\ tokens'[r] = tokens[r]
         /\ OwnLimit[SessionOf[t]] > 0 /\ where[SessionOf[t]] = "listed"
               => moved'[SessionOf[t]] + tokens'[SessionOf[t]]
                     = moved[SessionOf[t]] + tokens[SessionOf[t]]
<1> DEFINE s == SessionOf[t]
<1>1. s \in Sessions
  BY LimiterAssumption
<1>2. \A r \in Sessions : r # s => moved'[r] = moved[r] /\ tokens'[r] = tokens[r]
  BY DEF Charge, Count, TypeOK
<1>3. ASSUME OwnLimit[s] > 0, where[s] = "listed"
      PROVE  moved'[s] + tokens'[s] = moved[s] + tokens[s]
  <2>1. moved'[s] = moved[s] + n /\ tokens'[s] = tokens[s] - n
    BY <1>1, <1>3 DEF Charge, Count, TypeOK
  <2>2. moved[s] \in Nat /\ tokens[s] \in Nat
    BY <1>1 DEF TypeOK
  <2>3. QED
    BY <2>1, <2>2
<1>4. QED
  BY <1>2, <1>3

(* A flush of a session that is not running, or leaves, halts the same       *)
(* streams of all the others.                                                *)
LEMMA FlushHalts ==
  ASSUME NEW s \in Sessions, NEW q, Flush(s, q), UNCHANGED closed
  PROVE  \A r \in Sessions : r # s => Halted(r) = (Halted(r))'
  BY DEF Flush, Halted, StreamsOf

(* Only a read that exceeds the budget costs more than it pays, and it halts *)
(* its stream.                                                               *)
LEMMA CapStep == TypeOK /\ TypeOK' /\ CapKept /\ [Next]_vars => CapKept'
  <1> SUFFICES ASSUME TypeOK, TypeOK', CapKept, [Next]_vars PROVE CapKept'
    OBVIOUS
  <1> USE LimiterAssumption DEF outside
  <1>1. ASSUME NEW t \in Streams, NEW n \in 1 .. MaxChunk, WriteThrough(t, n) PROVE CapKept'
    <2>1. UNCHANGED <<where, paused, closed>> /\ n \in Nat
      BY <1>1 DEF WriteThrough
    <2>2. CASE Capped(SessionOf[t])
      <3>1. /\ Charge(SessionOf[t], tokens[SessionOf[t]], n) /\ Count(SessionOf[t], n)
            /\ n <= Budget(SessionOf[t], tokens[SessionOf[t]])
        BY <1>1, <2>2 DEF WriteThrough
      <3>2. where[SessionOf[t]] # "new"
        BY <1>1 DEF WriteThrough, Give, Usable
      <3>3. Easy
        BY <2>1, <3>1, <3>2, PaidFor, TypeParts DEF Easy, Halted, SetsOK, BucketsOK
      <3>4. QED
        BY <3>3, EasyStep
    <2>3. CASE ~Capped(SessionOf[t])
      <3>1. UNCHANGED tokens /\ Count(SessionOf[t], n) /\ OwnLimit[SessionOf[t]] = 0
        BY <1>1, <2>3 DEF WriteThrough, Capped
      <3>2. \A r \in Sessions : OwnLimit[r] > 0 => moved'[r] = moved[r]
        BY <3>1, TypeParts DEF Count, BucketsOK
      <3>3. Easy
        BY <2>1, <3>1, <3>2, TypeParts DEF Easy, Halted, BucketsOK
      <3>4. QED
        BY <3>3, EasyStep
    <2>4. QED
      BY <2>2, <2>3
  <1>2. ASSUME NEW t \in Streams, NEW n \in 1 .. MaxChunk, WriteQueued(t, n) PROVE CapKept'
    <2>1. Easy
      BY <1>2, TypeParts DEF WriteQueued, Easy, Halted, SetsOK, BucketsOK
    <2>2. QED
      BY <2>1, EasyStep
  <1>3. ASSUME NEW t \in Streams, NEW n \in 1 .. MaxChunk, WriteOverflows(t, n) PROVE CapKept'
    <2> DEFINE s == SessionOf[t]
    <2>1. UNCHANGED <<tokens, moved, closed>> /\ s \in Sessions
      BY <1>3 DEF WriteOverflows
    <2>2. CASE InMap(s)
      <3>1. Flush(s, <<>>) /\ where' = [where EXCEPT ![s] = "dropped"]
        BY <1>3, <2>2 DEF WriteOverflows
      <3>2. Easy
        BY <2>1, <3>1, FlushHalts, TypeParts DEF Easy, SetsOK, BucketsOK
      <3>3. QED
        BY <3>2, EasyStep
    <2>3. CASE ~InMap(s)
      <3>1. UNCHANGED <<where, paused>>
        BY <1>3, <2>3 DEF WriteOverflows
      <3>2. Easy
        BY <2>1, <3>1, TypeParts DEF Easy, Halted, BucketsOK
      <3>3. QED
        BY <3>2, EasyStep
    <2>4. QED
      BY <2>2, <2>3
  <1>4. ASSUME NEW t \in Streams, NEW n \in 1 .. MaxChunk, WriteDiscarded(t, n) PROVE CapKept'
    <2>1. Easy
      BY <1>4, TypeParts DEF WriteDiscarded, Easy, Halted, SetsOK, BucketsOK
    <2>2. QED
      BY <2>1, EasyStep
  <1>5. ASSUME NEW t \in Streams, NEW n \in 1 .. MaxChunk, ReadFits(t, n) PROVE CapKept'
    <2>1. UNCHANGED <<where, paused, closed>> /\ n \in Nat
      BY <1>5 DEF ReadFits
    <2>2. /\ Charge(SessionOf[t], tokens[SessionOf[t]], n) /\ Count(SessionOf[t], n)
          /\ n <= Budget(SessionOf[t], tokens[SessionOf[t]])
      BY <1>5 DEF ReadFits
    <2>3. where[SessionOf[t]] # "new"
      BY <1>5 DEF ReadFits, Usable
    <2>4. Easy
      BY <2>1, <2>2, <2>3, PaidFor, TypeParts DEF Easy, Halted, SetsOK, BucketsOK
    <2>5. QED
      BY <2>4, EasyStep
  <1>6. ASSUME NEW t \in Streams, NEW n \in 1 .. MaxChunk, ReadExceeds(t, n) PROVE CapKept'
    <2> DEFINE s == SessionOf[t]
    <2>1. UNCHANGED <<where, tokens, closed>> /\ paused' = paused \cup {t} /\ n \in Nat
      BY <1>6 DEF ReadExceeds
    <2>2. s \in Sessions /\ t \notin Halted(s) /\ where[s] # "new"
      BY <1>6 DEF ReadExceeds, Usable, Halted
    <2>3. (Halted(s))' = Halted(s) \cup {t} /\ Halted(s) \in SUBSET Streams
      BY <2>1 DEF Halted, StreamsOf
    <2>4. \A r \in Sessions : r # s => (Halted(r))' = Halted(r)
      BY <2>1 DEF Halted, StreamsOf
    <2>5. \A r \in Sessions : r # s => moved'[r] = moved[r]
      BY <1>6, TypeParts DEF ReadExceeds, Count, BucketsOK
    <2>6. moved[s] \in Nat /\ tokens[s] \in Nat /\ OwnLimit[s] \in Nat /\ MaxChunk \in Nat /\ n <= MaxChunk
      BY <2>2, TypeParts DEF BucketsOK
    <2>7. moved'[s] <= moved[s] + n /\ moved'[s] \in Nat
      BY <1>6, <2>1, <2>2, <2>6, TypeParts DEF ReadExceeds, Count, BucketsOK
    <2>8. /\ MaxChunk * Cardinality((Halted(s))') = MaxChunk * Cardinality(Halted(s)) + MaxChunk
          /\ MaxChunk * Cardinality(Halted(s)) \in Nat
      BY <2>2, <2>3, OneMore
    <2>9. ASSUME Covered(s) PROVE Covered(s)'
      <3>1. moved[s] + tokens[s] <= OwnLimit[s] + MaxChunk * Cardinality(Halted(s))
        BY <2>9 DEF Covered
      <3>2. moved'[s] + tokens[s] <= OwnLimit[s] + (MaxChunk * Cardinality(Halted(s)) + MaxChunk)
        BY <2>1, <2>6, <2>7, <2>8, <3>1
      <3>3. moved'[s] + tokens'[s] <= OwnLimit[s] + MaxChunk * Cardinality((Halted(s))')
        BY <2>1, <2>8, <3>2
      <3>4. QED
        BY <3>3 DEF Covered
    <2>10. \A r \in Sessions : r # s => (Covered(r) => Covered(r)')
      BY <2>1, <2>4, <2>5 DEF Covered
    <2>11. QED
      BY <2>1, <2>2, <2>5, <2>9, <2>10 DEF CapKept
  <1>7. ASSUME NEW t \in Streams, End(t) PROVE CapKept'
    <2>1. Easy
      BY <1>7, TypeParts DEF End, Easy, Halted, SetsOK, BucketsOK
    <2>2. QED
      BY <2>1, EasyStep
  <1>8. ASSUME NEW t \in Streams, CloseStream(t) PROVE CapKept'
    <2>1. Easy
      BY <1>8, TypeParts DEF CloseStream, Easy, Halted, SetsOK, BucketsOK
    <2>2. QED
      BY <2>1, EasyStep
  <1>9. ASSUME NEW s \in Sessions, TickEnds(s) PROVE CapKept'
    <2>1. Flush(s, queue[s]) /\ UNCHANGED <<where, tokens, moved, closed>> /\ ~(InMap(s) /\ Capped(s))
      BY <1>9 DEF TickEnds
    <2>2. OwnLimit[s] > 0 => where[s] # "listed"
      BY <2>1 DEF InMap, Capped
    <2>3. Easy
      BY <2>1, <2>2, FlushHalts, TypeParts DEF Easy, BucketsOK
    <2>4. QED
      BY <2>3, EasyStep
  <1>10. ASSUME NEW s \in Sessions, NEW r \in 0 .. OwnLimit[s], Tick(s, r) PROVE CapKept'
    <2> DEFINE own == Refilled(s, r)
               n   == Drained(s, own)
    <2>1. own \in Nat /\ own <= OwnLimit[s] /\ OwnLimit[s] \in Nat
      BY RefillBounds
    <2>2. n \in Nat /\ n <= Budget(s, own)
      <3>1. n \in 0 .. Len(queue[s]) /\ n <= Budget(s, own)
        BY <2>1, DrainBounds
      <3>2. QED
        BY <3>1, TypeParts DEF QueuesOK
    <2>3. OwnLimit[s] > 0 => n <= own
      BY <2>1, <2>2, BudgetBounds, TypeParts
    <2>4. /\ Charge(s, own, n) /\ UNCHANGED <<where, closed>>
          /\ moved' = [moved EXCEPT ![s] = IF OwnLimit[s] > 0 THEN n ELSE moved[s]]
      BY <1>10 DEF Tick
    <2>5. \A u \in Sessions : u # s => moved'[u] = moved[u] /\ tokens'[u] = tokens[u]
      BY <2>4, TypeParts DEF Charge, BucketsOK
    <2>6. \A u \in Sessions : u # s => (Halted(u))' = Halted(u)
      BY <1>10 DEF Tick, Halted, StreamsOf
    <2>7. ASSUME OwnLimit[s] > 0 PROVE Covered(s)'
      <3>1. moved'[s] = n /\ tokens'[s] = own - n
        BY <2>4, <2>7, TypeParts DEF Charge, BucketsOK
      <3>2. moved'[s] + tokens'[s] <= OwnLimit[s]
        BY <2>1, <2>2, <2>3, <2>7, <3>1
      <3>3. MaxChunk * Cardinality((Halted(s))') \in Nat
        <4>1. (Halted(s))' \in SUBSET Streams
          BY DEF Halted, StreamsOf
        <4>2. QED
          BY <4>1, ChunksGrow
      <3>4. moved'[s] + tokens'[s] \in Nat
        BY <2>1, <2>2, <2>3, <2>7, <3>1
      <3>5. QED
        BY <2>1, <3>2, <3>3, <3>4 DEF Covered
    <2>8. where[s] # "new"
      BY <1>10 DEF Tick, InMap
    <2>9. \A u \in Sessions : u # s => (Covered(u) => Covered(u)')
      BY <2>5, <2>6 DEF Covered
    <2>10. QED
      BY <2>4, <2>5, <2>7, <2>8, <2>9 DEF CapKept
  <1>11. ASSUME NEW r \in Refills(GlobalLimits), GlobalTick(r) PROVE CapKept'
    <2>1. Easy
      BY <1>11, TypeParts DEF GlobalTick, Easy, Halted, SetsOK, BucketsOK
    <2>2. QED
      BY <2>1, EasyStep
  <1>12. ASSUME NEW g \in GlobalLimits, setGlobalLimit(g) PROVE CapKept'
    <2>1. Easy
      BY <1>12, TypeParts DEF setGlobalLimit, Easy, Halted, SetsOK, BucketsOK
    <2>2. QED
      BY <2>1, EasyStep
  <1>13. ASSUME NEW s \in Sessions, Register(s) PROVE CapKept'
    <2>1. where' = [where EXCEPT ![s] = "listed"] /\ where[s] = "new"
      BY <1>13 DEF Register
    <2>2. UNCHANGED <<tokens, moved, paused, closed>>
      BY <1>13 DEF Register
    <2>3. \A r \in Sessions : r # s => where'[r] = where[r] /\ (Covered(r) => Covered(r)')
      BY <2>1, <2>2, TypeParts DEF SetsOK, Covered, Halted
    <2>4. ASSUME OwnLimit[s] > 0 PROVE Covered(s)'
      <3>1. moved'[s] = 0 /\ tokens'[s] = 0
        BY <2>1, <2>2, <2>4 DEF CapKept
      <3>2. MaxChunk * Cardinality((Halted(s))') \in Nat
        <4>1. (Halted(s))' \in SUBSET Streams
          BY DEF Halted, StreamsOf
        <4>2. QED
          BY <4>1, ChunksGrow
      <3>3. OwnLimit[s] \in Nat
        OBVIOUS
      <3>4. QED
        BY <3>1, <3>2, <3>3 DEF Covered
    <2>5. where'[s] = "listed"
      BY <2>1, TypeParts DEF SetsOK
    <2>6. QED
      BY <2>2, <2>3, <2>4, <2>5 DEF CapKept
  <1>14. ASSUME NEW s \in Sessions, StopAsked(s) PROVE CapKept'
    <2>1. UNCHANGED <<tokens, moved>>
      BY <1>14 DEF StopAsked, Leave
    <2>2. Flush(s, queue[s]) /\ UNCHANGED closed
      BY <1>14 DEF StopAsked, Leave
    <2>3. where' = [where EXCEPT ![s] = "stopping"]
      BY <1>14 DEF StopAsked, Leave
    <2>4. Easy
      BY <2>1, <2>2, <2>3, FlushHalts, TypeParts DEF Easy, SetsOK, BucketsOK
    <2>5. QED
      BY <2>4, EasyStep
  <1>15. ASSUME NEW s \in Sessions, Dropped(s) PROVE CapKept'
    <2>1. UNCHANGED <<tokens, moved>>
      BY <1>15 DEF Dropped, Leave
    <2>2. Flush(s, queue[s]) /\ UNCHANGED closed
      BY <1>15 DEF Dropped, Leave
    <2>3. where' = [where EXCEPT ![s] = "dropped"]
      BY <1>15 DEF Dropped, Leave
    <2>4. Easy
      BY <2>1, <2>2, <2>3, FlushHalts, TypeParts DEF Easy, SetsOK, BucketsOK
    <2>5. QED
      BY <2>4, EasyStep
  <1>16. ASSUME NEW s \in Sessions, Closed(s) PROVE CapKept'
    <2>1. where' = [where EXCEPT ![s] = "closed"] /\ UNCHANGED <<tokens, moved, paused, closed>>
      BY <1>16 DEF Closed
    <2>2. Easy
      BY <2>1, TypeParts DEF Easy, Halted, SetsOK, BucketsOK
    <2>3. QED
      BY <2>2, EasyStep
  <1>17. CASE UNCHANGED vars
    BY <1>17 DEF vars, CapKept, Covered, Halted
  <1>18. QED
    BY <1>1, <1>2, <1>3, <1>4, <1>5, <1>6, <1>7, <1>8, <1>9, <1>10, <1>11, <1>12,
       <1>13, <1>14, <1>15, <1>16, <1>17, NextCases

(* Between two ticks a running session moves at most one second's budget and   *)
(* one chunk more for each of its streams.                                     *)
THEOREM OvershootIsBounded == Spec => []OvershootBounded
<1>1. Init => CapKept
  BY DEF Init, CapKept
<1>2. Spec => []CapKept
  BY <1>1, CapStep, LimiterTypes, PTL DEF Spec
<1>3. TypeOK /\ CapKept => OvershootBounded
  <2> SUFFICES ASSUME TypeOK, CapKept, NEW s \in Sessions, where[s] = "listed", OwnLimit[s] > 0
               PROVE  moved[s] <= OwnLimit[s] + MaxChunk * Cardinality(StreamsOf(s))
    BY DEF OvershootBounded
  <2>1. StreamsOf(s) \in SUBSET Streams /\ Halted(s) \in SUBSET StreamsOf(s)
    BY DEF StreamsOf, Halted
  <2>2. /\ MaxChunk * Cardinality(Halted(s)) <= MaxChunk * Cardinality(StreamsOf(s))
        /\ MaxChunk * Cardinality(Halted(s)) \in Nat /\ MaxChunk * Cardinality(StreamsOf(s)) \in Nat
    BY <2>1, ChunksGrow
  <2>3. moved[s] \in Nat /\ tokens[s] \in Nat /\ OwnLimit[s] \in Nat
    BY LimiterAssumption DEF TypeOK
  <2>4. moved[s] + tokens[s] <= OwnLimit[s] + MaxChunk * Cardinality(Halted(s))
    BY DEF CapKept, Covered
  <2>5. QED
    BY <2>2, <2>3, <2>4
<1>4. QED
  BY <1>2, <1>3, LimiterTypes, PTL

=============================================================================
