-------------------------- MODULE FileServer_proof --------------------------
(***************************************************************************)
(* Proofs about FileServer, for any machines, limits and file sizes.       *)
(*                                                                         *)
(* The logins and the answers are apart: Logins is about the count of the  *)
(* failed ones, BodyTrue and PageTrue are about the request that is        *)
(* followed.  The failures of a client fall into the windows its entry of  *)
(* the table had one after the other; Windows keeps where they began.      *)
(***************************************************************************)
EXTENDS FileServer, FiniteSetTheorems, SequenceTheorems, TLAPS

(* What file() serves of a range is what the range names, with either end   *)
(* missing, beyond the file, a suffix of any length, or an empty file.      *)
LEMMA ServedIsNamed ==
  ASSUME NEW range \in Ranges, range.is, NEW size \in Nat
  PROVE  Served(range, size) = Named(range, size)
<1>1. /\ range.hasFrom \in BOOLEAN /\ range.hasTo \in BOOLEAN
      /\ range.from \in Nat /\ range.to \in Nat
  <2>1. range \in [is : {TRUE}, hasFrom : BOOLEAN, hasTo : BOOLEAN,
                   from : 0 .. MaxSize, to : 0 .. MaxSize + 1]
    <3>1. range # Whole
      BY DEF Whole
    <3>2. QED
      BY <3>1 DEF Ranges
  <2>2. MaxSize \in Nat
    BY FileServerAssumption
  <2>3. QED
    BY <2>1, <2>2
<1>2. CASE range.hasFrom /\ range.hasTo
  BY <1>1, <1>2 DEF Served, Named
<1>3. CASE range.hasFrom /\ ~range.hasTo
  BY <1>1, <1>3 DEF Served, Named
<1>4. CASE ~range.hasFrom /\ range.hasTo
  BY <1>1, <1>4 DEF Served, Named
<1>5. CASE ~range.hasFrom /\ ~range.hasTo
  BY <1>1, <1>5 DEF Served, Named
<1>6. QED
  BY <1>1, <1>2, <1>3, <1>4, <1>5
-----------------------------------------------------------------------------
(* Logins.  The table is finite, and at most one longer than its bound.     *)
Logins == LoginTypes /\ IsFiniteSet(DOMAIN failures) /\ TableBounded

(* The constants as numbers.                                                *)
LEMMA Numbers ==
  /\ MaxFails \in Nat \ {0} /\ Window \in Nat \ {0}
  /\ TableMax \in Nat /\ MaxTime \in Nat /\ MaxSize \in Nat /\ MaxChanges \in Nat
  BY FileServerAssumption

(* A client has the same name in both address families.                     *)
LEMMA OneName ==
  ASSUME NEW p \in Peers
  PROVE  clientAddress(p) \in Peers /\ ~clientAddress(p).mapped /\ p.host \in Hosts
  BY DEF Peers, clientAddress

(* Looking at a client only takes entries away.                             *)
LEMMA LookedIsPart ==
  ASSUME Logins, NEW i
  PROVE  /\ DOMAIN Looked(i) \subseteq DOMAIN failures
         /\ \A j \in DOMAIN Looked(i) : Looked(i)[j] = failures[j]
         /\ IsFiniteSet(DOMAIN Looked(i))
         /\ Cardinality(DOMAIN Looked(i)) \in Nat
         /\ Cardinality(DOMAIN Looked(i)) <= TableMax + 1
<1>1. /\ DOMAIN Looked(i) \subseteq DOMAIN failures
      /\ \A j \in DOMAIN Looked(i) : Looked(i)[j] = failures[j]
  BY DEF Looked, RestrictDomain, Restrict
<1>2. /\ IsFiniteSet(DOMAIN Looked(i))
      /\ Cardinality(DOMAIN Looked(i)) <= Cardinality(DOMAIN failures)
  BY <1>1, FS_Subset DEF Logins
<1>3. Cardinality(DOMAIN Looked(i)) \in Nat /\ Cardinality(DOMAIN failures) \in Nat
  BY <1>2, FS_CardinalityType DEF Logins
<1>4. QED
  BY <1>1, <1>2, <1>3, Numbers DEF Logins, TableBounded

(* A failure that is noted keeps the table within its bound.                *)
LEMMA NoteStep ==
  ASSUME Logins, NEW i \in Peers, ~i.mapped, Counted(i), ~throttled(i), noteFailure(i),
         now' = now
  PROVE  /\ \A j \in DOMAIN failures' :
               /\ j \in Peers /\ ~j.mapped /\ Counted(j)
               /\ failures'[j] \in [n : 1 .. MaxFails, until : 0 .. now + Window]
         /\ IsFiniteSet(DOMAIN failures') /\ TableBounded'
<1> DEFINE f    == Looked(i)
           old  == IF Full(i) THEN {} ELSE DOMAIN f
           mine == IF i \in DOMAIN f
                   THEN [f[i] EXCEPT !.n = @ + 1]
                   ELSE [n |-> 1, until |-> now + Window]
<1>1. failures' = [j \in old \cup {i} |-> IF j = i THEN mine ELSE f[j]]
  BY DEF noteFailure
<1>2. mine \in [n : 1 .. MaxFails, until : 0 .. now + Window]
  <2>1. CASE i \in DOMAIN f
    <3>1. f[i] \in [n : 1 .. MaxFails, until : 0 .. now + Window] /\ f[i].n < MaxFails
      <4>1. f[i] \in [n : 1 .. MaxFails, until : 0 .. now + Window]
        BY <2>1, LookedIsPart DEF Logins, LoginTypes
      <4>2. ~(f[i].n >= MaxFails)
        BY <2>1 DEF throttled
      <4>3. QED
        BY <4>1, <4>2, Numbers
    <3>2. QED
      BY <2>1, <3>1, Numbers
  <2>2. CASE i \notin DOMAIN f
    BY <2>2, Numbers DEF Logins, LoginTypes
  <2>3. QED
    BY <2>1, <2>2
<1>3. old \subseteq DOMAIN f /\ IsFiniteSet(old)
  BY LookedIsPart, FS_EmptySet
<1>4. /\ IsFiniteSet(old \cup {i})
      /\ Cardinality(old \cup {i}) = IF i \in old THEN Cardinality(old)
                                     ELSE Cardinality(old) + 1
  BY <1>3, FS_AddElement
<1>5. Cardinality(old \cup {i}) <= TableMax + 1
  <2>1. CASE Full(i)
    BY <2>1, <1>4, FS_EmptySet, Numbers
  <2>2. CASE ~Full(i) /\ i \in DOMAIN f
    BY <2>2, <1>4, LookedIsPart
  <2>3. CASE ~Full(i) /\ i \notin DOMAIN f
    <3>1. Cardinality(DOMAIN f) <= TableMax
      BY <2>3, LookedIsPart, Numbers DEF Full
    <3>2. QED
      BY <2>3, <3>1, <1>4, LookedIsPart, Numbers
  <2>4. QED
    BY <2>1, <2>2, <2>3
<1>6. DOMAIN failures' = old \cup {i}
  BY <1>1
<1>7. ASSUME NEW j \in old \cup {i}
      PROVE  /\ j \in Peers /\ ~j.mapped /\ Counted(j)
             /\ failures'[j] \in [n : 1 .. MaxFails, until : 0 .. now + Window]
  <2>1. CASE j = i
    BY <2>1, <1>1, <1>2
  <2>2. CASE j # i
    BY <2>2, <1>1, <1>3, LookedIsPart DEF Logins, LoginTypes
  <2>3. QED
    BY <2>1, <2>2
<1>8. QED
  BY <1>4, <1>5, <1>6, <1>7 DEF TableBounded

(* A refused login counts, or the client comes through the tunnel.          *)
LEMMA RefuseLogins ==
  ASSUME TypeOK, Logins, NEW p \in Peers, Refuse(p)
  PROVE  Logins'
<1> DEFINE i == clientAddress(p)
<1>1. i \in Peers /\ ~i.mapped /\ p.host \in Hosts
  BY OneName
<1>2. now' = now /\ now \in 0 .. MaxTime
  BY DEF Refuse, Logins, LoginTypes
<1>3. CASE Counted(i)
  <2>1. ~throttled(i) /\ noteFailure(i)
    BY <1>3 DEF Refuse, TurnedAway
  <2>2. /\ \A j \in DOMAIN failures' :
              /\ j \in Peers /\ ~j.mapped /\ Counted(j)
              /\ failures'[j] \in [n : 1 .. MaxFails, until : 0 .. now + Window]
        /\ IsFiniteSet(DOMAIN failures') /\ TableBounded'
    BY <1>1, <1>2, <1>3, <2>1, NoteStep
  <2>3. guesses' \in [Hosts -> Seq(0 .. now)]
    <3> DEFINE kept == IF Full(i) THEN [g \in Hosts |-> <<>>] ELSE guesses
    <3>1. kept \in [Hosts -> Seq(0 .. now)]
      BY DEF Logins, LoginTypes
    <3>2. guesses' = [kept EXCEPT ![p.host] = Append(@, now)]
      BY <1>3 DEF Refuse, Guessed
    <3> HIDE DEF kept
    <3>3. Append(kept[p.host], now) \in Seq(0 .. now)
      BY <1>1, <1>2, <3>1, Numbers
    <3>4. QED
      BY <1>1, <3>1, <3>2, <3>3
  <2>4. QED
    BY <1>2, <2>2, <2>3 DEF Logins, LoginTypes
<1>4. CASE ~Counted(i)
  BY <1>4 DEF Refuse, Logins, LoginTypes, TableBounded
<1>5. QED
  BY <1>3, <1>4

(* A login takes its client out of the table.                               *)
LEMMA AdmitLogins ==
  ASSUME TypeOK, Logins, NEW p \in Peers, Admit(p)
  PROVE  Logins'
<1> DEFINE i == clientAddress(p)
<1>1. now' = now /\ p.host \in Hosts
  BY OneName DEF Admit
<1>2. /\ DOMAIN failures' \subseteq DOMAIN failures
      /\ \A j \in DOMAIN failures' : failures'[j] = failures[j]
  BY DEF Admit, Forgive, Restrict
<1>3. IsFiniteSet(DOMAIN failures') /\ TableBounded'
  <2>1. /\ IsFiniteSet(DOMAIN failures')
        /\ Cardinality(DOMAIN failures') <= Cardinality(DOMAIN failures)
    BY <1>2, FS_Subset DEF Logins
  <2>2. Cardinality(DOMAIN failures') \in Nat /\ Cardinality(DOMAIN failures) \in Nat
    BY <2>1, FS_CardinalityType DEF Logins
  <2>3. QED
    BY <2>1, <2>2, Numbers DEF Logins, TableBounded
<1>4. guesses' \in [Hosts -> Seq(0 .. now)]
  BY <1>1 DEF Admit, Logins, LoginTypes
<1>5. QED
  BY <1>1, <1>2, <1>3, <1>4 DEF Logins, LoginTypes

(* No other step touches the table; the clock only goes on.                 *)
LEMMA LoginsStep ==
  TypeOK /\ Logins /\ [Next]_vars => Logins'
<1> SUFFICES ASSUME TypeOK, Logins, [Next]_vars PROVE Logins'
  OBVIOUS
<1>1. ASSUME NEW p \in Peers, TurnAway(p) PROVE Logins'
  BY <1>1 DEF TurnAway, Logins, LoginTypes, TableBounded
<1>2. ASSUME NEW p \in Peers, Refuse(p) PROVE Logins'
  BY <1>2, RefuseLogins
<1>3. ASSUME NEW p \in Peers, Admit(p) PROVE Logins'
  BY <1>3, AdmitLogins
<1>4. CASE Tick
  <2>1. /\ now' = now + 1 /\ now' \in 0 .. MaxTime /\ now \in Nat
        /\ failures' = failures /\ guesses' = guesses
    BY <1>4, Numbers DEF Tick, Logins, LoginTypes
  <2>2. Seq(0 .. now) \subseteq Seq(0 .. now')
    BY <2>1, SeqMonotonic
  <2>3. QED
    BY <2>1, <2>2, Numbers DEF Logins, LoginTypes, TableBounded
<1>5. CASE UNCHANGED <<now, failures, guesses>>
  BY <1>5 DEF Logins, LoginTypes, TableBounded
<1>6. QED
  BY <1>1, <1>2, <1>3, <1>4, <1>5 DEF Next, vars, RealPath, Stat, Open, Send, End, Break,
     ReadDir, Listed, Entry, Change, Gone, Going

-----------------------------------------------------------------------------
(* Windows.                                                                 *)

\* The indices of g at which a window began: a failure is within MaxFails of
\* the last one, and two of them are more than Window apart.
Starts(g, S) ==
    /\ S \subseteq DOMAIN g
    /\ \A k \in DOMAIN g : \E s \in S : k - MaxFails < s /\ s <= k
    /\ \A s, u \in S : s < u => g[u] > g[s] + Window

\* The entry e of the table is about the last window of g.
LastWindow(g, S, e) ==
    LET first == Len(g) - e.n + 1
    IN /\ first \in S
       /\ \A s \in S : s <= first
       /\ e.until = g[first] + Window

Ordered(g) == \A j, k \in DOMAIN g : j <= k => g[j] <= g[k]

Client(h) == [host |-> h, mapped |-> FALSE]

\* What the history g of the client i has to do with the table f.
OnRecord(g, i, f) ==
    /\ Ordered(g)
    /\ i \in DOMAIN f =>
          \E S \in SUBSET DOMAIN g : Starts(g, S) /\ LastWindow(g, S, f[i])
    /\ i \notin DOMAIN f => g = <<>>

Windows == \A h \in Hosts : OnRecord(guesses[h], Client(h), failures)

(* One more failure at the present instant.                                 *)
LEMMA OneMoreGuess ==
  ASSUME now \in Nat, NEW g \in Seq(0 .. now), Ordered(g)
  PROVE  /\ Append(g, now) \in Seq(0 .. now)
         /\ Len(Append(g, now)) = Len(g) + 1 /\ Len(g) \in Nat
         /\ DOMAIN g = 1 .. Len(g) /\ DOMAIN Append(g, now) = 1 .. Len(g) + 1
         /\ \A k \in 1 .. Len(g) : Append(g, now)[k] = g[k] /\ g[k] \in 0 .. now
         /\ Append(g, now)[Len(g) + 1] = now
         /\ Ordered(Append(g, now))
<1>1. /\ Append(g, now) \in Seq(0 .. now)
      /\ Len(Append(g, now)) = Len(g) + 1 /\ Len(g) \in Nat
      /\ DOMAIN g = 1 .. Len(g) /\ DOMAIN Append(g, now) = 1 .. Len(g) + 1
      /\ \A k \in 1 .. Len(g) : Append(g, now)[k] = g[k] /\ g[k] \in 0 .. now
      /\ Append(g, now)[Len(g) + 1] = now
  OBVIOUS
<1>2. QED
  BY <1>1 DEF Ordered

(* A failure within the window is counted by the entry.                     *)
LEMMA SameWindow ==
  ASSUME now \in Nat, NEW g \in Seq(0 .. now), Ordered(g),
         NEW S \in SUBSET DOMAIN g, Starts(g, S),
         NEW e \in [n : 1 .. MaxFails, until : Nat], e.n < MaxFails, LastWindow(g, S, e)
  PROVE  /\ S \in SUBSET DOMAIN Append(g, now)
         /\ Starts(Append(g, now), S)
         /\ LastWindow(Append(g, now), S, [e EXCEPT !.n = @ + 1])
<1> DEFINE b == Append(g, now)
           d == [e EXCEPT !.n = @ + 1]
<1>1. /\ Len(b) = Len(g) + 1 /\ Len(g) \in Nat
      /\ DOMAIN g = 1 .. Len(g) /\ DOMAIN b = 1 .. Len(g) + 1
      /\ \A k \in 1 .. Len(g) : b[k] = g[k]
  BY OneMoreGuess
<1>2. e.n \in Nat /\ e.n >= 1 /\ d.n = e.n + 1 /\ d.until = e.until
  BY Numbers
<1> HIDE DEF b, d
<1>3. Len(b) - d.n + 1 = Len(g) - e.n + 1 /\ Len(g) - e.n + 1 \in S
  BY <1>1, <1>2 DEF LastWindow
<1>4. LastWindow(b, S, d)
  BY <1>1, <1>2, <1>3 DEF LastWindow
<1>5. Starts(b, S)
  <2> DEFINE first == Len(g) - e.n + 1
  <2>1. first \in S /\ first \in Nat /\ first <= Len(g)
    BY <1>1, <1>2, <1>3
  <2>2. \A k \in DOMAIN g : \E s \in S : k - MaxFails < s /\ s <= k
    BY DEF Starts
  <2>3. ASSUME NEW k \in DOMAIN b PROVE \E s \in S : k - MaxFails < s /\ s <= k
    <3>1. CASE k \in DOMAIN g
      BY <2>2, <3>1, Zenon
    <3>2. CASE k = Len(g) + 1
      <4>1. k - MaxFails < first /\ first <= k
        BY <1>1, <1>2, <3>2, Numbers
      <4>2. QED
        BY <2>1, <4>1, Zenon
    <3>3. QED
      BY <1>1, <3>1, <3>2
  <2>4. \A s, u \in S : s < u => b[u] > b[s] + Window
    BY <1>1 DEF Starts
  <2>5. QED
    BY <1>1, <2>3, <2>4 DEF Starts
<1>6. QED
  BY <1>1, <1>4, <1>5 DEF b, d

(* A failure after the window begins the next one.                          *)
LEMMA NextWindow ==
  ASSUME now \in Nat, NEW g \in Seq(0 .. now), Ordered(g),
         NEW S \in SUBSET DOMAIN g, Starts(g, S),
         \A s \in S : g[s] + Window < now
  PROVE  LET b == Append(g, now) T == S \cup {Len(g) + 1} IN
         /\ T \in SUBSET DOMAIN b /\ Starts(b, T)
         /\ LastWindow(b, T, [n |-> 1, until |-> now + Window])
<1> DEFINE b == Append(g, now)
           T == S \cup {Len(g) + 1}
<1>1. /\ Len(b) = Len(g) + 1 /\ Len(g) \in Nat
      /\ DOMAIN g = 1 .. Len(g) /\ DOMAIN b = 1 .. Len(g) + 1
      /\ \A k \in 1 .. Len(g) : b[k] = g[k] /\ g[k] \in 0 .. now
      /\ b[Len(g) + 1] = now
  BY OneMoreGuess
<1> HIDE DEF b
<1>2. LastWindow(b, T, [n |-> 1, until |-> now + Window])
  BY <1>1, Numbers DEF LastWindow
<1>3. ASSUME NEW k \in DOMAIN b
      PROVE  \E s \in T : k - MaxFails < s /\ s <= k
  <2>1. CASE k \in DOMAIN g
    BY <2>1 DEF Starts
  <2>2. CASE k = Len(g) + 1
    BY <2>2, <1>1, Numbers
  <2>3. QED
    BY <1>1, <2>1, <2>2
<1>4. ASSUME NEW s \in T, NEW u \in T, s < u PROVE b[u] > b[s] + Window
  <2>1. s \in S /\ b[s] = g[s]
    BY <1>1, <1>4
  <2>2. CASE u \in S
    BY <1>1, <1>4, <2>1, <2>2 DEF Starts
  <2>3. CASE u = Len(g) + 1
    BY <1>1, <2>1, <2>3, Numbers
  <2>4. QED
    BY <2>2, <2>3
<1>5. QED
  BY <1>1, <1>2, <1>3, <1>4 DEF Starts, b

(* The history of a client that was not in the table begins with a window.  *)
LEMMA FirstWindow ==
  ASSUME now \in Nat
  PROVE  /\ Ordered(Append(<<>>, now)) /\ Append(<<>>, now) \in Seq(0 .. now)
         /\ {1} \in SUBSET DOMAIN Append(<<>>, now) /\ Starts(Append(<<>>, now), {1})
         /\ LastWindow(Append(<<>>, now), {1}, [n |-> 1, until |-> now + Window])
<1>1. <<>> \in Seq(0 .. now) /\ Ordered(<<>>) /\ Len(<<>>) = 0
      /\ DOMAIN <<>> = {}
  BY DEF Ordered
<1>2. Starts(<<>>, {})
  BY <1>1 DEF Starts
<1>3. LET b == Append(<<>>, now) T == {} \cup {Len(<<>>) + 1} IN
      /\ T \in SUBSET DOMAIN b /\ Starts(b, T)
      /\ LastWindow(b, T, [n |-> 1, until |-> now + Window])
  BY <1>1, <1>2, NextWindow
<1>4. {} \cup {Len(<<>>) + 1} = {1}
  BY <1>1
<1>5. QED
  BY <1>1, <1>3, <1>4, OneMoreGuess


(* The client of a host, and no other, has its name in the table.           *)
LEMMA OneClient ==
  ASSUME NEW p \in Peers
  PROVE  /\ clientAddress(p) = Client(p.host) /\ p.host \in Hosts
         /\ \A h \in Hosts : Client(h) \in Peers /\ (Client(h) = Client(p.host) => h = p.host)
<1> DEFINE q == clientAddress(p)
<1>1. q \in Peers /\ p.host \in Hosts /\ q.host = p.host /\ q.mapped = FALSE
  BY DEF Peers, clientAddress
<1> HIDE DEF q
<1>2. q = Client(p.host)
  <2>1. q = [host |-> q.host, mapped |-> q.mapped]
    BY <1>1 DEF Peers
  <2>2. QED
    BY <1>1, <2>1 DEF Client
<1>3. ASSUME NEW h \in Hosts
      PROVE  Client(h) \in Peers /\ (Client(h) = Client(p.host) => h = p.host)
  <2>1. Client(h).host = h /\ Client(p.host).host = p.host
    BY DEF Client
  <2>2. QED
    BY <2>1 DEF Client, Peers
<1>4. QED
  BY <1>1, <1>2, <1>3 DEF q

(* What looking at a client leaves in the table.                            *)
LEMMA LookedHas ==
  ASSUME Logins, NEW i
  PROVE  /\ \A j : j # i => (j \in DOMAIN Looked(i) <=> j \in DOMAIN failures)
         /\ \A j \in DOMAIN Looked(i) : j \in DOMAIN failures /\ Looked(i)[j] = failures[j]
         /\ i \in DOMAIN Looked(i) <=> i \in DOMAIN failures /\ now <= failures[i].until
  BY DEF Looked, RestrictDomain, Restrict

(* A failed login belongs to the window of its client, or begins one.       *)
LEMMA RefusedOnRecord ==
  ASSUME Logins, NEW i \in DOMAIN failures, ~throttled(i),
         NEW g \in Seq(0 .. now), OnRecord(g, i, failures),
         NEW f, i \in DOMAIN f,
         f[i] = IF i \in DOMAIN Looked(i)
                THEN [Looked(i)[i] EXCEPT !.n = @ + 1]
                ELSE [n |-> 1, until |-> now + Window]
  PROVE  OnRecord(Append(g, now), i, f)
<1> DEFINE e == failures[i]
           b == Append(g, now)
<1>1. now \in Nat /\ e \in [n : 1 .. MaxFails, until : Nat]
  BY Numbers DEF Logins, LoginTypes
<1>2. PICK S \in SUBSET DOMAIN g : Starts(g, S) /\ LastWindow(g, S, e)
  BY DEF OnRecord
<1>3. Ordered(g)
  BY DEF OnRecord
<1>4. Ordered(b)
  BY <1>1, <1>3, OneMoreGuess
<1>5. SUFFICES \E T \in SUBSET DOMAIN b : Starts(b, T) /\ LastWindow(b, T, f[i])
  BY <1>4 DEF OnRecord
<1>6. CASE i \in DOMAIN Looked(i)
  <2>1. Looked(i)[i] = e
    BY <1>6, LookedHas
  <2>2. e.n < MaxFails
    BY <1>1, <1>6, <2>1, Numbers DEF throttled
  <2>3. f[i] = [e EXCEPT !.n = @ + 1]
    BY <1>6, <2>1
  <2> HIDE DEF e
  <2>4. S \in SUBSET DOMAIN b /\ Starts(b, S) /\ LastWindow(b, S, [e EXCEPT !.n = @ + 1])
    BY <1>1, <1>2, <1>3, <2>2, SameWindow
  <2>5. QED
    BY <2>3, <2>4
<1>7. CASE i \notin DOMAIN Looked(i)
  <2>1. f[i] = [n |-> 1, until |-> now + Window]
    BY <1>7
  <2>2. ASSUME NEW s \in S PROVE g[s] + Window < now
    <3> DEFINE first == Len(g) - e.n + 1
    <3>1. first \in S /\ s <= first /\ e.until = g[first] + Window
      BY <1>2 DEF LastWindow
    <3>2. s \in DOMAIN g /\ first \in DOMAIN g
      BY <3>1
    <3>3. g[s] <= g[first]
      BY <1>3, <3>1, <3>2 DEF Ordered
    <3>4. g[s] \in Nat /\ g[first] \in Nat
      BY <1>1, <3>2
    <3>5. ~(now <= e.until)
      BY <1>7, LookedHas
    <3>6. QED
      BY <1>1, <3>1, <3>3, <3>4, <3>5, Numbers
  <2> DEFINE T == S \cup {Len(g) + 1}
  <2>3. T \in SUBSET DOMAIN b /\ Starts(b, T)
        /\ LastWindow(b, T, [n |-> 1, until |-> now + Window])
    BY <1>1, <1>2, <1>3, <2>2, NextWindow
  <2>4. QED
    BY <2>1, <2>3
<1>8. QED
  BY <1>6, <1>7

LEMMA RefuseWindows ==
  ASSUME TypeOK, Logins, Windows, NEW p \in Peers, Refuse(p), Counted(clientAddress(p))
  PROVE  Windows'
<1> DEFINE i    == clientAddress(p)
           f    == Looked(i)
           old  == IF Full(i) THEN {} ELSE DOMAIN f
           mine == IF i \in DOMAIN f
                   THEN [f[i] EXCEPT !.n = @ + 1]
                   ELSE [n |-> 1, until |-> now + Window]
           kept == IF Full(i) THEN [g \in Hosts |-> <<>>] ELSE guesses
<1>1. i = Client(p.host) /\ p.host \in Hosts
  BY OneClient
<1>2. now \in Nat /\ guesses \in [Hosts -> Seq(0 .. now)]
  BY Numbers DEF Logins, LoginTypes
<1>3. /\ failures' = [j \in old \cup {i} |-> IF j = i THEN mine ELSE f[j]]
      /\ guesses' = [kept EXCEPT ![p.host] = Append(@, now)]
      /\ ~throttled(i)
      /\ Full(i) => i \notin DOMAIN f
  BY DEF Refuse, TurnedAway, noteFailure, Guessed, Full
<1>4. i \in DOMAIN failures' /\ failures'[i] = mine
  BY <1>3
<1>5. kept \in [Hosts -> Seq(0 .. now)]
  <2>1. <<>> \in Seq(0 .. now)
    OBVIOUS
  <2>2. QED
    BY <1>2, <2>1
<1>6. ASSUME NEW h \in Hosts, h # p.host
      PROVE  OnRecord(guesses'[h], Client(h), failures')
  <2>1. Client(h) # i
    BY <1>1, <1>6, OneClient
  <2>2. guesses'[h] = kept[h]
    BY <1>3, <1>5, <1>6
  <2>3. CASE Full(i)
    <3>1. guesses'[h] = <<>> /\ Client(h) \notin DOMAIN failures'
      BY <1>3, <2>1, <2>2, <2>3
    <3>2. QED
      BY <3>1 DEF OnRecord, Ordered
  <2>4. CASE ~Full(i)
    <3>1. guesses'[h] = guesses[h]
      BY <2>2, <2>4
    <3>2. /\ Client(h) \in DOMAIN failures' <=> Client(h) \in DOMAIN failures
          /\ Client(h) \in DOMAIN failures' => failures'[Client(h)] = failures[Client(h)]
      BY <1>3, <2>1, <2>4, LookedHas
    <3>3. QED
      BY <3>1, <3>2 DEF Windows, OnRecord
  <2>5. QED
    BY <2>3, <2>4
<1>7. OnRecord(guesses'[p.host], i, failures')
  <2>1. guesses'[p.host] = Append(kept[p.host], now)
    BY <1>1, <1>3, <1>5
  <2>2. CASE Full(i) \/ i \notin DOMAIN failures
    <3>1. kept[p.host] = <<>>
      BY <1>1, <2>2 DEF Windows, OnRecord
    <3>2. i \notin DOMAIN f
      BY <1>3, <2>2, LookedHas
    <3>3. failures'[i] = [n |-> 1, until |-> now + Window]
      BY <1>4, <3>2
    <3>4. QED
      BY <1>2, <1>4, <2>1, <3>1, <3>3, FirstWindow DEF OnRecord
  <2>3. CASE ~Full(i) /\ i \in DOMAIN failures
    <3>1. kept[p.host] = guesses[p.host] /\ guesses[p.host] \in Seq(0 .. now)
      BY <1>1, <1>2, <2>3
    <3>2. OnRecord(guesses[p.host], i, failures)
      BY <1>1 DEF Windows
    <3>3. QED
      BY <1>1, <1>3, <1>4, <2>1, <2>3, <3>1, <3>2, RefusedOnRecord
  <2>4. QED
    BY <2>2, <2>3
<1>8. QED
  BY <1>1, <1>6, <1>7 DEF Windows

(* A login ends the history of its client with its entry.                   *)
LEMMA AdmitWindows ==
  ASSUME TypeOK, Logins, Windows, NEW p \in Peers, Admit(p)
  PROVE  Windows'
<1> DEFINE i == clientAddress(p)
<1>1. i = Client(p.host) /\ p.host \in Hosts
  BY OneClient
<1>2. guesses' = [guesses EXCEPT ![p.host] = <<>>] /\ guesses \in [Hosts -> Seq(0 .. now)]
  BY DEF Admit, Logins, LoginTypes
<1>3. Counted(i) \/ i \notin DOMAIN failures
  BY DEF Logins, LoginTypes
<1>4. /\ DOMAIN failures' = DOMAIN failures \ {i}
      /\ \A j \in DOMAIN failures' : failures'[j] = failures[j]
  BY <1>3 DEF Admit, Forgive, Restrict
<1>5. OnRecord(<<>>, i, failures')
  BY <1>4 DEF OnRecord, Ordered
<1>6. ASSUME NEW h \in Hosts, h # p.host
      PROVE  OnRecord(guesses'[h], Client(h), failures')
  <2>1. Client(h) # i
    BY <1>1, <1>6, OneClient
  <2>2. guesses'[h] = guesses[h]
    BY <1>2, <1>6
  <2>3. /\ Client(h) \in DOMAIN failures' <=> Client(h) \in DOMAIN failures
        /\ Client(h) \in DOMAIN failures' => failures'[Client(h)] = failures[Client(h)]
    BY <1>4, <2>1
  <2>4. QED
    BY <2>2, <2>3 DEF Windows, OnRecord
<1>7. QED
  BY <1>1, <1>2, <1>5, <1>6 DEF Windows

LEMMA WindowsStep ==
  TypeOK /\ Logins /\ Windows /\ [Next]_vars => Windows'
<1> SUFFICES ASSUME TypeOK, Logins, Windows, [Next]_vars PROVE Windows'
  OBVIOUS
<1>1. ASSUME NEW p \in Peers, Refuse(p) PROVE Windows'
  <2>1. CASE Counted(clientAddress(p))
    BY <1>1, <2>1, RefuseWindows
  <2>2. CASE ~Counted(clientAddress(p))
    BY <1>1, <2>2 DEF Refuse, Windows
  <2>3. QED
    BY <2>1, <2>2
<1>2. ASSUME NEW p \in Peers, Admit(p) PROVE Windows'
  BY <1>2, AdmitWindows
<1>3. CASE UNCHANGED <<failures, guesses>>
  BY <1>3 DEF Windows
<1>4. QED
  BY <1>1, <1>2, <1>3 DEF Next, vars, TurnAway, Tick, RealPath, Stat, Open, Send,
     End, Break, ReadDir, Listed, Entry, Change, Gone, Going

(* Any MaxFails failures in a row include the first of a window, so any     *)
(* twice as many include two.                                               *)
LEMMA WindowsBound == Logins /\ Windows => GuessesBounded
<1> SUFFICES ASSUME Logins, Windows, NEW h \in Hosts, NEW k \in DOMAIN guesses[h],
                    k + 2 * MaxFails - 1 \in DOMAIN guesses[h]
             PROVE  guesses[h][k + 2 * MaxFails - 1] > guesses[h][k] + Window
  BY DEF GuessesBounded
<1> DEFINE g    == guesses[h]
           mid  == k + MaxFails - 1
           last == k + 2 * MaxFails - 1
<1>1. /\ g \in Seq(0 .. now) /\ DOMAIN g = 1 .. Len(g) /\ Len(g) \in Nat /\ Ordered(g)
      /\ k \in Nat /\ \A j \in DOMAIN g : g[j] \in Nat
  <2>1. g \in Seq(0 .. now) /\ now \in Nat /\ Ordered(g)
    BY Numbers DEF Logins, LoginTypes, Windows, OnRecord
  <2>2. QED
    BY <2>1
<1>2. PICK S \in SUBSET DOMAIN g : Starts(g, S)
  <2>1. g # <<>>
    BY <1>1
  <2>2. QED
    BY <2>1 DEF Windows, OnRecord
<1>3. mid \in DOMAIN g /\ last \in DOMAIN g /\ k \in DOMAIN g
  BY <1>1, Numbers
<1> SUFFICES g[last] > g[k] + Window
  OBVIOUS
<1> HIDE DEF g, mid, last
<1>4. PICK s \in S : mid - MaxFails < s /\ s <= mid
  BY <1>2, <1>3, Zenon DEF Starts
<1>5. PICK u \in S : last - MaxFails < u /\ u <= last
  BY <1>2, <1>3, Zenon DEF Starts
<1>6. k <= s /\ s < u /\ s \in DOMAIN g /\ u \in DOMAIN g
  BY <1>1, <1>2, <1>4, <1>5, Numbers DEF mid, last
<1>7. g[u] > g[s] + Window /\ g[k] <= g[s] /\ g[u] <= g[last]
  BY <1>1, <1>2, <1>3, <1>5, <1>6 DEF Starts, Ordered
<1>8. QED
  BY <1>1, <1>3, <1>6, <1>7, Numbers

(* An entry that turns its client away counts MaxFails failures since the   *)
(* beginning of its window.                                                 *)
LEMMA WindowsBlame == Logins /\ Windows => TurnedAwayForCause
<1> SUFFICES ASSUME Logins, Windows, NEW p \in Peers, TurnedAway(p)
             PROVE  /\ Len(guesses[p.host]) >= MaxFails
                    /\ now <= guesses[p.host][Len(guesses[p.host]) - MaxFails + 1] + Window
  BY DEF TurnedAwayForCause
<1> DEFINE i == clientAddress(p)
           g == guesses[p.host]
<1>1. i = Client(p.host) /\ p.host \in Hosts
  BY OneClient
<1>2. /\ i \in DOMAIN failures /\ now <= failures[i].until /\ failures[i].n >= MaxFails
  BY LookedHas DEF TurnedAway, throttled
<1>3. failures[i].n = MaxFails
  BY <1>2, Numbers DEF Logins, LoginTypes
<1>4. PICK S \in SUBSET DOMAIN g : LastWindow(g, S, failures[i])
  BY <1>1, <1>2 DEF Windows, OnRecord
<1>5. Len(g) \in Nat /\ Len(g) - MaxFails + 1 \in 1 .. Len(g)
  <2>1. g \in Seq(0 .. now)
    BY <1>1 DEF Logins, LoginTypes
  <2>2. Len(g) - MaxFails + 1 \in DOMAIN g
    BY <1>3, <1>4 DEF LastWindow
  <2>3. QED
    BY <2>1, <2>2
<1>6. QED
  BY <1>2, <1>3, <1>4, <1>5, Numbers DEF LastWindow

-----------------------------------------------------------------------------
(* Answers.                                                                 *)

BodyTrue ==
    req \in Bodies =>
        /\ req.bytes = IF req.status = 206 THEN Named(req.range, req.size)
                       ELSE 0 .. req.size - 1
        /\ req.status = 206 => req.bytes # {}
        /\ req.sent \subseteq req.bytes
        /\ same /\ req.pc \in {"open", "send"} =>
              path.kind = "file" /\ path.size = req.size /\ req.left = req.size
        /\ same /\ req.pc = "done" /\ ~req.head => req.sent = req.bytes

NoneNamed == req \in Unsatisfied => Named(req.range, req.size) = {}

PageTrue ==
    req \in Pages =>
        /\ req.rows \subseteq req.names
        /\ req.kept \subseteq req.rows \cup req.todo
        /\ req.todo \subseteq req.names
        /\ req.pc = "list" => req.kept \subseteq path.has
        /\ req.pc = "done" => req.todo = {}

AnswerTrue == BodyTrue /\ NoneNamed /\ PageTrue

(* What kind of answer is at which step.                                    *)
LEMMA Kinds ==
  ASSUME AnswerTypes
  PROVE  /\ req.pc \in {"open", "send"} => req \in Bodies
         /\ req.pc = "list" => req \in Pages
         /\ req.pc \in {"real", "stat", "readdir"} => req \in Waiting
  BY DEF AnswerTypes, Waiting, Plain, Unsatisfied, Bodies, Pages

LEMMA Apart ==
  /\ \A r \in Waiting \cup Plain : r \notin Bodies /\ r \notin Unsatisfied /\ r \notin Pages
  /\ \A r \in Bodies : r \notin Unsatisfied /\ r \notin Pages
  /\ \A r \in Unsatisfied : r \notin Bodies /\ r \notin Pages
  /\ \A r \in Pages : r \notin Bodies /\ r \notin Unsatisfied
  BY DEF Waiting, Plain, Unsatisfied, Bodies, Pages

(* A short answer promises nothing.                                         *)
LEMMA ShortAnswer ==
  ASSUME req' \in Waiting \cup Plain, path' \in Paths,
         changes' \in 0 .. MaxChanges, same' \in BOOLEAN
  PROVE  AnswerTypes' /\ AnswerTrue'
  BY Apart DEF AnswerTypes, AnswerTrue, BodyTrue, NoneNamed, PageTrue

(* What can be at the path.                                                 *)
LEMMA PathKinds ==
  ASSUME NEW q \in Paths
  PROVE  /\ q.kind \in {"gone", "dir", "file"} /\ q.inside \in BOOLEAN
         /\ q.size \in Nat /\ q.has \subseteq Names
<1>1. CASE q = [kind |-> "gone", inside |-> FALSE, size |-> 0, has |-> {}]
  BY <1>1
<1>2. CASE q \in [kind : {"dir"}, inside : BOOLEAN, size : {0}, has : SUBSET Names]
  BY <1>2
<1>3. CASE q \in [kind : {"file"}, inside : BOOLEAN, size : 0 .. MaxSize, has : {{}}]
  BY <1>3, Numbers
<1>4. QED
  BY <1>1, <1>2, <1>3 DEF Paths

Answers == AnswerTypes /\ AnswerTrue

(* file() promises what was asked for, of the file as the stat found it.    *)
LEMMA StatStep ==
  ASSUME Answers, NEW range \in Ranges, NEW head \in BOOLEAN, Stat(range, head)
  PROVE  Answers'
<1>1. /\ path' = path /\ path \in Paths /\ changes' = changes /\ same' = TRUE
      /\ changes \in 0 .. MaxChanges
  BY DEF Stat, Going, Answers, AnswerTypes
<1>2. CASE path.kind = "gone"
  <2>1. req' \in Waiting \cup Plain
    BY <1>2 DEF Stat, Going, Status, Plain
  <2>2. QED
    BY <1>1, <2>1, ShortAnswer DEF Answers
<1>3. CASE path.kind = "dir"
  <2>1. req' \in Waiting \cup Plain
    BY <1>3 DEF Stat, Going, Waiting
  <2>2. QED
    BY <1>1, <2>1, ShortAnswer DEF Answers
<1>4. CASE path.kind = "file"
  <2> DEFINE size  == path.size
             bytes == IF range.is THEN Served(range, size) ELSE 0 .. size - 1
             next  == CASE head               -> {"done"}
                        [] ~head /\ size > 0  -> {"open"}
                        [] ~head /\ size = 0  -> {"open", "destroyed"}
             code  == IF range.is THEN 206 ELSE 200
             body  == [pc : next, status : {code}, range : {range}, size : {size},
                       bytes : {bytes}, head : {head}, sent : {{}}, left : {size}]
             none  == [pc : {"done"}, status : {416}, range : {range}, size : {size}]
  <2>1. req' \in file(range, head)
    BY <1>4 DEF Stat, Going
  <2>2. size \in Nat
    BY <1>1, PathKinds
  <2>3. range.is => bytes = Named(range, size)
    BY <2>2, ServedIsNamed
  <2>4. ~range.is => bytes = 0 .. size - 1
    OBVIOUS
  <2>5. bytes \subseteq 0 .. size - 1
    BY <2>3, <2>4 DEF Named
  <2>6. CASE range.is /\ bytes = {}
    <3>1. req' \in none
      BY <2>1, <2>6 DEF file
    <3>2. req' \in Unsatisfied /\ req'.range = range /\ req'.size = size
      BY <3>1, <2>2 DEF Unsatisfied
    <3>3. NoneNamed'
      BY <3>2, <2>3, <2>6 DEF NoneNamed, Named
    <3>4. QED
      BY <1>1, <3>2, <3>3, Apart DEF Answers, AnswerTypes, AnswerTrue, BodyTrue, PageTrue
  <2>7. CASE ~(range.is /\ bytes = {})
    <3>1. req' \in body
      BY <2>1, <2>7 DEF file
    <3>2. next \subseteq {"open", "destroyed", "done"} /\ ("done" \in next => head)
      BY <2>2
    <3>3. /\ req'.pc \in next /\ req'.status = code
          /\ req'.range = range /\ req'.size = size /\ req'.bytes = bytes
          /\ req'.head = head /\ req'.sent = {} /\ req'.left = size
      <4> HIDE DEF next, bytes, size
      <4>1. QED
        BY <3>1
    <3>4. req' \in Bodies
      <4>1. bytes \in SUBSET Nat /\ code \in {200, 206}
        BY <2>2, <2>5
      <4>2. req' = [pc |-> req'.pc, status |-> code, range |-> range, size |-> size,
                    bytes |-> bytes, head |-> head, sent |-> {}, left |-> size]
        <5> HIDE DEF next, bytes, size, code
        <5>1. QED
          BY <3>1
      <4>3. req'.pc \in {"open", "send", "destroyed", "done"}
        BY <3>2, <3>3
      <4> HIDE DEF next, bytes, size, code
      <4>4. QED
        BY <4>1, <4>2, <4>3, <2>2 DEF Bodies
    <3>5. req'.bytes = IF req'.status = 206 THEN Named(req'.range, req'.size)
                       ELSE 0 .. req'.size - 1
      <4> HIDE DEF next, bytes, size
      <4>1. CASE range.is
        BY <4>1, <3>3, <2>3
      <4>2. CASE ~range.is
        BY <4>2, <3>3, <2>4
      <4>3. QED
        BY <4>1, <4>2
    <3>6. /\ req'.status = 206 => req'.bytes # {}
          /\ req'.sent \subseteq req'.bytes
      <4> HIDE DEF next, bytes, size
      <4>1. QED
        BY <3>3, <2>7
    <3>7. /\ req'.pc \in {"open", "send"} =>
               path'.kind = "file" /\ path'.size = req'.size /\ req'.left = req'.size
          /\ ~(req'.pc = "done" /\ ~req'.head)
      BY <3>2, <3>3, <1>1, <1>4
    <3>8. BodyTrue'
      BY <3>5, <3>6, <3>7 DEF BodyTrue
    <3>9. NoneNamed' /\ PageTrue'
      BY <3>4, Apart DEF NoneNamed, PageTrue
    <3>10. QED
      BY <1>1, <3>4, <3>8, <3>9 DEF Answers, AnswerTypes, AnswerTrue
  <2>8. QED
    BY <2>6, <2>7
<1>5. QED
  BY <1>1, <1>2, <1>3, <1>4, PathKinds

(* A step of the stream: the request stays a body, and keeps its promise.   *)
LEMMA StreamStep ==
  ASSUME Answers, Open \/ Send \/ End \/ Break
  PROVE  Answers'
<1>1. /\ path' = path /\ same' = same /\ changes' = changes /\ path \in Paths
      /\ same \in BOOLEAN /\ changes \in 0 .. MaxChanges
  BY DEF Open, Send, End, Break, Going, Answers, AnswerTypes
<1>2. req \in Bodies /\ BodyTrue
  BY Kinds DEF Answers, AnswerTrue, Open, Send, End, Break
<1>3. path.size \in Nat
  BY <1>1, PathKinds
<1>4. CASE Open
  <2>1. req' \in Bodies /\ BodyTrue'
    <3>1. CASE path.kind = "file"
      <4>1. req' = [req EXCEPT !.pc = "send", !.left = path.size] /\ req.pc = "open"
        BY <1>4, <3>1 DEF Open, Going
      <4>2. req' \in Bodies
        BY <1>2, <1>3, <4>1 DEF Bodies
      <4>3. /\ req'.pc = "send" /\ req'.status = req.status /\ req'.range = req.range
            /\ req'.size = req.size /\ req'.bytes = req.bytes /\ req'.sent = req.sent
            /\ req'.left = path.size
        BY <1>2, <4>1 DEF Bodies
      <4>4. QED
        BY <1>1, <1>2, <4>1, <4>2, <4>3 DEF BodyTrue
    <3>2. CASE path.kind # "file"
      <4>1. req' = [req EXCEPT !.pc = "destroyed"]
        BY <1>4, <3>2 DEF Open, Going
      <4>2. QED
        BY <1>1, <1>2, <4>1 DEF BodyTrue, Bodies
    <3>3. QED
      BY <3>1, <3>2
  <2>2. QED
    BY <1>1, <2>1, Apart DEF Answers, AnswerTypes, AnswerTrue, NoneNamed, PageTrue
<1>5. CASE Send
  <2>1. PICK b \in Readable : req' = [req EXCEPT !.sent = @ \cup {b}]
    BY <1>5 DEF Send, Going
  <2>2. b \in Nat /\ b \in req.bytes
    BY <1>2 DEF Readable, Bodies
  <2>3. req' \in Bodies
    BY <1>2, <2>1, <2>2 DEF Bodies
  <2>4. /\ req'.pc = "send" /\ req.pc = "send" /\ req'.status = req.status
        /\ req'.range = req.range /\ req'.size = req.size /\ req'.bytes = req.bytes
        /\ req'.left = req.left /\ req'.sent = req.sent \cup {b}
    BY <1>2, <1>5, <2>1 DEF Bodies, Send
  <2>5. BodyTrue'
    BY <1>1, <1>2, <2>2, <2>3, <2>4 DEF BodyTrue
  <2>6. QED
    BY <1>1, <2>3, <2>5, Apart DEF Answers, AnswerTypes, AnswerTrue, NoneNamed, PageTrue
<1>6. CASE End
  <2>1. req' = [req EXCEPT !.pc = "done"] /\ req.pc = "send" /\ Readable = {}
    BY <1>6 DEF End, Going
  <2>2. req' \in Bodies
    BY <1>2, <2>1 DEF Bodies
  <2>3. /\ req'.pc = "done" /\ req'.status = req.status
        /\ req'.range = req.range /\ req'.size = req.size /\ req'.bytes = req.bytes
        /\ req'.sent = req.sent
    BY <1>2, <2>1 DEF Bodies
  <2>4. req.bytes \subseteq 0 .. req.size - 1
    BY <1>2 DEF BodyTrue, Named
  <2>5. ASSUME same PROVE req.sent = req.bytes
    <3>1. req.left = req.size /\ req.size \in Nat /\ req.sent \subseteq req.bytes
      BY <1>2, <2>1, <2>5 DEF BodyTrue, Bodies
    <3>2. \A b \in req.bytes : b < req.left
      BY <2>4, <3>1
    <3>3. QED
      BY <2>1, <3>1, <3>2 DEF Readable
  <2>6. BodyTrue'
    BY <1>1, <1>2, <2>2, <2>3, <2>5 DEF BodyTrue
  <2>7. QED
    BY <1>1, <2>2, <2>6, Apart DEF Answers, AnswerTypes, AnswerTrue, NoneNamed, PageTrue
<1>7. CASE Break
  BY <1>1, <1>2, <1>7, Apart DEF Break, Going, Answers, AnswerTypes, AnswerTrue,
     BodyTrue, NoneNamed, PageTrue, Bodies
<1>8. QED
  BY <1>4, <1>5, <1>6, <1>7

(* A step of a listing.                                                     *)
LEMMA ListStep ==
  ASSUME Answers, ReadDir \/ Listed \/ \E n \in Names : Entry(n)
  PROVE  Answers'
<1>1. /\ path' = path /\ same' = same /\ changes' = changes /\ path \in Paths
      /\ same \in BOOLEAN /\ changes \in 0 .. MaxChanges
  BY DEF ReadDir, Listed, Entry, Going, Answers, AnswerTypes
<1>2. path.has \subseteq Names
  BY <1>1, PathKinds
<1>3. CASE ReadDir /\ path.kind # "dir"
  <2>1. req' \in Waiting \cup Plain
    BY <1>3 DEF ReadDir, Going, Status, Plain
  <2>2. QED
    BY <1>1, <2>1, ShortAnswer DEF Answers
<1>4. CASE ReadDir /\ path.kind = "dir"
  <2>1. req' = [pc |-> "list", status |-> 200, names |-> path.has, todo |-> path.has,
                rows |-> {}, kept |-> path.has]
    BY <1>4 DEF ReadDir, Going
  <2>2. req' \in Pages /\ PageTrue'
    BY <1>1, <1>2, <2>1 DEF Pages, PageTrue
  <2>3. QED
    BY <1>1, <2>2, Apart DEF Answers, AnswerTypes, AnswerTrue, BodyTrue, NoneNamed
<1>5. CASE Listed
  <2>1. req \in Pages /\ PageTrue
    BY <1>5, Kinds DEF Listed, Answers, AnswerTrue
  <2>2. req' \in Pages /\ PageTrue'
    BY <1>1, <1>5, <2>1 DEF Listed, Going, Pages, PageTrue
  <2>3. QED
    BY <1>1, <2>2, Apart DEF Answers, AnswerTypes, AnswerTrue, BodyTrue, NoneNamed
<1>6. ASSUME NEW n \in Names, Entry(n) PROVE Answers'
  <2>1. req \in Pages /\ PageTrue /\ req.pc = "list" /\ n \in req.todo
    BY <1>6, Kinds DEF Entry, Answers, AnswerTrue
  <2>2. req' \in Pages /\ PageTrue'
    <3>1. CASE n \in path.has
      <4>1. req' = [req EXCEPT !.todo = @ \ {n}, !.rows = @ \cup {n}]
        BY <1>6, <3>1 DEF Entry, Going
      <4>2. req' \in Pages
        <5>1. /\ req.todo \ {n} \in SUBSET Names
              /\ req.rows \cup {n} \in SUBSET Names
          BY <2>1 DEF Pages
        <5>2. [req EXCEPT !.todo = @ \ {n}] \in Pages
          BY <2>1, <5>1 DEF Pages
        <5>3. req' = [[req EXCEPT !.todo = @ \ {n}] EXCEPT !.rows = req.rows \cup {n}]
          BY <2>1, <4>1 DEF Pages
        <5>4. QED
          BY <5>1, <5>2, <5>3 DEF Pages
      <4>3. /\ req'.pc = req.pc /\ req'.names = req.names /\ req'.kept = req.kept
            /\ req'.todo = req.todo \ {n} /\ req'.rows = req.rows \cup {n}
        BY <2>1, <4>1 DEF Pages
      <4>4. QED
        BY <1>1, <2>1, <4>2, <4>3 DEF PageTrue
    <3>2. CASE n \notin path.has
      <4>1. req' = [req EXCEPT !.todo = @ \ {n}]
        BY <1>6, <3>2 DEF Entry, Going
      <4>2. QED
        BY <1>1, <2>1, <3>2, <4>1 DEF Pages, PageTrue
    <3>3. QED
      BY <3>1, <3>2
  <2>3. QED
    BY <1>1, <2>2, Apart DEF Answers, AnswerTypes, AnswerTrue, BodyTrue, NoneNamed
<1>7. QED
  BY <1>3, <1>4, <1>5, <1>6

(* A change of the folder is seen by a listing, and by a stream, which may  *)
(* end short of its promise from then on.                                   *)
LEMMA ChangeStep ==
  ASSUME Answers, Change
  PROVE  Answers'
<1>1. /\ path' \in Paths /\ same' = FALSE /\ changes' \in 0 .. MaxChanges
  BY Numbers DEF Change, Answers, AnswerTypes
<1>2. path'.size \in Nat /\ path'.has \subseteq Names
  BY <1>1, PathKinds
<1>3. CASE req' = req /\ req.pc # "list"
  BY <1>1, <1>3 DEF Answers, AnswerTypes, AnswerTrue, BodyTrue, NoneNamed, PageTrue
<1>4. CASE req.pc = "send" /\ req' = [req EXCEPT !.left = path'.size]
  <2>1. req \in Bodies /\ BodyTrue
    BY <1>4, Kinds DEF Answers, AnswerTrue
  <2>2. req' \in Bodies /\ BodyTrue'
    BY <1>1, <1>2, <1>4, <2>1 DEF Bodies, BodyTrue
  <2>3. QED
    BY <1>1, <2>2, Apart DEF Answers, AnswerTypes, AnswerTrue, NoneNamed, PageTrue
<1>5. CASE req.pc = "list" /\ req' = [req EXCEPT !.kept = @ \cap path'.has]
  <2>1. req \in Pages /\ PageTrue
    BY <1>5, Kinds DEF Answers, AnswerTrue
  <2>2. req' \in Pages /\ PageTrue'
    BY <1>1, <1>2, <1>5, <2>1 DEF Pages, PageTrue
  <2>3. QED
    BY <1>1, <2>2, Apart DEF Answers, AnswerTypes, AnswerTrue, BodyTrue, NoneNamed
<1>6. QED
  BY <1>3, <1>4, <1>5 DEF Change, Seen

(* Together.                                                                *)
LEMMA AnswersStep ==
  Answers /\ [Next]_vars => Answers'
<1> SUFFICES ASSUME Answers, [Next]_vars PROVE Answers'
  OBVIOUS
<1>1. ASSUME NEW p \in Peers, TurnAway(p) \/ Refuse(p) \/ Admit(p) PROVE Answers'
  <2>1. req' \in Waiting \cup Plain
    BY <1>1 DEF TurnAway, Refuse, Admit, Status, Waiting, Plain
  <2>2. path' \in Paths /\ changes' \in 0 .. MaxChanges /\ same' \in BOOLEAN
    BY <1>1 DEF TurnAway, Refuse, Admit, Answers, AnswerTypes
  <2>3. QED
    BY <2>1, <2>2, ShortAnswer DEF Answers
<1>2. CASE Tick \/ UNCHANGED vars
  BY <1>2 DEF Tick, vars, Answers, AnswerTypes, AnswerTrue, BodyTrue, NoneNamed, PageTrue
<1>3. CASE RealPath \/ Gone
  <2>1. req' \in Waiting \cup Plain
    BY <1>3 DEF RealPath, Gone, Going, Status, Waiting, Plain
  <2>2. path' \in Paths /\ changes' \in 0 .. MaxChanges /\ same' \in BOOLEAN
    BY <1>3 DEF RealPath, Gone, Going, Answers, AnswerTypes
  <2>3. QED
    BY <2>1, <2>2, ShortAnswer DEF Answers
<1>4. ASSUME NEW range \in Ranges, NEW head \in BOOLEAN, Stat(range, head) PROVE Answers'
  BY <1>4, StatStep
<1>5. CASE Open \/ Send \/ End \/ Break
  BY <1>5, StreamStep
<1>6. CASE ReadDir \/ Listed \/ \E n \in Names : Entry(n)
  BY <1>6, ListStep
<1>7. CASE Change
  BY <1>7, ChangeStep
<1>8. QED
  BY <1>1, <1>2, <1>3, <1>4, <1>5, <1>6, <1>7 DEF Next

-----------------------------------------------------------------------------
(* All hold in every state.                                                 *)
LEMMA Inductive == Spec => [](Logins /\ Windows /\ Answers)
<1>1. Init => Logins /\ Windows /\ Answers
  <2> SUFFICES ASSUME Init PROVE Logins /\ Windows /\ Answers
    OBVIOUS
  <2>1. DOMAIN failures = {} /\ guesses = [h \in Hosts |-> <<>>]
    BY DEF Init
  <2>2. IsFiniteSet(DOMAIN failures) /\ TableBounded
    BY <2>1, FS_EmptySet, Numbers DEF TableBounded
  <2>3. LoginTypes
    BY <2>1, Numbers DEF Init, LoginTypes
  <2>4. Windows
    BY <2>1 DEF Windows, OnRecord, Ordered
  <2>5. req \in Waiting \cup Plain
    BY DEF Init, Status, Plain
  <2>6. Answers
    BY <2>5, Apart, Numbers DEF Init, Answers, AnswerTypes, AnswerTrue, BodyTrue,
       NoneNamed, PageTrue
  <2>7. QED
    BY <2>2, <2>3, <2>4, <2>6 DEF Logins
<1>2. Logins /\ Windows /\ Answers /\ [Next]_vars => Logins' /\ Windows' /\ Answers'
  BY LoginsStep, WindowsStep, AnswersStep DEF Logins, Answers, TypeOK
<1>3. QED
  BY <1>1, <1>2, PTL DEF Spec

(* The table of fileserver.js has the clients, counts and windows it may    *)
(* have, and the request that is followed is one of five kinds.             *)
THEOREM ServerTypes == Spec => []TypeOK
  BY Inductive, PTL DEF Logins, Answers, TypeOK

(* noteFailure clears the table before it grows past its bound by two.      *)
THEOREM TableStaysSmall == Spec => []TableBounded
  BY Inductive, PTL DEF Logins

(* However its failures are spread over throttled's windows, a client fails *)
(* fewer than twice AUTH_MAX_FAILS times in the length of one.              *)
THEOREM GuessesStayFew == Spec => []GuessesBounded
  BY Inductive, WindowsBound, PTL

(* Who gets a 429 failed AUTH_MAX_FAILS times within one window, and waits  *)
(* no longer than that window.                                              *)
THEOREM TurnedAwayWithCause == Spec => []TurnedAwayForCause
  BY Inductive, WindowsBlame, PTL

(* Whatever a range lacks or exceeds, file() promises the bytes RFC 9110    *)
(* names, all of them for no range, and refuses a range that names none.    *)
THEOREM RangesAreServed == Spec => []RangeServed
<1>1. Answers => RangeServed
  <2> SUFFICES ASSUME Answers PROVE RangeServed
    OBVIOUS
  <2>1. CASE req \in Bodies
    <3>1. req.status \in {200, 206}
      BY <2>1 DEF Bodies
    <3>2. BodyTrue
      BY <2>1 DEF Answers, AnswerTrue
    <3>3. CASE req.status = 206
      BY <2>1, <3>2, <3>3 DEF BodyTrue, RangeServed
    <3>4. CASE req.status = 200
      BY <2>1, <3>2, <3>4 DEF BodyTrue, RangeServed
    <3>5. QED
      BY <3>1, <3>3, <3>4
  <2>2. CASE req \in Unsatisfied
    <3>1. req.status = 416
      BY <2>2 DEF Unsatisfied
    <3>2. QED
      BY <2>2, <3>1 DEF Answers, AnswerTrue, NoneNamed, RangeServed
  <2>3. CASE req \in Waiting \cup Plain \cup Pages
    BY <2>3 DEF RangeServed, Waiting, Plain, Pages
  <2>4. QED
    BY <2>1, <2>2, <2>3 DEF Answers, AnswerTypes
<1>2. QED
  BY <1>1, Inductive, PTL

(* The stream of file() sends nothing it did not promise, and all of it if  *)
(* the file stays as the stat found it.                                     *)
THEOREM BodiesHold == Spec => []BodyAsDeclared
<1>1. Answers => BodyAsDeclared
  BY DEF Answers, AnswerTypes, AnswerTrue, BodyTrue, BodyAsDeclared, Waiting, Plain,
     Unsatisfied, Bodies, Pages
<1>2. QED
  BY <1>1, Inductive, PTL

(* list() leaves out no name that stays, and adds none that came late.      *)
THEOREM ListingsHold == Spec => []ListingTrue
<1>1. Answers => ListingTrue
  BY DEF Answers, AnswerTypes, AnswerTrue, PageTrue, ListingTrue, Waiting, Plain,
     Unsatisfied, Bodies, Pages
<1>2. QED
  BY <1>1, Inductive, PTL
=============================================================================
