----------------------------- MODULE FileServer -----------------------------
(***************************************************************************)
(* The HTTP server of a folder share (worker/fileserver.js): the count of  *)
(* failed logins, and the answers, which read a folder that changes while  *)
(* they are under way.                                                     *)
(*                                                                         *)
(* A request is logged in, or turned away, in one step.  Requests share    *)
(* nothing after that, so one at a time is followed to its answer, and     *)
(* the clock, which only logins read, stands still while it is.  Of a      *)
(* request only what its answer depends on is there; names, types, dates   *)
(* and the page of a listing are left out.                                 *)
(***************************************************************************)
EXTENDS Integers, Sequences, FiniteSets, Functions

CONSTANTS
    Hosts,      \* the machines requests come from
    Loopback,   \* the address of the tunnel, one of Hosts
    MaxFails,   \* AUTH_MAX_FAILS
    Window,     \* AUTH_WINDOW_MS
    TableMax,   \* the 512 entries after which the table is cleared
    MaxTime,    \* the last instant (a bound)
    Names,      \* what a folder can hold
    MaxSize,    \* the size of the largest file (a bound)
    MaxChanges  \* how often what is at the path changes (a bound)

ASSUME FileServerAssumption ==
    /\ Loopback \in Hosts
    /\ {MaxFails, Window} \subseteq Nat \ {0}
    /\ {TableMax, MaxTime, MaxSize, MaxChanges} \subseteq Nat

\* The remote address of a socket: a dual-stack bind reports an IPv4 peer as
\* a mapped address.
Peers == [host : Hosts, mapped : BOOLEAN]

\* What is at the path a request names, and whether its real path is inside
\* the shared folder.
Paths ==
    {[kind |-> "gone", inside |-> FALSE, size |-> 0, has |-> {}]}
    \cup [kind : {"dir"}, inside : BOOLEAN, size : {0}, has : SUBSET Names]
    \cup [kind : {"file"}, inside : BOOLEAN, size : 0 .. MaxSize, has : {{}}]

\* bytes=from-to, either of which can be missing.  A header of another shape
\* is ignored, like no header.
Whole  == [is |-> FALSE, hasFrom |-> FALSE, hasTo |-> FALSE, from |-> 0, to |-> 0]
Ranges == {Whole} \cup
    [is : {TRUE}, hasFrom : BOOLEAN, hasTo : BOOLEAN,
     from : 0 .. MaxSize, to : 0 .. MaxSize + 1]

VARIABLES
    now,       \* the time
    failures,  \* failed logins: a client's count and the end of its window
    path,      \* what is at the path the request names
    req,       \* the request that is followed, and how far it is, or the last answer
    guesses,   \* history: when each machine failed to log in, since its last
               \* login and since the table was last cleared
    changes,   \* how often path changed
    same       \* history: path is what the request found there

vars == <<now, failures, path, req, guesses, changes, same>>

Status(code) == [pc |-> "done", status |-> code]

Free == req.pc = "done"

Init ==
    /\ now = 0
    /\ failures = [i \in {} |-> 0]
    /\ path \in Paths
    /\ req = Status(0)
    /\ guesses = [h \in Hosts |-> <<>>]
    /\ changes = 0
    /\ same = TRUE

-----------------------------------------------------------------------------
(* Logging in                                                              *)

\* Mutant of clientAddress: a client has one count per address family.
AddressAsIs(p) == p

clientAddress(p) == [p EXCEPT !.mapped = FALSE]

Counted(i) == i.host # Loopback

\* The table once throttled has looked at i: an entry whose window is over is
\* deleted.
Looked(i) == RestrictDomain(failures, LAMBDA j : j # i \/ now <= failures[j].until)

throttled(i) == i \in DOMAIN Looked(i) /\ Looked(i)[i].n >= MaxFails

TurnedAway(p) == Counted(clientAddress(p)) /\ throttled(clientAddress(p))

Full(i) == i \notin DOMAIN Looked(i) /\ Cardinality(DOMAIN Looked(i)) > TableMax

noteFailure(i) ==
    LET f    == Looked(i)
        old  == IF Full(i) THEN {} ELSE DOMAIN f
        mine == IF i \in DOMAIN f
                THEN [f[i] EXCEPT !.n = @ + 1]
                ELSE [n |-> 1, until |-> now + Window]
    IN failures' = [j \in old \cup {i} |-> IF j = i THEN mine ELSE f[j]]

\* The history once i has failed again, from host h.
Guessed(h, i) ==
    LET kept == IF Full(i) THEN [g \in Hosts |-> <<>>] ELSE guesses
    IN [kept EXCEPT ![h] = Append(@, now)]

\* 429: the credentials are not read.
TurnAway(p) ==
    /\ Free /\ TurnedAway(p)
    /\ req' = Status(429)
    /\ UNCHANGED <<now, failures, path, guesses, changes, same>>

Refuse(p) ==
    LET i == clientAddress(p) IN
    /\ Free /\ ~TurnedAway(p)
    /\ IF Counted(i)
       THEN /\ noteFailure(i)
            /\ guesses' = Guessed(p.host, i)
       ELSE UNCHANGED <<failures, guesses>>
    /\ req' = Status(401)
    /\ UNCHANGED <<now, path, changes, same>>

\* Mutant of Forgive: a login does not end the count.
ForgiveNothing(i) == UNCHANGED failures

Forgive(i) ==
    failures' = IF Counted(i)
                THEN Restrict(failures, DOMAIN failures \ {i}) ELSE failures

\* The login is right.  A method other than GET and HEAD gets its 405 at once,
\* and a URL that cannot be decoded throws out of the handler: no answer.
Admit(p) ==
    /\ Free /\ ~TurnedAway(p)
    /\ Forgive(clientAddress(p))
    /\ guesses' = [guesses EXCEPT ![p.host] = <<>>]
    /\ req' \in {Status(405), Status(0), [pc |-> "real"]}
    /\ UNCHANGED <<now, path, changes, same>>

Tick ==
    /\ Free /\ now < MaxTime
    /\ now' = now + 1
    /\ UNCHANGED <<failures, path, req, guesses, changes, same>>

-----------------------------------------------------------------------------
(* Finding what to serve                                                   *)

Going(r) ==
    /\ req' = r
    /\ UNCHANGED <<now, failures, path, guesses, changes>>

\* The containment check, on the real path.
RealPath ==
    /\ req.pc = "real"
    /\ Going(IF path.inside THEN [pc |-> "stat"] ELSE Status(404))
    /\ UNCHANGED same

\* Mutant of Served: the length of a suffix is taken for an offset.
ServedAsOffset(range, size) ==
    LET from == IF range.hasFrom THEN range.from
                ELSE IF range.to < size THEN size - range.to ELSE 0
        to   == IF range.hasTo /\ range.to < size THEN range.to ELSE size - 1
    IN from .. to

\* The bytes file() serves of a range, none for a 416.
Served(range, size) ==
    LET from == IF range.hasFrom THEN range.from
                ELSE IF range.hasTo /\ range.to < size THEN size - range.to ELSE 0
        to   == IF range.hasFrom /\ range.hasTo /\ range.to < size
                THEN range.to ELSE size - 1
        bad  == \/ ~range.hasFrom /\ ~range.hasTo
                \/ ~range.hasFrom /\ range.to = 0
                \/ range.hasFrom /\ range.hasTo /\ range.from > range.to
                \/ from >= size
    IN IF bad THEN {} ELSE from .. to

\* The headers are written, with a Content-Length, and unless the request is a
\* HEAD the file is opened again.  The runtime may refuse to stream an empty
\* file, whose last byte is -1: then the connection is destroyed.
file(range, head) ==
    LET size   == path.size
        bytes  == IF range.is THEN Served(range, size) ELSE 0 .. size - 1
        next   == CASE head               -> {"done"}
                    [] ~head /\ size > 0  -> {"open"}
                    [] ~head /\ size = 0  -> {"open", "destroyed"}
    IN IF range.is /\ bytes = {}
       THEN [pc : {"done"}, status : {416}, range : {range}, size : {size}]
       ELSE [pc : next, status : {IF range.is THEN 206 ELSE 200}, range : {range},
             size : {size}, bytes : {bytes}, head : {head}, sent : {{}}, left : {size}]

Stat(range, head) ==
    /\ req.pc = "stat"
    /\ \E r \in CASE path.kind = "gone" -> {Status(404)}
                  [] path.kind = "dir"  -> {[pc |-> "readdir"]}
                  [] path.kind = "file" -> file(range, head) : Going(r)
    /\ same' = TRUE

-----------------------------------------------------------------------------
(* Streaming a file                                                        *)

Open ==
    /\ req.pc = "open"
    /\ Going(IF path.kind = "file"
             THEN [req EXCEPT !.pc = "send", !.left = path.size]
             ELSE [req EXCEPT !.pc = "destroyed"])
    /\ UNCHANGED same

\* Mutant of Readable: the stream is not told where to end.
ReadableToTheEnd == {b \in 0 .. req.left - 1 : \A c \in req.bytes : b >= c \/ b \in req.bytes}

\* The bytes the stream has yet to read, of the file as it is now.
Readable == {b \in req.bytes : b < req.left} \ req.sent

Send ==
    /\ req.pc = "send"
    /\ \E b \in Readable :
          /\ \A c \in Readable : b <= c
          /\ Going([req EXCEPT !.sent = @ \cup {b}])
    /\ UNCHANGED same

\* The stream ends, and with it the answer.
End ==
    /\ req.pc = "send" /\ Readable = {}
    /\ Going([req EXCEPT !.pc = "done"])
    /\ UNCHANGED same

\* A read error, or the visitor leaves.
Break ==
    /\ req.pc = "send"
    /\ Going([req EXCEPT !.pc = "destroyed"])
    /\ UNCHANGED same

-----------------------------------------------------------------------------
(* Listing a folder                                                        *)

ReadDir ==
    /\ req.pc = "readdir"
    /\ Going(IF path.kind = "dir"
             THEN [pc |-> "list", status |-> 200, names |-> path.has, todo |-> path.has,
                   rows |-> {}, kept |-> path.has]
             ELSE Status(500))
    /\ UNCHANGED same

\* Mutant of Entry: a name that is gone ends the listing.
EntryOrNothing(n) ==
    /\ req.pc = "list" /\ n \in req.todo
    /\ Going(IF n \in path.has
             THEN [req EXCEPT !.todo = @ \ {n}, !.rows = @ \cup {n}]
             ELSE [req EXCEPT !.todo = {}])
    /\ UNCHANGED same

\* A name that is gone by the time of its stat is left out.
Entry(n) ==
    /\ req.pc = "list" /\ n \in req.todo
    /\ Going(IF n \in path.has
             THEN [req EXCEPT !.todo = @ \ {n}, !.rows = @ \cup {n}]
             ELSE [req EXCEPT !.todo = @ \ {n}])
    /\ UNCHANGED same

Listed ==
    /\ req.pc = "list" /\ req.todo = {}
    /\ Going([req EXCEPT !.pc = "done"])
    /\ UNCHANGED same

-----------------------------------------------------------------------------
(* The folder                                                              *)

\* The request sees the change: the file that is being sent grows or shrinks,
\* names come and go while they are listed.
Seen ==
    CASE req.pc = "send" /\ path'.kind = "file" -> [req EXCEPT !.left = path'.size]
      [] req.pc = "list" -> [req EXCEPT !.kept = @ \cap path'.has]
      [] OTHER           -> req

\* A file that is being sent can also be another one than is there by now.
Change ==
    /\ changes < MaxChanges
    /\ changes' = changes + 1
    /\ path' \in Paths \ {path}
    /\ same' = FALSE
    /\ req' = Seen \/ (req.pc = "send" /\ req' = req)
    /\ UNCHANGED <<now, failures, guesses>>

\* A connection that was destroyed is followed no further.
Gone ==
    /\ req.pc = "destroyed"
    /\ Going(Status(0))
    /\ UNCHANGED same

Next ==
    \/ \E p \in Peers : TurnAway(p) \/ Refuse(p) \/ Admit(p)
    \/ Tick
    \/ RealPath
    \/ \E range \in Ranges, head \in BOOLEAN : Stat(range, head)
    \/ Open \/ Send \/ End \/ Break
    \/ ReadDir \/ Listed
    \/ \E n \in Names : Entry(n)
    \/ Change \/ Gone

Spec == Init /\ [][Next]_vars

-----------------------------------------------------------------------------
(* Properties                                                              *)

Waiting     == [pc : {"real", "stat", "readdir"}]
Plain       == [pc : {"done"}, status : {0, 401, 404, 405, 429, 500}]
Unsatisfied == [pc : {"done"}, status : {416}, range : Ranges, size : Nat]
Bodies      == [pc : {"open", "send", "destroyed", "done"}, status : {200, 206},
                range : Ranges, size : Nat, bytes : SUBSET Nat, head : BOOLEAN,
                sent : SUBSET Nat, left : Nat]
Pages       == [pc : {"list", "done"}, status : {200}, names : SUBSET Names,
                todo : SUBSET Names, rows : SUBSET Names, kept : SUBSET Names]

\* The type invariant.  A visitor who comes through the tunnel is not counted,
\* others are as one client in both address families, up to AUTH_MAX_FAILS.
LoginTypes ==
    /\ now \in 0 .. MaxTime
    /\ \A i \in DOMAIN failures :
          /\ i \in Peers /\ ~i.mapped /\ Counted(i)
          /\ failures[i] \in [n : 1 .. MaxFails, until : 0 .. now + Window]
    /\ guesses \in [Hosts -> Seq(0 .. now)]

AnswerTypes ==
    /\ path \in Paths
    /\ req \in Waiting \cup Plain \cup Unsatisfied \cup Bodies \cup Pages
    /\ changes \in 0 .. MaxChanges /\ same \in BOOLEAN

TypeOK == LoginTypes /\ AnswerTypes

\* "Fixed window, per client": whatever the address family it uses, between
\* two logins a client fails fewer than twice AUTH_MAX_FAILS times in any
\* AUTH_WINDOW_MS, unless the table is cleared meanwhile.
GuessesBounded == \A h \in Hosts : \A k \in DOMAIN guesses[h] :
    LET last == k + 2 * MaxFails - 1
    IN last \in DOMAIN guesses[h] => guesses[h][last] > guesses[h][k] + Window

\* A client is turned away only if it failed AUTH_MAX_FAILS times within the
\* last AUTH_WINDOW_MS; so the wait it is told, one window, is enough.
TurnedAwayForCause == \A p \in Peers :
    LET g == guesses[p.host]
    IN TurnedAway(p) =>
          Len(g) >= MaxFails /\ now <= g[Len(g) - MaxFails + 1] + Window

\* "Bounded below at 512 entries", and the one that filled the table.
TableBounded == Cardinality(DOMAIN failures) <= TableMax + 1

\* The bytes a range names, as RFC 9110 has it.
Named(range, size) ==
    {b \in 0 .. size - 1 :
        \/ range.hasFrom /\ range.from <= b /\ (range.hasTo => b <= range.to)
        \/ ~range.hasFrom /\ range.hasTo /\ b >= size - range.to}

\* The bytes promised are the whole file or those the range names, and a 416
\* says that there are none.
RangeServed ==
    "range" \in DOMAIN req =>
        CASE req.status = 416   -> Named(req.range, req.size) = {}
          [] req.status = 206   -> req.bytes = Named(req.range, req.size) /\ req.bytes # {}
          [] req.status = 200   -> req.bytes = 0 .. req.size - 1

\* The body is never longer than its Content-Length, and as long if the file
\* did not change since it was looked at.  A file that shrinks falls short of
\* it, and an empty one may cost the connection.
BodyAsDeclared ==
    "sent" \in DOMAIN req =>
        /\ req.sent \subseteq req.bytes
        /\ req.pc = "done" /\ same /\ ~req.head => req.sent = req.bytes

\* A listing has every name that was there throughout, and none that was not
\* there when it began.
ListingTrue ==
    "rows" \in DOMAIN req =>
        /\ req.rows \subseteq req.names
        /\ req.pc = "done" => req.kept \subseteq req.rows
=============================================================================
