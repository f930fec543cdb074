----------------------------- MODULE SavedStore -----------------------------
(***************************************************************************)
(* What the Rust side keeps on disk: the saved tunnels (saved.rs), the     *)
(* recent connections (recent.rs) and the settings (commands.rs).  The     *)
(* first two live in the keychain of the system, or in a file while no     *)
(* keychain answers; the settings live in a file.                          *)
(*                                                                         *)
(* The commands run on the main thread, one at a time; each is cut into    *)
(* the steps between which the application can crash.  Of a saved tunnel   *)
(* only its id and its wish to be started at login are kept, and the order *)
(* of the saved tunnels is left out.                                       *)
(***************************************************************************)
EXTENDS Naturals, FiniteSets, SequencesExt

CONSTANTS
    Ids,        \* the ids of saved tunnels
    Labels,     \* connection strings
    Limits,     \* the values the total speed limit is set to
    MaxSaved,   \* MAX_SAVED_TUNNELS
    RecentMax,
    MaxEdits,   \* how many commands run (a bound)
    Nothing     \* no keychain entry, no file or an unreadable one, no memory

ASSUME StoreAssumption ==
    /\ Limits \subseteq Nat
    /\ {MaxSaved, RecentMax} \subseteq Nat \ {0}
    /\ MaxEdits \in Nat
    /\ IsFiniteSet(Ids)

Stores == {"saved", "recent", "settings"}
Keyed  == {"saved", "recent"}

SavedLists == UNION {[S -> BOOLEAN] : S \in SUBSET Ids}

Contents(s) ==
    CASE s = "saved"    -> SavedLists
      [] s = "recent"   -> Seq(Labels)
      [] s = "settings" -> Limits \cup {0}

ASSUME NothingAssumption == \A s \in Stores : Nothing \notin Contents(s)

\* What an unreadable copy counts for.
Empty(s) == IF s = "settings" THEN 0 ELSE <<>>

VARIABLES
    mem,       \* the lists in memory, and the settings the renderer has seen
    keychain,  \* the entries of the keychain
    file,      \* the files
    reachable, \* the keychain answers
    login,     \* the application is started at login
    unsynced,  \* history: the last autostart_sync met an error
    at,        \* where the main thread is: the store and step of a command
    edits,     \* how many commands have run
    owed,      \* history: the contents a restart may bring back
    found,     \* history: the stores for which the keychain answered when
               \* they were last loaded or persisted
    torn       \* history: the stores whose last write of the file failed or
               \* was cut by a crash

vars == <<mem, keychain, file, reachable, login, unsynced, at,
          edits, owed, found, torn>>

-----------------------------------------------------------------------------
Step(s, step, sync) == [store |-> s, step |-> step, sync |-> sync]

Down == Step("none", "down", FALSE)
Idle == Step("none", "idle", FALSE)

At(s, step) == at.store = s /\ at.step = step

Init ==
    /\ mem = [s \in Stores |-> Nothing]
    /\ keychain = [s \in Stores |-> Nothing]
    /\ file = [s \in Stores |-> Nothing]
    /\ reachable \in BOOLEAN
    /\ login = FALSE /\ unsynced = FALSE
    /\ at = Down
    /\ edits = 0
    /\ owed = [s \in Stores |-> {Empty(s)}]
    /\ found = IF reachable THEN Stores ELSE {}
    /\ torn = {}

\* Whether the keychain answered for s, from now on.
Note(s) == found' = IF reachable THEN found \cup {s} ELSE found \ {s}

\* saved_wants_autostart
Wants(l) == \E i \in DOMAIN l : l[i]

\* The setup of lib.rs goes on with the next store, and boot ends.
Proceed(m) ==
    at' = IF m["recent"] = Nothing THEN Step("recent", "load", FALSE)
          ELSE IF m["settings"] = Nothing THEN Step("settings", "load", FALSE)
          ELSE Idle

\* The copy of s is as good as it gets.
Ended(s) ==
    /\ owed' = [owed EXCEPT ![s] = {mem[s]}]
    /\ IF at.sync
       THEN at' = Step(s, "sync", TRUE)
       ELSE Proceed(mem)

-----------------------------------------------------------------------------
(* Loading                                                                 *)

Start ==
    /\ at = Down
    /\ at' = Step("saved", "load", TRUE)
    /\ UNCHANGED <<mem, keychain, file, reachable, login, unsynced, edits,
                   owed, found, torn>>

InKeychain(s) == s \in Keyed /\ reachable /\ keychain[s] # Nothing

\* What a load of s reads.
OnDisk(s) ==
    IF InKeychain(s) THEN keychain[s]
    ELSE IF file[s] # Nothing THEN file[s]
    ELSE Empty(s)

\* The saved tunnels are written back at once if the keychain had none.
Load(s) ==
    /\ At(s, "load")
    /\ mem' = [mem EXCEPT ![s] = OnDisk(s)]
    /\ owed' = [owed EXCEPT ![s] = {OnDisk(s)}]
    /\ torn' = torn \ {s}
    /\ Note(s)
    /\ IF s = "saved"
       THEN at' = Step(s, IF InKeychain(s) THEN "sync" ELSE "set", TRUE)
       ELSE Proceed(mem')
    /\ UNCHANGED <<keychain, file, reachable, login, unsynced, edits>>

-----------------------------------------------------------------------------
(* Persisting                                                              *)

\* Mutant of SetKeychain: the answer of the keychain is not looked at.
SetUnasked(s) ==
    /\ At(s, "set")
    /\ keychain' = IF reachable THEN [keychain EXCEPT ![s] = mem[s]] ELSE keychain
    /\ at' = Step(s, "unlink", at.sync)
    /\ Note(s)
    /\ UNCHANGED <<mem, file, reachable, login, unsynced, edits, owed, torn>>

SetKeychain(s) ==
    /\ At(s, "set")
    /\ IF reachable
       THEN /\ keychain' = [keychain EXCEPT ![s] = mem[s]]
            /\ at' = Step(s, "unlink", at.sync)
            /\ Note(s)
       ELSE /\ at' = Step(s, "write", at.sync)
            /\ UNCHANGED <<keychain, found>>
    /\ UNCHANGED <<mem, file, reachable, login, unsynced, edits, owed, torn>>

Unlink(s) ==
    /\ At(s, "unlink")
    /\ file' = [file EXCEPT ![s] = Nothing]
    /\ torn' = torn \ {s}
    /\ Ended(s)
    /\ UNCHANGED <<mem, keychain, reachable, login, unsynced, edits, found>>

\* fs::write empties the file first.
Truncate(s) ==
    /\ At(s, "write")
    /\ file' = [file EXCEPT ![s] = Nothing]
    /\ at' = Step(s, "fill", at.sync)
    /\ UNCHANGED <<mem, keychain, reachable, login, unsynced, edits,
                   owed, found, torn>>

Fill(s) ==
    /\ At(s, "fill")
    /\ file' = [file EXCEPT ![s] = mem[s]]
    /\ torn' = torn \ {s}
    /\ found' = found \ {s}
    /\ Ended(s)
    /\ UNCHANGED <<mem, keychain, reachable, login, unsynced, edits>>

\* The file cannot be opened, or not be filled, and nobody is told.
WriteFails(s) ==
    /\ At(s, "write") \/ At(s, "fill")
    /\ torn' = torn \cup {s}
    /\ Ended(s)
    /\ UNCHANGED <<mem, keychain, file, reachable, login, unsynced, edits, found>>

\* autostart_sync.  A login item that cannot be read counts as off, and one
\* that cannot be set is left as it is; nobody is told.
Sync ==
    /\ At("saved", "sync")
    /\ \E readable, settable \in BOOLEAN :
          LET want == Wants(mem["saved"])
              on   == readable /\ login
          IN /\ login' = IF want # on /\ settable THEN want ELSE login
             /\ unsynced' = (~readable \/ (want # on /\ ~settable))
    /\ Proceed(mem)
    /\ UNCHANGED <<mem, keychain, file, reachable, edits, owed, found, torn>>

-----------------------------------------------------------------------------
(* Commands                                                                *)

Edit(s, new, sync) ==
    /\ at = Idle /\ edits < MaxEdits
    /\ mem' = [mem EXCEPT ![s] = new]
    /\ owed' = [owed EXCEPT ![s] = {mem[s], new}]
    /\ at' = Step(s, IF s \in Keyed THEN "set" ELSE "write", sync)
    /\ edits' = edits + 1
    /\ UNCHANGED <<keychain, file, reachable, login, unsynced, found, torn>>

Put(l, i, auto) == [j \in DOMAIN l \cup {i} |-> IF j = i THEN auto ELSE l[j]]

saved_save(i, auto) == Edit("saved", Put(mem["saved"], i, auto), TRUE)

\* Mutant of saved_delete: the login item is not looked at.
DeleteUnsynced(i) ==
    Edit("saved", [j \in DOMAIN mem["saved"] \ {i} |-> mem["saved"][j]], FALSE)

saved_delete(i) ==
    Edit("saved", [j \in DOMAIN mem["saved"] \ {i} |-> mem["saved"][j]], TRUE)

\* The only edit of the list that leaves the login item alone.
saved_duplicate(i, copy) ==
    /\ at = Idle /\ i \in DOMAIN mem["saved"] /\ copy \notin DOMAIN mem["saved"]
    /\ Edit("saved", Put(mem["saved"], copy, mem["saved"][i]), FALSE)

\* One imported record <<id, autostart>>.
Merge(l, r) ==
    IF Cardinality(DOMAIN l) >= MaxSaved THEN l ELSE Put(l, r[1], r[2])

\* An import of two records; an empty one, or one that does not parse, does
\* nothing.
saved_import(p, q) == Edit("saved", Merge(Merge(mem["saved"], p), q), TRUE)

\* An entry is at most once in the list.
Pushed(l, x) ==
    LET kept == IF x \in Range(l) THEN RemoveAt(l, CHOOSE i \in DOMAIN l : l[i] = x) ELSE l
        new  == <<x>> \o kept
    IN SubSeq(new, 1, IF Len(new) > RecentMax THEN RecentMax ELSE Len(new))

recent_add(x) == at = Idle /\ Edit("recent", Pushed(mem["recent"], x), FALSE)

recent_clear == Edit("recent", <<>>, FALSE)

settings_set(limit) == Edit("settings", limit, FALSE)

-----------------------------------------------------------------------------
(* The surroundings                                                        *)

KeychainMoves ==
    /\ reachable' = ~reachable
    /\ UNCHANGED <<mem, keychain, file, login, unsynced, at, edits,
                   owed, found, torn>>

\* The application quits or crashes.
Crash ==
    /\ at # Down
    /\ torn' = IF at.step = "fill" THEN torn \cup {at.store} ELSE torn
    /\ mem' = [s \in Stores |-> Nothing]
    /\ at' = Down
    /\ UNCHANGED <<keychain, file, reachable, login, unsynced, edits,
                   owed, found>>

Persist(s) == SetKeychain(s) \/ Unlink(s) \/ Truncate(s) \/ Fill(s) \/ WriteFails(s)

Next ==
    \/ Start \/ Sync \/ KeychainMoves \/ Crash
    \/ \E s \in Stores : Load(s) \/ Persist(s)
    \/ \E i \in Ids, auto \in BOOLEAN : saved_save(i, auto)
    \/ \E i \in Ids : saved_delete(i)
    \/ \E i, copy \in Ids : saved_duplicate(i, copy)
    \/ \E p, q \in Ids \X BOOLEAN : saved_import(p, q)
    \/ \E x \in Labels : recent_add(x)
    \/ recent_clear
    \/ \E limit \in Limits : settings_set(limit)

Spec == Init /\ [][Next]_vars

-----------------------------------------------------------------------------
(* Properties                                                              *)

ListsOK ==
    /\ {DOMAIN mem, DOMAIN keychain, DOMAIN file, DOMAIN owed} = {Stores}
    /\ \A s \in Stores :
          /\ {mem[s], keychain[s], file[s]} \subseteq Contents(s) \cup {Nothing}
          /\ s \notin Keyed => keychain[s] = Nothing
          /\ owed[s] \subseteq Contents(s)

PlaceOK ==
    /\ at \in {Down, Idle} \cup
             [store : Stores, step : {"load", "set", "unlink", "write", "fill", "sync"},
              sync : BOOLEAN]
    /\ at.step \in {"set", "unlink"} => at.store \in Keyed
    /\ at = Idle => \A s \in Stores : mem[s] # Nothing

TypeOK ==
    /\ ListsOK /\ PlaceOK
    /\ {reachable, login, unsynced} \subseteq BOOLEAN
    /\ edits \in 0 .. MaxEdits
    /\ found \subseteq Stores /\ torn \subseteq Stores

\* Between two commands every list in memory has an up-to-date copy, whatever
\* the keychain does, unless a write of the file failed.
CopyKept ==
    at = Idle => \A s \in Stores \ torn :
        \/ mem[s] \in {keychain[s], file[s]}
        \/ mem[s] = Empty(s) /\ file[s] = Nothing

\* A restart brings back what the last finished command left, or what the one
\* it cut was to leave: a permanent tunnel, a recent connection or the total
\* speed limit is lost only if a write of the file failed or was cut, or if
\* the keychain answers now and did not before, or the reverse.
RestartKeeps ==
    [][\A s \in Stores :
          At(s, "load") /\ at' \notin {at, Down} /\ s \notin torn
            /\ (s \in Keyed => (reachable <=> s \in found))
          => mem'[s] \in owed[s]]_vars

\* saved.rs: "Keep login autostart in sync with saved tunnels".  After a crash
\* between the list and the login item, and after errors of the system, one
\* sync without an error is enough; a duplicate needs none.
LoginFollows == at = Idle /\ ~unsynced => (login <=> Wants(mem["saved"]))
=============================================================================
