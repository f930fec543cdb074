-------------------------- MODULE SavedStore_proof --------------------------
(***************************************************************************)
(* Proofs about SavedStore, for any ids, labels, limits and number of      *)
(* commands.                                                               *)
(*                                                                         *)
(* What a restart would read (Back) is only what memory holds while no     *)
(* write is under way; Owing says what it is in the middle of one, in      *)
(* terms of the contents owed, and for both answers of the keychain, which *)
(* comes and goes without a step of the application.                       *)
(***************************************************************************)
EXTENDS SavedStore, TLAPS

Writing(s) == at.store = s /\ at.step \in {"set", "unlink", "write", "fill"}

\* What is in memory at each point of a command and of the setup.
Places ==
    /\ at = Down => mem["saved"] = Nothing
    /\ at # Down /\ ~At("saved", "load") => mem["saved"] # Nothing
    /\ at.step = "load" => (at.sync <=> at.store = "saved")
    /\ \A s \in Stores : Writing(s) => mem[s] # Nothing
    /\ \A s \in Stores : At(s, "unlink") => keychain[s] = mem[s] /\ s \in found

Copied(s) ==
    \/ mem[s] \in {keychain[s], file[s]}
    \/ mem[s] = Empty(s) /\ file[s] = Nothing

Copies == \A s \in Stores \ torn : mem[s] # Nothing /\ ~Writing(s) => Copied(s)

\* What a load of s would read if the keychain answers as it did last.
Back(s) ==
    IF s \in Keyed /\ s \in found /\ keychain[s] # Nothing THEN keychain[s]
    ELSE IF file[s] # Nothing THEN file[s] ELSE Empty(s)

Owing == \A s \in Stores :
    /\ mem[s] # Nothing => mem[s] \in owed[s]
    /\ mem[s] # Nothing /\ ~Writing(s) => owed[s] = {mem[s]}
    /\ s \notin torn /\ ~At(s, "fill") => Back(s) \in owed[s]

Synced ==
    mem["saved"] # Nothing /\ ~at.sync /\ ~unsynced => (login <=> Wants(mem["saved"]))

IInv == TypeOK /\ Places /\ Copies /\ Owing /\ Synced

-----------------------------------------------------------------------------
(* recent_push keeps a list of labels.                                      *)
LEMMA PushedType ==
  ASSUME NEW l \in Seq(Labels), NEW x \in Labels
  PROVE  Pushed(l, x) \in Seq(Labels)
<1>1. \A i \in DOMAIN l : RemoveAt(l, i) \in Seq(Labels)
  BY DEF RemoveAt
<1>2. (IF x \in Range(l) THEN RemoveAt(l, CHOOSE i \in DOMAIN l : l[i] = x) ELSE l)
         \in Seq(Labels)
  BY <1>1 DEF Range
<1> DEFINE kept == IF x \in Range(l) THEN RemoveAt(l, CHOOSE i \in DOMAIN l : l[i] = x) ELSE l
           new  == <<x>> \o kept
           n    == IF Len(new) > RecentMax THEN RecentMax ELSE Len(new)
<1>3. new \in Seq(Labels)
  BY <1>2
<1> HIDE DEF new
<1>4. n \in Nat /\ n <= Len(new)
  BY <1>3, StoreAssumption
<1> HIDE DEF n
<1>5. SubSeq(new, 1, n) \in Seq(Labels)
  BY <1>3, <1>4
<1>6. QED
  BY <1>5 DEF Pushed, new, n, kept

(* An unreadable copy counts for contents of its store.                     *)
LEMMA EmptyType == \A s \in Stores : Empty(s) \in Contents(s)
<1>1. <<>> \in [{} -> BOOLEAN]
  OBVIOUS
<1>2. <<>> \in SavedLists
  BY <1>1 DEF SavedLists
<1>3. <<>> \in Seq(Labels)
  OBVIOUS
<1>4. /\ Contents("saved") = SavedLists
      /\ Contents("recent") = Seq(Labels)
      /\ Contents("settings") = Limits \cup {0}
  BY DEF Contents
<1>5. QED
  BY <1>2, <1>3, <1>4 DEF Empty, Stores

(* saved_upsert, and with it an imported record, keeps a list of tunnels.   *)
LEMMA PutType ==
  ASSUME NEW l \in SavedLists, NEW i \in Ids, NEW b \in BOOLEAN
  PROVE  Put(l, i, b) \in SavedLists
<1>1. PICK S \in SUBSET Ids : l \in [S -> BOOLEAN]
  BY DEF SavedLists
<1>2. Put(l, i, b) \in [S \cup {i} -> BOOLEAN]
  BY <1>1 DEF Put
<1>3. QED
  BY <1>2 DEF SavedLists

(* An import gives a list of saved tunnels.                                 *)
LEMMA MergeType ==
  ASSUME NEW l \in SavedLists, NEW r \in Ids \X BOOLEAN
  PROVE  Merge(l, r) \in SavedLists
  BY PutType DEF Merge

(* What a list holds.                                                       *)
LEMMA ContentsOf ==
  /\ Contents("saved") = SavedLists
  /\ Contents("recent") = Seq(Labels)
  /\ Contents("settings") = Limits \cup {0}
  BY DEF Contents

(* Every command edits one list, and one that does not look at the login    *)
(* item afterwards does not change whether a tunnel wants it.               *)
LEMMA Commands ==
  ASSUME TypeOK,
         \/ \E i \in Ids, auto \in BOOLEAN : saved_save(i, auto)
         \/ \E i \in Ids : saved_delete(i)
         \/ \E i, copy \in Ids : saved_duplicate(i, copy)
         \/ \E p, q \in Ids \X BOOLEAN : saved_import(p, q)
         \/ \E x \in Labels : recent_add(x)
         \/ recent_clear
         \/ \E limit \in Limits : settings_set(limit)
  PROVE  \E s \in Stores, sync \in BOOLEAN : \E new \in Contents(s) :
            /\ Edit(s, new, sync)
            /\ s = "saved" /\ ~sync => (Wants(new) <=> Wants(mem["saved"]))
<1>1. at = Idle
  BY DEF saved_save, saved_delete, saved_duplicate, saved_import, recent_add, recent_clear,
         settings_set, Edit
<1>2. mem["saved"] \in SavedLists /\ mem["recent"] \in Seq(Labels)
  BY <1>1, ContentsOf DEF TypeOK, ListsOK, PlaceOK, Stores
<1>3. ASSUME NEW i \in Ids, NEW auto \in BOOLEAN, saved_save(i, auto)
      PROVE  Edit("saved", Put(mem["saved"], i, auto), TRUE)
               /\ Put(mem["saved"], i, auto) \in SavedLists
  BY <1>2, <1>3, PutType DEF saved_save
<1>4. ASSUME NEW i \in Ids, saved_delete(i)
      PROVE  \E new \in SavedLists : Edit("saved", new, TRUE)
  <2> DEFINE new == [j \in DOMAIN mem["saved"] \ {i} |-> mem["saved"][j]]
  <2>1. PICK S \in SUBSET Ids : mem["saved"] \in [S -> BOOLEAN]
    BY <1>2 DEF SavedLists
  <2>2. new \in [S \ {i} -> BOOLEAN]
    BY <2>1
  <2>3. new \in SavedLists
    BY <2>2 DEF SavedLists
  <2>4. QED
    BY <1>4, <2>3 DEF saved_delete
<1>5. ASSUME NEW i \in Ids, NEW copy \in Ids, saved_duplicate(i, copy)
      PROVE  \E new \in SavedLists :
                Edit("saved", new, FALSE) /\ (Wants(new) <=> Wants(mem["saved"]))
  <2> DEFINE new == Put(mem["saved"], copy, mem["saved"][i])
  <2>1. /\ i \in DOMAIN mem["saved"] /\ copy \notin DOMAIN mem["saved"]
        /\ Edit("saved", new, FALSE)
    BY <1>5 DEF saved_duplicate
  <2>2. mem["saved"][i] \in BOOLEAN
    BY <1>2, <2>1 DEF SavedLists
  <2>3. new \in SavedLists
    BY <1>2, <2>2, PutType
  <2>4. DOMAIN new = DOMAIN mem["saved"] \cup {copy}
    BY DEF Put
  <2>5. \A j \in DOMAIN new : new[j] = IF j = copy THEN mem["saved"][i] ELSE mem["saved"][j]
    BY DEF Put
  <2> HIDE DEF new
  <2>6. Wants(new) <=> Wants(mem["saved"])
    BY <2>1, <2>4, <2>5 DEF Wants
  <2>7. QED
    BY <2>1, <2>3, <2>6
<1>6. ASSUME NEW p \in Ids \X BOOLEAN, NEW q \in Ids \X BOOLEAN, saved_import(p, q)
      PROVE  \E new \in SavedLists : Edit("saved", new, TRUE)
  BY <1>2, <1>6, MergeType DEF saved_import
<1>7. ASSUME NEW x \in Labels, recent_add(x)
      PROVE  \E new \in Seq(Labels) : Edit("recent", new, FALSE)
  BY <1>2, <1>7, PushedType DEF recent_add
<1>8. ASSUME recent_clear
      PROVE  \E new \in Seq(Labels) : Edit("recent", new, FALSE)
  BY <1>8, EmptyType, ContentsOf DEF recent_clear, Empty, Stores
<1>9. ASSUME NEW limit \in Limits, settings_set(limit)
      PROVE  \E new \in Limits \cup {0} : Edit("settings", new, FALSE)
  BY <1>9 DEF settings_set
<1>10. QED
  BY <1>3, <1>4, <1>5, <1>6, <1>7, <1>8, <1>9, ContentsOf DEF Stores

(* Next, with the commands as one edit.                                     *)
LEMMA NextCases ==
  ASSUME TypeOK, Next
  PROVE  \/ Start \/ Sync \/ KeychainMoves \/ Crash
         \/ \E s \in Stores : Load(s) \/ SetKeychain(s) \/ Unlink(s)
         \/ \E s \in Stores : Truncate(s) \/ Fill(s) \/ WriteFails(s)
         \/ \E s \in Stores, sync \in BOOLEAN : \E new \in Contents(s) :
               /\ Edit(s, new, sync)
               /\ s = "saved" /\ ~sync => (Wants(new) <=> Wants(mem["saved"]))
  BY Commands DEF Next, Persist

(* Where setup goes on after a store: at a load, or in the idle loop once   *)
(* every store is loaded.                                                   *)
LEMMA Proceeds ==
  ASSUME NEW m, Proceed(m)
  PROVE  \/ at' = Step("recent", "load", FALSE)
         \/ at' = Step("settings", "load", FALSE)
         \/ at' = Idle /\ m["recent"] # Nothing /\ m["settings"] # Nothing
  BY DEF Proceed

(* A command goes on to one of its places.                                  *)
LEMMA ProceedsToPlace ==
  ASSUME Proceed(mem'), mem'["saved"] # Nothing
  PROVE  PlaceOK'
<1>1. ASSUME NEW t \in Stores, at' = Step(t, "load", FALSE) PROVE PlaceOK'
  <2>1. at' \in [store : Stores, step : {"load", "set", "unlink", "write", "fill", "sync"},
                 sync : BOOLEAN]
    BY <1>1 DEF Step
  <2>2. at' # Idle /\ at'.step = "load"
    BY <1>1 DEF Step, Idle
  <2>3. QED
    BY <2>1, <2>2 DEF PlaceOK
<1>2. CASE at' = Idle /\ mem'["recent"] # Nothing /\ mem'["settings"] # Nothing
  BY <1>2 DEF PlaceOK, Idle, Step, Stores
<1>3. QED
  BY <1>1, <1>2, Proceeds DEF Stores

(* A finished command leaves the place idle.                                *)
LEMMA EndsInPlace ==
  ASSUME TypeOK, Places, NEW s \in Stores, Writing(s), Ended(s), UNCHANGED mem
  PROVE  PlaceOK'
<1>1. at.sync \in BOOLEAN /\ at \notin {Down, Idle} /\ ~At("saved", "load")
  BY DEF TypeOK, PlaceOK, Writing, Down, Idle, Step, At
<1>2. CASE at.sync
  <2>1. at' = Step(s, "sync", TRUE)
    BY <1>2 DEF Ended
  <2>2. at' \in [store : Stores, step : {"load", "set", "unlink", "write", "fill", "sync"},
                 sync : BOOLEAN]
    BY <2>1 DEF Step
  <2>3. at' # Idle /\ at'.step = "sync"
    BY <2>1 DEF Step, Idle
  <2>4. QED
    BY <2>2, <2>3 DEF PlaceOK
<1>3. CASE ~at.sync
  BY <1>1, <1>3, ProceedsToPlace DEF Ended, Places
<1>4. QED
  BY <1>2, <1>3

(* What load() can give back.                                               *)
LEMMA Loads ==
  ASSUME TypeOK, NEW s \in Stores
  PROVE  OnDisk(s) \in Contents(s)
<1>1. file[s] \in Contents(s) \cup {Nothing} /\ keychain[s] \in Contents(s) \cup {Nothing}
  BY DEF TypeOK, ListsOK
<1>2. QED
  BY <1>1, EmptyType DEF OnDisk, InKeychain

(* Every step keeps the lists.                                              *)
LEMMA ListsStep == TypeOK /\ Places /\ [Next]_vars => ListsOK'
  <1> SUFFICES ASSUME TypeOK, Places, [Next]_vars PROVE ListsOK'
    OBVIOUS
  <1> USE DEF TypeOK, ListsOK, PlaceOK, Places, Writing, At, Down, Idle, Step, Keyed, Stores
  <1>1. CASE Start
    BY <1>1 DEF Start
  <1>2. CASE Sync
    BY <1>2, Proceeds DEF Sync
  <1>3. CASE KeychainMoves
    BY <1>3 DEF KeychainMoves
  <1>4. CASE Crash
    BY <1>4 DEF Crash
  <1>5. ASSUME NEW s \in Stores, Load(s) PROVE ListsOK'
    BY <1>5, Loads, Proceeds DEF Load, Note
  <1>6. ASSUME NEW s \in Stores, SetKeychain(s) PROVE ListsOK'
    BY <1>6 DEF SetKeychain, Note
  <1>7. ASSUME NEW s \in Stores, Unlink(s) PROVE ListsOK'
    BY <1>7, Proceeds DEF Unlink, Ended
  <1>8. ASSUME NEW s \in Stores, Truncate(s) PROVE ListsOK'
    BY <1>8 DEF Truncate
  <1>9. ASSUME NEW s \in Stores, Fill(s) PROVE ListsOK'
    BY <1>9, Proceeds DEF Fill, Ended
  <1>10. ASSUME NEW s \in Stores, WriteFails(s) PROVE ListsOK'
    BY <1>10, Proceeds DEF WriteFails, Ended
  <1>11. ASSUME NEW s \in Stores, NEW new \in Contents(s), NEW sync \in BOOLEAN,
                Edit(s, new, sync)
         PROVE  ListsOK'
    BY <1>11 DEF Edit
  <1>12. CASE UNCHANGED vars
    BY <1>12 DEF vars
  <1>13. QED
    BY <1>1, <1>2, <1>3, <1>4, <1>5, <1>6, <1>7, <1>8, <1>9, <1>10, <1>11, <1>12,
       NextCases

(* Every step keeps the place.                                              *)
LEMMA PlaceStep == TypeOK /\ Places /\ [Next]_vars => PlaceOK'
  <1> SUFFICES ASSUME TypeOK, Places, [Next]_vars PROVE PlaceOK'
    OBVIOUS
  <1> USE NothingAssumption
      DEF TypeOK, ListsOK, PlaceOK, Places, Writing, At, Down, Idle, Step, Keyed, Stores
  <1>1. CASE Start
    BY <1>1 DEF Start
  <1>2. CASE Sync
    <2>1. Proceed(mem') /\ mem'["saved"] # Nothing
      BY <1>2 DEF Sync
    <2>2. QED
      BY <2>1, ProceedsToPlace
  <1>3. CASE KeychainMoves
    BY <1>3 DEF KeychainMoves
  <1>4. CASE Crash
    BY <1>4 DEF Crash
  <1>5. ASSUME NEW s \in Stores, Load(s) PROVE PlaceOK'
    <2> HIDE DEF PlaceOK, Step, Down, Idle
    <2>2. CASE s = "saved"
      <3>1. PICK p \in {"sync", "set"} : at' = Step(s, p, TRUE)
        BY <1>5, <2>2 DEF Load
      <3>2. at' \in [store : Stores, step : {"load", "set", "unlink", "write", "fill", "sync"},
                     sync : BOOLEAN]
        BY <3>1 DEF Step
      <3>3. at' # Idle /\ at'.step # "unlink" /\ at'.store \in Keyed
        BY <2>2, <3>1 DEF Step, Idle
      <3>4. QED
        BY <3>2, <3>3 DEF PlaceOK
    <2>3. CASE s # "saved"
      <3>1. Proceed(mem') /\ mem'["saved"] # Nothing
        BY <1>5, <2>3 DEF Load, Down, Step
      <3>2. QED
        BY <3>1, ProceedsToPlace
    <2>4. QED
      BY <2>2, <2>3
  <1>6. ASSUME NEW s \in Stores, SetKeychain(s) PROVE PlaceOK'
    BY <1>6 DEF SetKeychain, Note
  <1>7. ASSUME NEW s \in Stores, Unlink(s) PROVE PlaceOK'
    <2>1. Writing(s) /\ Ended(s) /\ UNCHANGED mem
      BY <1>7 DEF Unlink
    <2>2. QED
      BY <2>1, EndsInPlace
  <1>8. ASSUME NEW s \in Stores, Truncate(s) PROVE PlaceOK'
    BY <1>8 DEF Truncate
  <1>9. ASSUME NEW s \in Stores, Fill(s) PROVE PlaceOK'
    <2>1. Writing(s) /\ Ended(s) /\ UNCHANGED mem
      BY <1>9 DEF Fill
    <2>2. QED
      BY <2>1, EndsInPlace
  <1>10. ASSUME NEW s \in Stores, WriteFails(s) PROVE PlaceOK'
    <2>1. Writing(s) /\ Ended(s) /\ UNCHANGED mem
      BY <1>10 DEF WriteFails
    <2>2. QED
      BY <2>1, EndsInPlace
  <1>11. ASSUME NEW s \in Stores, NEW new \in Contents(s), NEW sync \in BOOLEAN,
                Edit(s, new, sync)
         PROVE  PlaceOK'
    BY <1>11 DEF Edit
  <1>12. CASE UNCHANGED vars
    BY <1>12 DEF vars
  <1>13. QED
    BY <1>1, <1>2, <1>3, <1>4, <1>5, <1>6, <1>7, <1>8, <1>9, <1>10, <1>11, <1>12,
       NextCases

(* Every step keeps the types.                                              *)
LEMMA TypeStep == TypeOK /\ Places /\ [Next]_vars => TypeOK'
  <1> SUFFICES ASSUME TypeOK, Places, [Next]_vars PROVE TypeOK'
    OBVIOUS
  <1> USE StoreAssumption, ListsStep, PlaceStep DEF TypeOK
  <1>1. CASE Start
    BY <1>1 DEF Start
  <1>2. CASE Sync
    BY <1>2, Proceeds DEF Sync, Wants
  <1>3. CASE KeychainMoves
    BY <1>3 DEF KeychainMoves
  <1>4. CASE Crash
    BY <1>4 DEF Crash, PlaceOK, Down, Idle, Step
  <1>5. ASSUME NEW s \in Stores, Load(s) PROVE TypeOK'
    BY <1>5, Loads, Proceeds DEF Load, Note, At
  <1>6. ASSUME NEW s \in Stores, SetKeychain(s) PROVE TypeOK'
    BY <1>6 DEF SetKeychain, Note, At
  <1>7. ASSUME NEW s \in Stores, Unlink(s) PROVE TypeOK'
    BY <1>7, Proceeds DEF Unlink, Ended, At
  <1>8. ASSUME NEW s \in Stores, Truncate(s) PROVE TypeOK'
    BY <1>8 DEF Truncate, At
  <1>9. ASSUME NEW s \in Stores, Fill(s) PROVE TypeOK'
    BY <1>9, Proceeds DEF Fill, Ended, At
  <1>10. ASSUME NEW s \in Stores, WriteFails(s) PROVE TypeOK'
    BY <1>10, Proceeds DEF WriteFails, Ended, At
  <1>11. ASSUME NEW s \in Stores, NEW new \in Contents(s), NEW sync \in BOOLEAN,
                Edit(s, new, sync)
         PROVE  TypeOK'
    BY <1>11 DEF Edit, PlaceOK
  <1>12. CASE UNCHANGED vars
    BY <1>12 DEF vars
  <1>13. QED
    BY <1>1, <1>2, <1>3, <1>4, <1>5, <1>6, <1>7, <1>8, <1>9, <1>10, <1>11, <1>12,
       NextCases

(* Every step keeps what a place implies.                                   *)
LEMMA PlacesStep == TypeOK /\ Places /\ [Next]_vars => Places'
  <1> SUFFICES ASSUME TypeOK, Places, [Next]_vars PROVE Places'
    OBVIOUS
  <1> USE NothingAssumption
      DEF TypeOK, ListsOK, PlaceOK, Places, Writing, At, Down, Idle, Step, Keyed, Stores
  <1>1. CASE Start
    BY <1>1 DEF Start
  <1>2. CASE Sync
    BY <1>2, Proceeds DEF Sync
  <1>3. CASE KeychainMoves
    BY <1>3 DEF KeychainMoves
  <1>4. CASE Crash
    BY <1>4 DEF Crash
  <1>5. ASSUME NEW s \in Stores, Load(s) PROVE Places'
    BY <1>5, Loads, Proceeds DEF Load, Note
  <1>6. ASSUME NEW s \in Stores, SetKeychain(s) PROVE Places'
    BY <1>6 DEF SetKeychain, Note
  <1>7. ASSUME NEW s \in Stores, Unlink(s) PROVE Places'
    BY <1>7, Proceeds DEF Unlink, Ended
  <1>8. ASSUME NEW s \in Stores, Truncate(s) PROVE Places'
    BY <1>8 DEF Truncate
  <1>9. ASSUME NEW s \in Stores, Fill(s) PROVE Places'
    BY <1>9, Proceeds DEF Fill, Ended
  <1>10. ASSUME NEW s \in Stores, WriteFails(s) PROVE Places'
    BY <1>10, Proceeds DEF WriteFails, Ended
  <1>11. ASSUME NEW s \in Stores, NEW new \in Contents(s), NEW sync \in BOOLEAN,
                Edit(s, new, sync)
         PROVE  Places'
    BY <1>11 DEF Edit
  <1>12. CASE UNCHANGED vars
    BY <1>12 DEF vars
  <1>13. QED
    BY <1>1, <1>2, <1>3, <1>4, <1>5, <1>6, <1>7, <1>8, <1>9, <1>10, <1>11, <1>12,
       NextCases

(* Every step keeps a copy that can be read.                                *)
LEMMA CopyStep == TypeOK /\ Places /\ Copies /\ [Next]_vars => Copies'
  <1> SUFFICES ASSUME TypeOK, Places, Copies, [Next]_vars PROVE Copies'
    OBVIOUS
  <1> USE DEF TypeOK, ListsOK, PlaceOK, Places, Copies, Copied, Writing, At, Down, Idle, Step
  <1>1. CASE Start
    BY <1>1 DEF Start
  <1>2. CASE Sync
    BY <1>2, Proceeds DEF Sync
  <1>3. CASE KeychainMoves
    BY <1>3 DEF KeychainMoves
  <1>4. CASE Crash
    BY <1>4 DEF Crash
  <1>5. ASSUME NEW s \in Stores, Load(s) PROVE Copies'
    BY <1>5, Proceeds DEF Load, OnDisk, InKeychain
  <1>6. ASSUME NEW s \in Stores, SetKeychain(s) PROVE Copies'
    BY <1>6 DEF SetKeychain, Note
  <1>7. ASSUME NEW s \in Stores, Unlink(s) PROVE Copies'
    BY <1>7, Proceeds DEF Unlink, Ended
  <1>8. ASSUME NEW s \in Stores, Truncate(s) PROVE Copies'
    BY <1>8 DEF Truncate
  <1>9. ASSUME NEW s \in Stores, Fill(s) PROVE Copies'
    BY <1>9, Proceeds DEF Fill, Ended
  <1>10. ASSUME NEW s \in Stores, WriteFails(s) PROVE Copies'
    BY <1>10, Proceeds DEF WriteFails, Ended
  <1>11. ASSUME NEW s \in Stores, NEW new \in Contents(s), NEW sync \in BOOLEAN,
                Edit(s, new, sync)
         PROVE  Copies'
    BY <1>11 DEF Edit, Keyed
  <1>12. CASE UNCHANGED vars
    BY <1>12 DEF vars
  <1>13. QED
    BY <1>1, <1>2, <1>3, <1>4, <1>5, <1>6, <1>7, <1>8, <1>9, <1>10, <1>11, <1>12,
       NextCases

(* Every step keeps what the stores owe a restart.                          *)
LEMMA OwingStep == TypeOK /\ Places /\ Owing /\ [Next]_vars => Owing'
  <1> SUFFICES ASSUME TypeOK, Places, Owing, [Next]_vars PROVE Owing'
    OBVIOUS
  <1> USE DEF TypeOK, ListsOK, PlaceOK, Places, Owing, Writing, Back, At, Down, Idle, Step
  <1>1. CASE Start
    BY <1>1 DEF Start
  <1>2. CASE Sync
    BY <1>2, Proceeds DEF Sync
  <1>3. CASE KeychainMoves
    BY <1>3 DEF KeychainMoves
  <1>4. CASE Crash
    BY <1>4 DEF Crash
  <1>5. ASSUME NEW s \in Stores, Load(s) PROVE Owing'
    BY <1>5, Loads, Proceeds DEF Load, Note, OnDisk, InKeychain
  <1>6. ASSUME NEW s \in Stores, SetKeychain(s) PROVE Owing'
    BY <1>6 DEF SetKeychain, Note
  <1>7. ASSUME NEW s \in Stores, Unlink(s) PROVE Owing'
    BY <1>7, Proceeds DEF Unlink, Ended
  <1>8. ASSUME NEW s \in Stores, Truncate(s) PROVE Owing'
    BY <1>8 DEF Truncate
  <1>9. ASSUME NEW s \in Stores, Fill(s) PROVE Owing'
    BY <1>9, Proceeds DEF Fill, Ended
  <1>10. ASSUME NEW s \in Stores, WriteFails(s) PROVE Owing'
    BY <1>10, Proceeds DEF WriteFails, Ended
  <1>11. ASSUME NEW s \in Stores, NEW new \in Contents(s), NEW sync \in BOOLEAN,
                Edit(s, new, sync)
         PROVE  Owing'
    BY <1>11 DEF Edit, Keyed
  <1>12. CASE UNCHANGED vars
    BY <1>12 DEF vars
  <1>13. QED
    BY <1>1, <1>2, <1>3, <1>4, <1>5, <1>6, <1>7, <1>8, <1>9, <1>10, <1>11, <1>12,
       NextCases

(* Every step keeps the login item in step.                                 *)
LEMMA SyncStep == TypeOK /\ Places /\ Synced /\ [Next]_vars => Synced'
  <1> SUFFICES ASSUME TypeOK, Places, Synced, [Next]_vars PROVE Synced'
    OBVIOUS
  <1> USE DEF TypeOK, PlaceOK, Places, Synced, Writing, At, Down, Idle, Step, Stores
  <1>1. CASE Start
    BY <1>1 DEF Start
  <1>2. CASE Sync
    BY <1>2, Proceeds DEF Sync
  <1>3. CASE KeychainMoves
    BY <1>3 DEF KeychainMoves
  <1>4. CASE Crash
    BY <1>4 DEF Crash
  <1>5. ASSUME NEW s \in Stores, Load(s) PROVE Synced'
    BY <1>5, Loads, Proceeds DEF Load, Note
  <1>6. ASSUME NEW s \in Stores, SetKeychain(s) PROVE Synced'
    BY <1>6 DEF SetKeychain, Note
  <1>7. ASSUME NEW s \in Stores, Unlink(s) PROVE Synced'
    BY <1>7, Proceeds DEF Unlink, Ended
  <1>8. ASSUME NEW s \in Stores, Truncate(s) PROVE Synced'
    BY <1>8 DEF Truncate
  <1>9. ASSUME NEW s \in Stores, Fill(s) PROVE Synced'
    BY <1>9, Proceeds DEF Fill, Ended
  <1>10. ASSUME NEW s \in Stores, WriteFails(s) PROVE Synced'
    BY <1>10, Proceeds DEF WriteFails, Ended
  <1>11. ASSUME NEW s \in Stores, NEW new \in Contents(s), NEW sync \in BOOLEAN,
                Edit(s, new, sync),
                s = "saved" /\ ~sync => (Wants(new) <=> Wants(mem["saved"]))
         PROVE  Synced'
    <2>1. mem["saved"] # Nothing /\ (~unsynced => (login <=> Wants(mem["saved"])))
      BY <1>11 DEF Edit
    <2>2. /\ at'.sync = sync /\ login' = login /\ unsynced' = unsynced
          /\ mem'["saved"] = IF s = "saved" THEN new ELSE mem["saved"]
      BY <1>11 DEF Edit, ListsOK
    <2>3. QED
      BY <1>11, <2>1, <2>2
  <1>12. CASE UNCHANGED vars
    BY <1>12 DEF vars
  <1>13. QED
    BY <1>1, <1>2, <1>3, <1>4, <1>5, <1>6, <1>7, <1>8, <1>9, <1>10, <1>11, <1>12,
       NextCases

-----------------------------------------------------------------------------
(* Together they are kept by every step.                                    *)
LEMMA Inductive == Spec => []IInv
<1>1. Init => IInv
  <2> SUFFICES ASSUME Init PROVE IInv
    OBVIOUS
  <2>1. \A s \in Stores : /\ mem[s] = Nothing /\ keychain[s] = Nothing /\ file[s] = Nothing
                          /\ owed[s] = {Empty(s)}
    BY DEF Init
  <2>2. at.step = "down" /\ at.store = "none" /\ at.sync = FALSE /\ at # Idle /\ at = Down
    BY DEF Init, Down, Idle, Step
  <2>3. ListsOK
    BY <2>1, EmptyType DEF Init, ListsOK
  <2>4. PlaceOK
    BY <2>2 DEF PlaceOK
  <2>5. TypeOK
    <3>1. found \subseteq Stores /\ torn \subseteq Stores
      BY DEF Init
    <3>2. {reachable, login, unsynced} \subseteq BOOLEAN
      BY DEF Init
    <3>3. edits \in 0 .. MaxEdits
      BY StoreAssumption DEF Init
    <3>4. QED
      BY <2>3, <2>4, <3>1, <3>2, <3>3 DEF TypeOK
  <2>6. Places
    BY <2>1, <2>2 DEF Places, Writing, At, Stores
  <2>7. Copies /\ Owing /\ Synced
    BY <2>1, <2>2 DEF Copies, Owing, Back, Synced, Stores
  <2>8. QED
    BY <2>5, <2>6, <2>7 DEF IInv
<1>2. IInv /\ [Next]_vars => IInv'
  BY TypeStep, PlacesStep, CopyStep, OwingStep, SyncStep DEF IInv
<1>3. QED
  BY <1>1, <1>2, PTL DEF Spec

(* Every list of saved.rs, recent.rs and commands.rs keeps its type in      *)
(* memory, in the keychain and on disk, for any number of commands.         *)
THEOREM StoreTypes == Spec => []TypeOK
  BY Inductive, PTL DEF IInv

(* Between two commands every list in memory has an up-to-date copy, unless *)
(* saved_write_file or its like failed to write it.                         *)
THEOREM CopyIsKept == Spec => []CopyKept
<1>1. IInv => CopyKept
  BY DEF IInv, TypeOK, PlaceOK, Copies, Copied, CopyKept, Writing, Idle, Step
<1>2. QED
  BY <1>1, Inductive, PTL

(* After an autostart_sync without an error of the system the login item    *)
(* follows the saved tunnels, through crashes and the edits that leave it   *)
(* alone, until the next sync.                                              *)
THEOREM LoginInStep == Spec => []LoginFollows
<1>1. IInv => LoginFollows
  BY DEF IInv, TypeOK, PlaceOK, Synced, LoginFollows, Idle, Step, Stores
<1>2. QED
  BY <1>1, Inductive, PTL

(* Whenever the application stops, the next saved_load or its like reads    *)
(* what the last command left, or what the one that was cut was to leave.   *)
THEOREM RestartBringsBack == Spec => RestartKeeps
<1> DEFINE Restored(s) ==
      At(s, "load") /\ at' \notin {at, Down} /\ s \notin torn
        /\ (s \in Keyed => (reachable <=> s \in found))
      => mem'[s] \in owed[s]
<1>1. IInv /\ [Next]_vars => \A s \in Stores : Restored(s)
  <2> SUFFICES ASSUME IInv, [Next]_vars, NEW s \in Stores,
                      At(s, "load"), at' \notin {at, Down}, s \notin torn,
                      s \in Keyed => (reachable <=> s \in found)
               PROVE  mem'[s] \in owed[s]
    OBVIOUS
  <2>1. Load(s)
    BY NextCases
       DEF IInv, At, Start, Sync, KeychainMoves, Crash, Load, SetKeychain, Unlink, Truncate,
           Fill, WriteFails, Edit, Down, Idle, Step, vars
  <2>2. OnDisk(s) \in owed[s]
    BY <2>1 DEF IInv, Owing, Back, OnDisk, InKeychain, At
  <2>3. QED
    BY <2>1, <2>2 DEF Load, IInv, TypeOK, ListsOK
<1>2. QED
  BY <1>1, Inductive, PTL DEF Spec, RestartKeeps
=============================================================================
