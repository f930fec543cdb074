----------------------------- MODULE ShareForms -----------------------------
(***************************************************************************)
(* The forms that share a port, share a folder or connect                  *)
(* (renderer/actions.js), the list of saved tunnels they write to          *)
(* (renderer/saved.js) and the question they ask in the place of the toast *)
(* (renderer/ui.js).                                                       *)
(*                                                                         *)
(* A form is an asynchronous function; each of its actions runs up to the  *)
(* next await.  A permanent tunnel is saved first, then started, and the   *)
(* record is rolled back if the start fails.  The user can edit the saved  *)
(* list at any time, through rows that show what was last read.            *)
(***************************************************************************)
EXTENDS Naturals

CONSTANTS
    Forms,     \* the submissions of a form, each with its record's id
    Kind,      \* the form of each submission
    Old,       \* the ids of all other records
    MaxEdits,  \* how many edits of the saved list there are (a bound)
    Nobody

ASSUME FormAssumption ==
    /\ Kind \in [Forms -> {"server", "folder", "client"}]
    /\ Forms \cap Old = {}
    /\ Nobody \notin Forms
    /\ MaxEdits \in Nat

Ids == Forms \cup Old

\* A saved tunnel: whether there is one, its autostart flag, and whether it has
\* the login of its folder share.
Records == [there : BOOLEAN, on : BOOLEAN, login : BOOLEAN]
Absent  == [there |-> FALSE, on |-> FALSE, login |-> FALSE]

Fresh == [there |-> TRUE, on |-> TRUE, login |-> FALSE]

VARIABLES
    store,    \* the saved tunnels, in Rust
    saved,    \* state.saved and its rows
    due,      \* an edit is to be followed by refreshSaved
    edits,    \* how many edits there were
    pc,       \* where each form is
    perm,     \* the forms whose tunnel is to be saved
    reply,    \* what each form's call to the worker came to
    running,  \* the forms whose tunnel the worker runs
    late,     \* the forms whose call timed out
    asking,   \* the form whose question is on screen
    deleted,  \* history: the records the user deleted
    stale,    \* history: the records written back from an outdated copy
    spurned   \* history: the forms whose second save was refused

vars == <<store, saved, due, edits, pc, perm, reply, running, late, asking,
          deleted, stale, spurned>>

Init ==
    /\ \E S \in SUBSET Old : store = [i \in Ids |-> IF i \in S THEN Fresh ELSE Absent]
    /\ saved = store
    /\ due = FALSE
    /\ edits = 0
    /\ pc = [f \in Forms |-> "idle"]
    /\ perm = {}
    /\ reply = [f \in Forms |-> "none"]
    /\ running = {}
    /\ late = {}
    /\ asking = Nobody
    /\ deleted = {}
    /\ stale = {}
    /\ spurned = {}

-----------------------------------------------------------------------------
Goto(f, step) == pc' = [pc EXCEPT ![f] = step]

Put(i, r) == store' = [store EXCEPT ![i] = r]

\* An update of record i made from the copy c.
PutFrom(i, c, r) ==
    /\ Put(i, r)
    /\ stale' = IF store[i] = c THEN stale ELSE stale \cup {i}

\* toast and confirmInline share one element and one timer: whatever is shown
\* next takes the place of a question, whose promise never settles.
Shows(who) == asking' = who

-----------------------------------------------------------------------------
(* Before the start                                                        *)

\* Only a folder form can ask at once, if the path is a broad one.
Submit(f) ==
    /\ pc[f] = "idle"
    /\ perm' \in {perm, perm \cup {f}}
    /\ \/ /\ Kind[f] = "client" /\ Goto(f, "lookup") /\ UNCHANGED asking
       \/ /\ Kind[f] # "client" /\ Goto(f, "save") /\ UNCHANGED asking
       \/ /\ Kind[f] = "folder" /\ Goto(f, "ask") /\ Shows(f)
    /\ UNCHANGED <<store, saved, due, edits, reply, running, late, deleted, stale, spurned>>

\* lookupKey: only a key that is known to be offline is asked about.
Lookup(f) ==
    /\ pc[f] = "lookup"
    /\ \/ Goto(f, "save") /\ UNCHANGED asking
       \/ Goto(f, "ask") /\ Shows(f)
    /\ UNCHANGED <<store, saved, due, edits, perm, reply, running, late, deleted,
                   stale, spurned>>

\* The user says yes or no, or ten seconds pass.
Answer(f) ==
    /\ pc[f] = "ask" /\ asking = f
    /\ Shows(Nobody)
    /\ Goto(f, "save") \/ Goto(f, "aborted")
    /\ UNCHANGED <<store, saved, due, edits, perm, reply, running, late, deleted,
                   stale, spurned>>

SaveFirst(f) ==
    /\ pc[f] = "save"
    /\ IF f \in perm THEN Put(f, Fresh) ELSE UNCHANGED store
    /\ Goto(f, "wait")
    /\ UNCHANGED <<saved, due, edits, perm, reply, running, late, asking, deleted,
                   stale, spurned>>

\* The save is refused before there is a tunnel to roll back.
SaveRefused(f) ==
    /\ pc[f] = "save" /\ f \in perm
    /\ Shows(Nobody)
    /\ Goto(f, "failed")
    /\ UNCHANGED <<store, saved, due, edits, perm, reply, running, late, deleted,
                   stale, spurned>>

-----------------------------------------------------------------------------
(* The call to the worker                                                  *)

Waiting(f) == pc[f] = "wait" /\ reply[f] = "none"

WorkerStarts(f) ==
    /\ Waiting(f) \/ f \in late
    /\ f \notin running
    /\ running' = running \cup {f}
    /\ reply' = IF Waiting(f) THEN [reply EXCEPT ![f] = "ok"] ELSE reply
    /\ UNCHANGED <<store, saved, due, edits, pc, perm, late, asking, deleted, stale, spurned>>

\* The worker refuses, exits, or is not ready.
CallFails(f) ==
    /\ Waiting(f)
    /\ reply' = [reply EXCEPT ![f] = "error"]
    /\ UNCHANGED <<store, saved, due, edits, pc, perm, running, late, asking,
                   deleted, stale, spurned>>

\* Mutant of TimeOut: only a call the worker has taken up is timed out.
TimeOutStarted(f) ==
    /\ Waiting(f) /\ f \in running
    /\ reply' = [reply EXCEPT ![f] = "error"]
    /\ late' = late \cup {f}
    /\ UNCHANGED <<store, saved, due, edits, pc, perm, running, asking, deleted,
                   stale, spurned>>

\* Ninety seconds pass; the worker is not told, and goes on.
TimeOut(f) ==
    /\ Waiting(f)
    /\ reply' = [reply EXCEPT ![f] = "error"]
    /\ late' = late \cup {f}
    /\ UNCHANGED <<store, saved, due, edits, pc, perm, running, asking, deleted,
                   stale, spurned>>

-----------------------------------------------------------------------------
(* After the start                                                         *)

\* rememberSession, toast and addRecent.
Started(f) ==
    /\ pc[f] = "wait" /\ reply[f] = "ok"
    /\ Shows(Nobody)
    /\ Goto(f, IF f \notin perm THEN "done"
               ELSE IF Kind[f] = "folder" THEN "resave" ELSE "refresh")
    /\ UNCHANGED <<store, saved, due, edits, perm, reply, running, late, deleted,
                   stale, spurned>>

\* Mutant of Resave: the record is not looked up by its id.
ResaveNothing(f) ==
    /\ pc[f] = "resave"
    /\ Goto(f, "refresh")
    /\ UNCHANGED <<store, saved, due, edits, perm, reply, running, late, asking,
                   deleted, stale, spurned>>

\* A folder share is saved again, with the login the worker made up, from the
\* record as it was first saved.
Resave(f) ==
    /\ pc[f] = "resave"
    /\ PutFrom(f, Fresh, [Fresh EXCEPT !.login = TRUE])
    /\ Goto(f, "refresh")
    /\ UNCHANGED <<saved, due, edits, perm, reply, running, late, asking, deleted,
                   spurned>>

\* The second save is refused: the record is rolled back as if the share had
\* not started.
ResaveRefused(f) ==
    /\ pc[f] = "resave"
    /\ Shows(Nobody)
    /\ Goto(f, "rollback")
    /\ spurned' = spurned \cup {f}
    /\ UNCHANGED <<store, saved, due, edits, perm, reply, running, late, deleted,
                   stale>>

Failed(f) ==
    /\ pc[f] = "wait" /\ reply[f] = "error"
    /\ Shows(Nobody)
    /\ Goto(f, IF f \in perm THEN "rollback" ELSE "failed")
    /\ UNCHANGED <<store, saved, due, edits, perm, reply, running, late, deleted,
                   stale, spurned>>

\* Mutant of RollBack: the rows are not read again.
RollBackOnly(f) ==
    /\ pc[f] = "rollback"
    /\ Put(f, Absent)
    /\ Goto(f, "failed")
    /\ UNCHANGED <<saved, due, edits, perm, reply, running, late, asking, deleted,
                   stale, spurned>>

RollBack(f) ==
    /\ pc[f] = "rollback"
    /\ Put(f, Absent)
    /\ Goto(f, "unrefresh")
    /\ UNCHANGED <<saved, due, edits, perm, reply, running, late, asking, deleted,
                   stale, spurned>>

refreshSaved(f) ==
    /\ pc[f] \in {"refresh", "unrefresh"}
    /\ saved' = store
    /\ Goto(f, IF pc[f] = "refresh" THEN "done" ELSE "failed")
    /\ UNCHANGED <<store, due, edits, perm, reply, running, late, asking, deleted,
                   stale, spurned>>

-----------------------------------------------------------------------------
(* The saved list                                                          *)

Edited ==
    /\ edits < MaxEdits
    /\ edits' = edits + 1
    /\ due' = TRUE
    /\ UNCHANGED <<saved, pc, perm, reply, running, late, asking, spurned>>

\* toggleAutostart saves a copy of the row, and so does a new name.
Change(i) ==
    /\ Edited /\ saved[i].there
    /\ \/ PutFrom(i, saved[i], [saved[i] EXCEPT !.on = ~@])
       \/ PutFrom(i, saved[i], saved[i])
    /\ UNCHANGED deleted

Delete(i) ==
    /\ Edited /\ saved[i].there
    /\ Put(i, Absent)
    /\ deleted' = deleted \cup {i}
    /\ UNCHANGED stale

\* saved_duplicate copies the record Rust has.
Duplicate(i, copy) ==
    /\ Edited /\ saved[i].there /\ store[i].there /\ ~store[copy].there
    /\ Put(copy, store[i])
    /\ UNCHANGED <<deleted, stale, spurned>>

applyImport(i, on) ==
    /\ Edited
    /\ Put(i, [Fresh EXCEPT !.on = on])
    /\ UNCHANGED <<deleted, stale, spurned>>

EditShown ==
    /\ due
    /\ saved' = store
    /\ due' = FALSE
    /\ Shows(Nobody)
    /\ UNCHANGED <<store, edits, pc, perm, reply, running, late, deleted, stale, spurned>>

\* Any other toast: a peer connected, an update is there.
Toast ==
    /\ asking # Nobody
    /\ Shows(Nobody)
    /\ UNCHANGED <<store, saved, due, edits, pc, perm, reply, running, late,
                   deleted, stale, spurned>>

-----------------------------------------------------------------------------
Step(f) ==
    \/ Lookup(f) \/ SaveFirst(f) \/ SaveRefused(f)
    \/ Started(f) \/ Resave(f) \/ ResaveRefused(f)
    \/ Failed(f) \/ RollBack(f) \/ refreshSaved(f)

Next ==
    \/ \E f \in Forms :
          \/ Submit(f) \/ Answer(f) \/ Step(f)
          \/ WorkerStarts(f) \/ CallFails(f) \/ TimeOut(f)
    \/ \E i \in Ids : Change(i) \/ Delete(i)
    \/ \E i \in Ids, copy \in Old : Duplicate(i, copy)
    \/ \E i \in Old, on \in BOOLEAN : applyImport(i, on)
    \/ EditShown \/ Toast

Spec == Init /\ [][Next]_vars

\* Promises go on when they settle, a call settles in ninety seconds and a
\* lookup in forty-five, and a question that is on screen in ten.
Fairness == \A f \in Forms :
    WF_vars(Step(f)) /\ WF_vars(TimeOut(f)) /\ WF_vars(Answer(f))

FairSpec == Spec /\ Fairness

-----------------------------------------------------------------------------
(* Properties                                                              *)

TypeOK ==
    /\ {store, saved} \subseteq [Ids -> Records]
    /\ due \in BOOLEAN /\ edits \in 0 .. MaxEdits
    /\ pc \in [Forms -> {"idle", "lookup", "ask", "save", "wait", "resave", "refresh",
                         "rollback", "unrefresh", "done", "failed", "aborted"}]
    /\ reply \in [Forms -> {"none", "ok", "error"}]
    /\ {perm, running, late, spurned} \subseteq SUBSET Forms
    /\ asking \in Forms \cup {Nobody}
    /\ {deleted, stale} \subseteq SUBSET Ids

\* A permanent tunnel whose form succeeded is saved, a folder share with its
\* login, and one whose form failed is not: "it never started"
\* (renderer/actions.js).  An edit made from an outdated row, and the second
\* save of a folder share over an edit, are the only exceptions.
SavedIfStarted == \A f \in perm \ stale :
    /\ pc[f] = "done" /\ f \notin deleted =>
          store[f].there /\ (Kind[f] = "folder" => store[f].login)
    /\ pc[f] = "done" /\ f \in deleted => ~store[f].there
    /\ pc[f] \in {"failed", "aborted"} => ~store[f].there

\* A form that failed or was given up has no tunnel in the worker, unless its
\* call timed out or the second save of its record was refused.
FailedIsNotRunning == \A f \in running \ (late \cup spurned) :
    pc[f] \in {"wait", "resave", "refresh", "done"}

\* What a form told the user is so, in the store and in the worker.
OutcomesHold == SavedIfStarted /\ FailedIsNotRunning

\* Nothing is started or saved before a question is answered with yes.
AskedFirst == \A f \in Forms :
    pc[f] \in {"lookup", "ask", "aborted"} => f \notin running /\ store[f] = Absent

\* When nothing is under way the rows show what is saved.
RowsFollow ==
    /\ ~due
    /\ \A f \in Forms : pc[f] \in {"idle", "ask", "done", "failed", "aborted"}
    => saved = store

Ended(f)     == pc[f] \in {"done", "failed", "aborted"}
Displaced(f) == pc[f] = "ask" /\ asking # f

\* confirmInline: "the answer must be awaitable".  Every form that was
\* submitted ends and frees its button, unless another toast took the place of
\* its question.
FormEnds == \A f \in Forms : pc[f] # "idle" ~> Ended(f) \/ Displaced(f)
=============================================================================
