-------------------------- MODULE ShareForms_proof --------------------------
(***************************************************************************)
(* Proofs about ShareForms, for any number of forms, records and edits.    *)
(*                                                                         *)
(* What a finished form promises of its record rests on what holds of it   *)
(* at each step before (Record), and the rows that lag behind the store    *)
(* rest on the form or the edit that will read it again (Rows).            *)
(***************************************************************************)
EXTENDS ShareForms, TLAPS

\* The steps before the first save, and those of a form that will read the
\* store again.
Early  == {"idle", "lookup", "ask", "save", "aborted"}
Saving == {"wait", "resave", "refresh", "rollback", "unrefresh"}

Record == \A f \in Forms :
    /\ pc[f] \in Early => store[f] = Absent /\ saved[f] = Absent /\ f \notin deleted
    /\ f \in perm \ stale =>
          /\ pc[f] \in {"unrefresh", "failed"} => ~store[f].there
          /\ pc[f] \in {"wait", "resave", "refresh", "rollback", "done"} =>
                (store[f].there <=> f \notin deleted)
          /\ pc[f] \in {"refresh", "done"} /\ Kind[f] = "folder" /\ f \notin deleted =>
                store[f].login

Calls == \A f \in Forms :
    /\ pc[f] \in Early => f \notin running \cup late
    /\ f \in running \ (late \cup spurned) =>
          (pc[f] = "wait" /\ reply[f] = "ok") \/ pc[f] \in {"resave", "refresh", "done"}

Rows ==
    /\ ~due => saved = store \/ \E f \in perm : pc[f] \in Saving
    /\ \A f \in Forms : pc[f] \in Saving \ {"wait"} => f \in perm

IInv == TypeOK /\ Record /\ Calls /\ Rows

-----------------------------------------------------------------------------
(* The records the forms and the rows write.                                *)
LEMMA RecordValues ==
  /\ Fresh \in Records /\ Absent \in Records
  /\ Fresh.there /\ ~Absent.there
  /\ [Fresh EXCEPT !.login = TRUE] \in Records
  /\ [Fresh EXCEPT !.login = TRUE].there /\ [Fresh EXCEPT !.login = TRUE].login
  /\ \A on \in BOOLEAN : [Fresh EXCEPT !.on = on] \in Records
  /\ \A r \in Records :
        /\ [r EXCEPT !.on = ~@] \in Records
        /\ [r EXCEPT !.on = ~@].there = r.there
        /\ [r EXCEPT !.on = ~@].login = r.login
  BY DEF Records, Fresh, Absent

(* Every step writes values of the declared kinds.                          *)
LEMMA TypeStep == TypeOK /\ [Next]_vars => TypeOK'
  <1> SUFFICES ASSUME TypeOK, [Next]_vars PROVE TypeOK'
    OBVIOUS
  <1> USE FormAssumption, RecordValues DEF TypeOK, Ids, Goto, Put, Shows
  <1>1. ASSUME NEW f \in Forms, Submit(f) PROVE TypeOK'
    BY <1>1 DEF Submit
  <1>2. ASSUME NEW f \in Forms, Answer(f) PROVE TypeOK'
    BY <1>2 DEF Answer
  <1>3. ASSUME NEW f \in Forms, Lookup(f) PROVE TypeOK'
    BY <1>3 DEF Lookup
  <1>4. ASSUME NEW f \in Forms, SaveFirst(f) PROVE TypeOK'
    BY <1>4 DEF SaveFirst
  <1>5. ASSUME NEW f \in Forms, Started(f) PROVE TypeOK'
    BY <1>5 DEF Started
  <1>6. ASSUME NEW f \in Forms, Resave(f) PROVE TypeOK'
    BY <1>6 DEF Resave, PutFrom
  <1>7. ASSUME NEW f \in Forms, Failed(f) PROVE TypeOK'
    BY <1>7 DEF Failed
  <1>8. ASSUME NEW f \in Forms, RollBack(f) PROVE TypeOK'
    BY <1>8 DEF RollBack
  <1>9. ASSUME NEW f \in Forms, refreshSaved(f) PROVE TypeOK'
    BY <1>9 DEF refreshSaved
  <1>10. ASSUME NEW f \in Forms, WorkerStarts(f) PROVE TypeOK'
    BY <1>10 DEF WorkerStarts
  <1>11. ASSUME NEW f \in Forms, CallFails(f) PROVE TypeOK'
    BY <1>11 DEF CallFails
  <1>12. ASSUME NEW f \in Forms, TimeOut(f) PROVE TypeOK'
    BY <1>12 DEF TimeOut
  <1>13. ASSUME NEW i \in Ids, Change(i) PROVE TypeOK'
    BY <1>13 DEF Change, Edited, PutFrom
  <1>14. ASSUME NEW i \in Ids, Delete(i) PROVE TypeOK'
    BY <1>14 DEF Delete, Edited
  <1>15. ASSUME NEW i \in Ids, NEW copy \in Old, Duplicate(i, copy) PROVE TypeOK'
    BY <1>15 DEF Duplicate, Edited
  <1>16. ASSUME NEW i \in Old, NEW on \in BOOLEAN, applyImport(i, on) PROVE TypeOK'
    BY <1>16 DEF applyImport, Edited
  <1>17. CASE EditShown
    BY <1>17 DEF EditShown
  <1>18. CASE Toast
    BY <1>18 DEF Toast
  <1>19. CASE UNCHANGED vars
    BY <1>19 DEF vars
  <1>20. ASSUME NEW f \in Forms, SaveRefused(f) PROVE TypeOK'
    BY <1>20 DEF SaveRefused
  <1>21. ASSUME NEW f \in Forms, ResaveRefused(f) PROVE TypeOK'
    BY <1>21 DEF ResaveRefused
  <1>22. QED
    BY <1>1, <1>2, <1>3, <1>4, <1>5, <1>6, <1>7, <1>8, <1>9, <1>10, <1>11, <1>12,
       <1>13, <1>14, <1>15, <1>16, <1>17, <1>18, <1>19, <1>20, <1>21
       DEF Next, Step

(* The record of a form, at each of its steps.                              *)
LEMMA RecordStep == TypeOK /\ Record /\ [Next]_vars => Record'
  <1> SUFFICES ASSUME TypeOK, Record, [Next]_vars PROVE Record'
    OBVIOUS
  <1> USE FormAssumption, RecordValues
      DEF TypeOK, Record, Early, Ids, Goto, Put, Shows
  <1>1. ASSUME NEW f \in Forms, Submit(f) PROVE Record'
    BY <1>1 DEF Submit
  <1>2. ASSUME NEW f \in Forms, Answer(f) PROVE Record'
    BY <1>2 DEF Answer
  <1>3. ASSUME NEW f \in Forms, Lookup(f) PROVE Record'
    BY <1>3 DEF Lookup
  <1>4. ASSUME NEW f \in Forms, SaveFirst(f) PROVE Record'
    BY <1>4 DEF SaveFirst
  <1>5. ASSUME NEW f \in Forms, Started(f) PROVE Record'
    BY <1>5 DEF Started
  <1>6. ASSUME NEW f \in Forms, Resave(f) PROVE Record'
    BY <1>6 DEF Resave, PutFrom
  <1>7. ASSUME NEW f \in Forms, Failed(f) PROVE Record'
    BY <1>7 DEF Failed
  <1>8. ASSUME NEW f \in Forms, RollBack(f) PROVE Record'
    BY <1>8 DEF RollBack
  <1>9. ASSUME NEW f \in Forms, refreshSaved(f) PROVE Record'
    BY <1>9 DEF refreshSaved
  <1>10. ASSUME NEW f \in Forms, WorkerStarts(f) PROVE Record'
    BY <1>10 DEF WorkerStarts
  <1>11. ASSUME NEW f \in Forms, CallFails(f) PROVE Record'
    BY <1>11 DEF CallFails
  <1>12. ASSUME NEW f \in Forms, TimeOut(f) PROVE Record'
    BY <1>12 DEF TimeOut
  <1>13. ASSUME NEW i \in Ids, Change(i) PROVE Record'
    <2>1. PICK r \in Records :
             /\ r.there = saved[i].there /\ r.login = saved[i].login
             /\ store' = [store EXCEPT ![i] = r]
      BY <1>13 DEF Change, PutFrom
    <2>2. /\ saved[i].there /\ UNCHANGED <<saved, pc, perm, deleted>>
          /\ stale' = IF store[i] = saved[i] THEN stale ELSE stale \cup {i}
      BY <1>13 DEF Change, Edited, PutFrom
    <2>3. ASSUME NEW f \in Forms, f # i 
         PROVE  store'[f] = store[f] /\ (f \in stale' <=> f \in stale)
      <3>1. store'[f] = store[f]
        BY <2>1, <2>3
      <3>2. f \in stale' <=> f \in stale
        BY <2>2, <2>3
      <3>3. QED
        BY <3>1, <3>2
    <2>4. CASE i \in Forms /\ store[i] = saved[i]
      BY <2>1, <2>2, <2>3, <2>4
    <2>5. CASE i \in Forms /\ store[i] # saved[i]
      BY <2>1, <2>2, <2>3, <2>5
    <2>6. CASE i \notin Forms
      BY <2>2, <2>3, <2>6
    <2>7. QED
      BY <2>4, <2>5, <2>6
  <1>14. ASSUME NEW i \in Ids, Delete(i) PROVE Record'
    BY <1>14 DEF Delete, Edited
  <1>15. ASSUME NEW i \in Ids, NEW copy \in Old, Duplicate(i, copy) PROVE Record'
    BY <1>15 DEF Duplicate, Edited
  <1>16. ASSUME NEW i \in Old, NEW on \in BOOLEAN, applyImport(i, on) PROVE Record'
    BY <1>16 DEF applyImport, Edited
  <1>17. CASE EditShown
    BY <1>17 DEF EditShown
  <1>18. CASE Toast
    BY <1>18 DEF Toast
  <1>19. CASE UNCHANGED vars
    BY <1>19 DEF vars
  <1>20. ASSUME NEW f \in Forms, SaveRefused(f) PROVE Record'
    BY <1>20 DEF SaveRefused
  <1>21. ASSUME NEW f \in Forms, ResaveRefused(f) PROVE Record'
    BY <1>21 DEF ResaveRefused
  <1>22. QED
    BY <1>1, <1>2, <1>3, <1>4, <1>5, <1>6, <1>7, <1>8, <1>9, <1>10, <1>11, <1>12,
       <1>13, <1>14, <1>15, <1>16, <1>17, <1>18, <1>19, <1>20, <1>21
       DEF Next, Step

(* A call, from the form's side and from the worker's.                      *)
LEMMA CallsStep == TypeOK /\ Calls /\ [Next]_vars => Calls'
  <1> SUFFICES ASSUME TypeOK, Calls, [Next]_vars PROVE Calls'
    OBVIOUS
  <1> USE DEF TypeOK, Calls, Early, Waiting, Edited, Goto
  <1>1. ASSUME NEW f \in Forms, Submit(f) PROVE Calls'
    BY <1>1 DEF Submit
  <1>2. ASSUME NEW f \in Forms, Answer(f) PROVE Calls'
    BY <1>2 DEF Answer
  <1>3. ASSUME NEW f \in Forms, Lookup(f) PROVE Calls'
    BY <1>3 DEF Lookup
  <1>4. ASSUME NEW f \in Forms, SaveFirst(f) PROVE Calls'
    BY <1>4 DEF SaveFirst
  <1>5. ASSUME NEW f \in Forms, Started(f) PROVE Calls'
    BY <1>5 DEF Started
  <1>6. ASSUME NEW f \in Forms, Resave(f) PROVE Calls'
    BY <1>6 DEF Resave
  <1>7. ASSUME NEW f \in Forms, Failed(f) PROVE Calls'
    BY <1>7 DEF Failed
  <1>8. ASSUME NEW f \in Forms, RollBack(f) PROVE Calls'
    BY <1>8 DEF RollBack
  <1>9. ASSUME NEW f \in Forms, refreshSaved(f) PROVE Calls'
    BY <1>9 DEF refreshSaved
  <1>10. ASSUME NEW f \in Forms, WorkerStarts(f) PROVE Calls'
    BY <1>10 DEF WorkerStarts
  <1>11. ASSUME NEW f \in Forms, CallFails(f) PROVE Calls'
    BY <1>11 DEF CallFails
  <1>12. ASSUME NEW f \in Forms, TimeOut(f) PROVE Calls'
    BY <1>12 DEF TimeOut
  <1>13. ASSUME NEW i \in Ids, Change(i) PROVE Calls'
    BY <1>13 DEF Change, Edited, PutFrom
  <1>14. ASSUME NEW i \in Ids, Delete(i) PROVE Calls'
    BY <1>14 DEF Delete, Edited
  <1>15. ASSUME NEW i \in Ids, NEW copy \in Old, Duplicate(i, copy) PROVE Calls'
    BY <1>15 DEF Duplicate, Edited
  <1>16. ASSUME NEW i \in Old, NEW on \in BOOLEAN, applyImport(i, on) PROVE Calls'
    BY <1>16 DEF applyImport, Edited
  <1>17. CASE EditShown
    BY <1>17 DEF EditShown
  <1>18. CASE Toast
    BY <1>18 DEF Toast
  <1>19. CASE UNCHANGED vars
    BY <1>19 DEF vars
  <1>20. ASSUME NEW f \in Forms, SaveRefused(f) PROVE Calls'
    BY <1>20 DEF SaveRefused
  <1>21. ASSUME NEW f \in Forms, ResaveRefused(f) PROVE Calls'
    BY <1>21 DEF ResaveRefused
  <1>22. QED
    BY <1>1, <1>2, <1>3, <1>4, <1>5, <1>6, <1>7, <1>8, <1>9, <1>10, <1>11, <1>12,
       <1>13, <1>14, <1>15, <1>16, <1>17, <1>18, <1>19, <1>20, <1>21
       DEF Next, Step

(* Rows that lag behind are read again.                                     *)
LEMMA RowsStep == TypeOK /\ Rows /\ [Next]_vars => Rows'
  <1> SUFFICES ASSUME TypeOK, Rows, [Next]_vars PROVE Rows'
    OBVIOUS
  <1> USE FormAssumption
      DEF TypeOK, Rows, Saving, Goto, Put, Shows
  <1>1. ASSUME NEW f \in Forms, Submit(f) PROVE Rows'
    BY <1>1 DEF Submit
  <1>2. ASSUME NEW f \in Forms, Answer(f) PROVE Rows'
    BY <1>2 DEF Answer
  <1>3. ASSUME NEW f \in Forms, Lookup(f) PROVE Rows'
    BY <1>3 DEF Lookup
  <1>4. ASSUME NEW f \in Forms, SaveFirst(f) PROVE Rows'
    BY <1>4 DEF SaveFirst
  <1>5. ASSUME NEW f \in Forms, Started(f) PROVE Rows'
    BY <1>5 DEF Started
  <1>6. ASSUME NEW f \in Forms, Resave(f) PROVE Rows'
    BY <1>6 DEF Resave, PutFrom
  <1>7. ASSUME NEW f \in Forms, Failed(f) PROVE Rows'
    BY <1>7 DEF Failed
  <1>8. ASSUME NEW f \in Forms, RollBack(f) PROVE Rows'
    BY <1>8 DEF RollBack
  <1>9. ASSUME NEW f \in Forms, refreshSaved(f) PROVE Rows'
    BY <1>9 DEF refreshSaved
  <1>10. ASSUME NEW f \in Forms, WorkerStarts(f) PROVE Rows'
    BY <1>10 DEF WorkerStarts
  <1>11. ASSUME NEW f \in Forms, CallFails(f) PROVE Rows'
    BY <1>11 DEF CallFails
  <1>12. ASSUME NEW f \in Forms, TimeOut(f) PROVE Rows'
    BY <1>12 DEF TimeOut
  <1>13. ASSUME NEW i \in Ids, Change(i) PROVE Rows'
    BY <1>13 DEF Change, Edited, PutFrom
  <1>14. ASSUME NEW i \in Ids, Delete(i) PROVE Rows'
    BY <1>14 DEF Delete, Edited
  <1>15. ASSUME NEW i \in Ids, NEW copy \in Old, Duplicate(i, copy) PROVE Rows'
    BY <1>15 DEF Duplicate, Edited
  <1>16. ASSUME NEW i \in Old, NEW on \in BOOLEAN, applyImport(i, on) PROVE Rows'
    BY <1>16 DEF applyImport, Edited
  <1>17. CASE EditShown
    BY <1>17 DEF EditShown
  <1>18. CASE Toast
    BY <1>18 DEF Toast
  <1>19. CASE UNCHANGED vars
    BY <1>19 DEF vars
  <1>20. ASSUME NEW f \in Forms, SaveRefused(f) PROVE Rows'
    BY <1>20 DEF SaveRefused
  <1>21. ASSUME NEW f \in Forms, ResaveRefused(f) PROVE Rows'
    BY <1>21 DEF ResaveRefused
  <1>22. QED
    BY <1>1, <1>2, <1>3, <1>4, <1>5, <1>6, <1>7, <1>8, <1>9, <1>10, <1>11, <1>12,
       <1>13, <1>14, <1>15, <1>16, <1>17, <1>18, <1>19, <1>20, <1>21
       DEF Next, Step

-----------------------------------------------------------------------------
(* Together they are kept by every step.                                    *)
LEMMA Inductive == Spec => []IInv
<1>1. Init => IInv
  <2> SUFFICES ASSUME Init PROVE IInv
    OBVIOUS
  <2>1. PICK S \in SUBSET Old : store = [i \in Ids |-> IF i \in S THEN Fresh ELSE Absent]
    BY DEF Init
  <2>3. TypeOK
    <3>1. store \in [Ids -> Records] /\ saved \in [Ids -> Records]
      BY <2>1, RecordValues DEF Init
    <3>2. edits \in 0 .. MaxEdits
      BY FormAssumption DEF Init
    <3>3. QED
      BY <3>1, <3>2 DEF Init, TypeOK
  <2>2. \A f \in Forms : store[f] = Absent
    BY <2>1, FormAssumption DEF Ids
  <2>4. Record /\ Calls /\ Rows
    BY <2>2 DEF Init, Saving, Record, Calls, Rows, Early
  <2>5. QED
    BY <2>3, <2>4 DEF IInv
<1>2. IInv /\ [Next]_vars => IInv'
  BY TypeStep, RecordStep, CallsStep, RowsStep DEF IInv
<1>3. QED
  BY <1>1, <1>2, PTL DEF Spec

(* The forms of actions.js and the list of saved.js keep their types, for   *)
(* any number of forms and edits.                                           *)
THEOREM FormTypes == Spec => []TypeOK
  BY Inductive, PTL DEF IInv

(* What a form of actions.js told the user is so: a tunnel that started is  *)
(* saved, one that failed is neither saved nor, unless its call timed out,  *)
(* running.                                                                 *)
THEOREM FormsTellTrue == Spec => []OutcomesHold
<1>1. IInv => OutcomesHold
  BY DEF IInv, TypeOK, Record, Calls, Early, OutcomesHold, SavedIfStarted, FailedIsNotRunning,
         Absent
<1>2. QED
  BY <1>1, Inductive, PTL

(* Nothing is started or saved before confirmInline was answered with yes.  *)
THEOREM QuestionsComeFirst == Spec => []AskedFirst
<1>1. IInv => AskedFirst
  BY DEF IInv, Record, Calls, Early, AskedFirst
<1>2. QED
  BY <1>1, Inductive, PTL

(* The rows of saved.js end at what is saved, however forms and edits       *)
(* overlap.                                                                 *)
THEOREM RowsEndUpTrue == Spec => []RowsFollow
<1>1. IInv => RowsFollow
  BY DEF IInv, TypeOK, Rows, Saving, RowsFollow
<1>2. QED
  BY <1>1, Inductive, PTL
=============================================================================
