------------------------ MODULE WorkerSessions_proof ------------------------
(***************************************************************************)
(* Proofs of the safety properties of WorkerSessions.                      *)
(*                                                                         *)
(* The inductive invariant is TypeOK, what the place where a call is       *)
(* suspended says of it (CallsOK), and the properties themselves.  From it *)
(* follows that the session table implements TunnelLifecycle, for every    *)
(* set of calls and ports and every cap.                                   *)
(***************************************************************************)
EXTENDS WorkerSessions, TLAPS

\* The call's captured entry is a tunnel that had the id it was given.
Target(c) ==
    /\ entry[c] \in Calls
    /\ arg[c] # 0
    /\ sid[entry[c]] = arg[c]

CallsOK ==
    /\ \A c \in Calls :
        /\ pc[c] = "idle" => op[c] = "none" /\ reply[c] = "none" /\ entry[c] = NoCall
        /\ pc[c] \in {"idle", "pick", "bind"} => engine[c] \in {"none", "node"}
        /\ pc[c] = "put" => engine[c] = "open"
        /\ pc[c] \in {"pick", "bind", "listen", "put", "stuck"} =>
              op[c] \in StartOps /\ reply[c] = "none"
        /\ pc[c] \in {"closing", "fsclosing"} =>
              /\ op[c] = "stop" /\ reply[c] = "none" /\ Target(c)
              /\ engine[entry[c]] \in {"closing", "closed"}
        /\ pc[c] # "done" => reply[c] = "none"
        /\ pc[c] = "fsclosing" =>
              engine[entry[c]] = "closed" /\ files[entry[c]] \in {"closing", "closed"}
        /\ pc[c] = "suspending" =>
              op[c] \in PauseOps /\ reply[c] = "none" /\ Target(c)
        /\ sid[c] # 0 =>
              /\ pc[c] = "done" /\ op[c] \in StartOps /\ reply[c] = "ok"
              /\ sid[c] < nextId
              /\ engine[c] \in {"open", "closing", "closed"}
        /\ op[c] = "stop" /\ reply[c] = "ok" => Target(c)
    /\ \A c \in live : sid[c] # 0

-----------------------------------------------------------------------------
(* The values every handler of tunnels.js, errors.js and stats.js writes    *)
(* are of the declared kinds.                                               *)
LEMMA TypeStep == TypeOK /\ CallsOK /\ [Next]_vars => TypeOK'
  <1> SUFFICES ASSUME TypeOK, CallsOK, [Next]_vars PROVE TypeOK'
    OBVIOUS
  <1> USE DEF TypeOK, Awaiting
  <1>1. ASSUME NEW c \in Calls, NEW o \in StartOps, Refused(c, o)
        PROVE  TypeOK'
    BY <1>1 DEF Refused, Answer, Ops, StartOps
  <1>2. ASSUME NEW c \in Calls, NEW p \in Ports, StartServer(c, p)
        PROVE  TypeOK'
    BY <1>2 DEF StartServer, Await, OpenEngine, Ops, StartOps
  <1>3. ASSUME NEW c \in Calls, NEW o \in {"client", "filemanager"},
             NEW p \in Ports \cup {NoPort},
              StartOnPort(c, o, p)
        PROVE  TypeOK'
    BY <1>3 DEF StartOnPort, Await, OpenEngine, Ops, StartOps
  <1>4. ASSUME NEW c \in Calls, NEW o \in PauseOps \cup {"stop"}, NEW i \in Ids,
              NoSession(c, o, i)
        PROVE  TypeOK'
    BY <1>4 DEF NoSession, Answer, Ops, PauseOps, Ids
  <1>5. ASSUME NEW c \in Calls, NEW i \in Ids, NEW e \in live,
              StopSession(c, i, e)
        PROVE  TypeOK'
    BY <1>5 DEF StopSession, Await, Closing, HasId, Ops, Ids
  <1>6. ASSUME NEW c \in Calls, NEW o \in PauseOps, NEW i \in Ids, NEW e \in live,
              PauseOrResume(c, o, i, e)
        PROVE  TypeOK'
    BY <1>6 DEF PauseOrResume, Await, HasId, Ops, PauseOps, Ids
  <1>7. ASSUME NEW c \in Calls, NEW p \in Ports, PortPicked(c, p)
        PROVE  TypeOK'
    BY <1>7 DEF PortPicked, Await, OpenEngine
  <1>8. ASSUME NEW c \in Calls, PickFails(c)
        PROVE  TypeOK'
    BY <1>8 DEF PickFails, Answer
  <1>9. ASSUME NEW c \in Calls, FilesReady(c)
        PROVE  TypeOK'
    BY <1>9 DEF FilesReady, Await, OpenEngine
  <1>10. ASSUME NEW c \in Calls, FilesRefused(c)
        PROVE  TypeOK'
    BY <1>10 DEF FilesRefused, Answer
  <1>11. ASSUME NEW c \in Calls, EngineListens(c)
        PROVE  TypeOK'
    BY <1>11 DEF EngineListens, Await
  <1>12. ASSUME NEW c \in Calls, EngineFails(c)
        PROVE  TypeOK'
    BY <1>12 DEF EngineFails, Answer
  <1>13. ASSUME NEW c \in Calls, RecordPut(c)
        PROVE  TypeOK'
    BY <1>13 DEF RecordPut, Register, nextSessionId, Answer
  <1>14. ASSUME NEW c \in Calls, ClientListens(c)
        PROVE  TypeOK'
    BY <1>14 DEF ClientListens, Register, nextSessionId, Answer
  <1>15. ASSUME NEW c \in Calls, BindFails(c)
        PROVE  TypeOK'
    <2>1. ASSUME NEW e \in live, Contain(e)
          PROVE  /\ live' \subseteq Calls /\ timers' \subseteq Nat /\ cards' \subseteq Nat
                 /\ engine' \in [Calls -> {"none", "node", "open", "closing", "closed"}]
      BY <2>1 DEF Contain, Closing
    <2>2. CASE \E e \in live : Contain(e) /\ UNCHANGED worker
      BY <1>15, <2>1, <2>2 DEF BindFails, Contain
    <2>3. CASE ~\E e \in live : Contain(e) /\ UNCHANGED worker
      BY <1>15, <2>3 DEF BindFails, Blamed
    <2>4. QED
      BY <2>2, <2>3
  <1>16. ASSUME NEW c \in Calls, TunnelClosed(c)
        PROVE  TypeOK'
    <2>1. entry[c] \in Calls
      BY <1>16 DEF TunnelClosed, CallsOK, Target
    <2>2. CASE files[entry[c]] = "none"
      BY <1>16, <2>1, <2>2 DEF TunnelClosed, Forget, Answer
    <2>3. CASE files[entry[c]] # "none"
      <3>1. /\ pc' = [pc EXCEPT ![c] = "fsclosing"]
            /\ files' = [files EXCEPT ![entry[c]] = IF @ = "open" THEN "closing" ELSE @]
            /\ UNCHANGED <<worker, op, reply, port, arg, entry, live, sid, nextId,
                           timers, paused, cards, engine>>
        BY <1>16, <2>3 DEF TunnelClosed, Await
      <3>2. files' \in [Calls -> {"none", "open", "closing", "closed"}]
        BY <2>1, <3>1
      <3>3. QED
        BY <3>1, <3>2
    <2>4. QED
      BY <2>2, <2>3
  <1>17. ASSUME NEW c \in Calls, FilesClosed(c)
        PROVE  TypeOK'
    BY <1>17 DEF FilesClosed, Forget, Answer
  <1>18. ASSUME NEW c \in Calls, Suspended(c)
        PROVE  TypeOK'
    <2>1. entry[c] \in Calls
      BY <1>18 DEF Suspended, CallsOK, Target
    <2>2. QED
      BY <1>18, <2>1 DEF Suspended, Answer
  <1>19. ASSUME NEW c \in Calls, SuspendFails(c)
        PROVE  TypeOK'
    BY <1>19 DEF SuspendFails, Answer
  <1>20. ASSUME NEW e \in Calls, SessionFails(e)
        PROVE  TypeOK'
    BY <1>20 DEF SessionFails, Contain, Closing
  <1>21. ASSUME NEW e \in Calls, EngineClosed(e)
        PROVE  TypeOK'
    BY <1>21 DEF EngineClosed
  <1>22. ASSUME NEW e \in Calls, VisitorsLeave(e)
        PROVE  TypeOK'
    BY <1>22 DEF VisitorsLeave
  <1>23. ASSUME NEW i \in timers, StatsTick(i)
        PROVE  TypeOK'
    <2>1. i \in Nat
      OBVIOUS
    <2>2. /\ cards' = cards \/ cards' = cards \cup {i}
          /\ timers' = timers \/ timers' = timers \ {i}
      BY <1>23 DEF StatsTick
    <2>3. cards' \in SUBSET Nat /\ timers' \in SUBSET Nat
      BY <2>1, <2>2
    <2>4. QED
      BY <1>23, <2>3 DEF StatsTick
  <1>24. CASE Exit
    BY <1>24 DEF Exit
  <1>25. CASE UNCHANGED vars
    BY <1>25 DEF vars
  <1> HIDE DEF TypeOK, Awaiting
  <1> HIDE DEF TypeOK, Awaiting
  <1>26. QED
    BY <1>1, <1>2, <1>3, <1>4, <1>5, <1>6, <1>7, <1>8, <1>9, <1>10, <1>11,
       <1>12, <1>13, <1>14, <1>15, <1>16, <1>17, <1>18, <1>19, <1>20, <1>21,
       <1>22, <1>23, <1>24, <1>25
       DEF Next, Receive, Continue

(* Each handler resumes its own call with what it had before the await.     *)
LEMMA CallsStep == TypeOK /\ TypeOK' /\ CallsOK /\ [Next]_vars => CallsOK'
  <1> SUFFICES ASSUME TypeOK, TypeOK', CallsOK, [Next]_vars PROVE CallsOK'
    OBVIOUS
  <1> USE DEF TypeOK, Awaiting
  <1>1. ASSUME NEW c \in Calls, NEW o \in StartOps, Refused(c, o)
        PROVE  CallsOK'
    BY <1>1, WorkerAssumption DEF Refused, Answer, CallsOK, Target, StartOps,
        PauseOps
  <1>2. ASSUME NEW c \in Calls, NEW p \in Ports, StartServer(c, p)
        PROVE  CallsOK'
    BY <1>2, WorkerAssumption DEF StartServer, Await, OpenEngine, CallsOK,
        Target, StartOps, PauseOps
  <1>3. ASSUME NEW c \in Calls, NEW o \in {"client", "filemanager"},
             NEW p \in Ports \cup {NoPort},
              StartOnPort(c, o, p)
        PROVE  CallsOK'
    BY <1>3, WorkerAssumption DEF StartOnPort, Await, OpenEngine, CallsOK,
        Target, StartOps, PauseOps
  <1>4. ASSUME NEW c \in Calls, NEW o \in PauseOps \cup {"stop"}, NEW i \in Ids,
              NoSession(c, o, i)
        PROVE  CallsOK'
    BY <1>4, WorkerAssumption DEF NoSession, Answer, CallsOK, Target,
        StartOps, PauseOps, Ids
  <1>5. ASSUME NEW c \in Calls, NEW i \in Ids, NEW e \in live,
              StopSession(c, i, e)
        PROVE  CallsOK'
    BY <1>5, WorkerAssumption DEF StopSession, Await, Closing, HasId, CallsOK,
        Target, StartOps, PauseOps, Ids
  <1>6. ASSUME NEW c \in Calls, NEW o \in PauseOps, NEW i \in Ids, NEW e \in live,
              PauseOrResume(c, o, i, e)
        PROVE  CallsOK'
    BY <1>6, WorkerAssumption DEF PauseOrResume, Await, HasId, CallsOK,
        Target, StartOps, PauseOps, Ids
  <1>7. ASSUME NEW c \in Calls, NEW p \in Ports, PortPicked(c, p)
        PROVE  CallsOK'
    BY <1>7, WorkerAssumption DEF PortPicked, Await, OpenEngine, CallsOK,
        Target, StartOps, PauseOps
  <1>8. ASSUME NEW c \in Calls, PickFails(c)
        PROVE  CallsOK'
    BY <1>8, WorkerAssumption DEF PickFails, Answer, CallsOK, Target,
        StartOps, PauseOps
  <1>9. ASSUME NEW c \in Calls, FilesReady(c)
        PROVE  CallsOK'
    BY <1>9, WorkerAssumption DEF FilesReady, Await, OpenEngine, CallsOK,
        Target, StartOps, PauseOps
  <1>10. ASSUME NEW c \in Calls, FilesRefused(c)
        PROVE  CallsOK'
    BY <1>10, WorkerAssumption DEF FilesRefused, Answer, CallsOK, Target,
        StartOps, PauseOps
  <1>11. ASSUME NEW c \in Calls, EngineListens(c)
        PROVE  CallsOK'
    BY <1>11, WorkerAssumption DEF EngineListens, Await, CallsOK, Target,
        StartOps, PauseOps
  <1>12. ASSUME NEW c \in Calls, EngineFails(c)
        PROVE  CallsOK'
    BY <1>12, WorkerAssumption DEF EngineFails, Answer, CallsOK, Target,
        StartOps, PauseOps
  <1>13. ASSUME NEW c \in Calls, RecordPut(c)
        PROVE  CallsOK'
    <2>1. sid[c] = 0 /\ pc[c] = "put" /\ engine[c] \in {"open"}
      BY <1>13 DEF RecordPut, CallsOK
    <2>2. QED
      BY <1>13, WorkerAssumption, <2>1 DEF RecordPut, Register, nextSessionId,
          Answer, CallsOK, Target, StartOps, PauseOps
  <1>14. ASSUME NEW c \in Calls, ClientListens(c)
        PROVE  CallsOK'
    BY <1>14, WorkerAssumption DEF ClientListens, Register, nextSessionId,
        Answer, CallsOK, Target, StartOps, PauseOps
  <1>15. ASSUME NEW c \in Calls, BindFails(c)
        PROVE  CallsOK'
    BY <1>15, WorkerAssumption DEF BindFails, Contain, Closing, Blamed,
        CallsOK, Target, StartOps, PauseOps
  <1>16. ASSUME NEW c \in Calls, TunnelClosed(c)
        PROVE  CallsOK'
    BY <1>16, WorkerAssumption DEF TunnelClosed, Forget, Await, Answer,
        CallsOK, Target, StartOps, PauseOps
  <1>17. ASSUME NEW c \in Calls, FilesClosed(c)
        PROVE  CallsOK'
    BY <1>17, WorkerAssumption DEF FilesClosed, Forget, Answer, CallsOK,
        Target, StartOps, PauseOps
  <1>18. ASSUME NEW c \in Calls, Suspended(c)
        PROVE  CallsOK'
    BY <1>18, WorkerAssumption DEF Suspended, Answer, CallsOK, Target,
        StartOps, PauseOps
  <1>19. ASSUME NEW c \in Calls, SuspendFails(c)
        PROVE  CallsOK'
    BY <1>19, WorkerAssumption DEF SuspendFails, Answer, CallsOK, Target,
        StartOps, PauseOps
  <1>20. ASSUME NEW e \in Calls, SessionFails(e)
        PROVE  CallsOK'
    BY <1>20, WorkerAssumption DEF SessionFails, Contain, Closing, CallsOK,
        Target
  <1>21. ASSUME NEW e \in Calls, EngineClosed(e)
        PROVE  CallsOK'
    BY <1>21, WorkerAssumption DEF EngineClosed, CallsOK, Target
  <1>22. ASSUME NEW e \in Calls, VisitorsLeave(e)
        PROVE  CallsOK'
    BY <1>22, WorkerAssumption DEF VisitorsLeave, CallsOK, Target
  <1>23. ASSUME NEW i \in timers, StatsTick(i)
        PROVE  CallsOK'
    BY <1>23, WorkerAssumption DEF StatsTick, CallsOK, Target
  <1>24. CASE Exit
    BY <1>24, WorkerAssumption DEF Exit, CallsOK, Target
  <1>25. CASE UNCHANGED vars
    BY <1>25, WorkerAssumption DEF vars, CallsOK, Target
  <1> HIDE DEF TypeOK, Awaiting
  <1>26. QED
    BY <1>1, <1>2, <1>3, <1>4, <1>5, <1>6, <1>7, <1>8, <1>9, <1>10, <1>11,
       <1>12, <1>13, <1>14, <1>15, <1>16, <1>17, <1>18, <1>19, <1>20, <1>21,
       <1>22, <1>23, <1>24, <1>25
       DEF Next, Receive, Continue

(* The steps that touch the Map or the cards are few.                       *)
LEMMA EffectCases ==
  ASSUME [Next]_vars
  PROVE  \/ UNCHANGED <<live, sid, cards>>
         \/ \E c \in Calls : Register(c) /\ (Awaiting(c, "put") \/ Awaiting(c, "bind"))
         \/ \E c \in Calls : Forget(c) /\ UNCHANGED sid
         \/ \E e \in live : Contain(e)
         \/ \E c \in Calls : Suspended(c)
         \/ \E i \in timers : StatsTick(i)
  BY DEF Next, Receive, Continue, Refused, StartServer, StartOnPort, NoSession,
     StopSession, PauseOrResume, PortPicked, PickFails, FilesReady, FilesRefused,
     EngineListens, EngineFails, RecordPut, ClientListens, BindFails, Blamed,
     TunnelClosed, FilesClosed, SuspendFails, SessionFails, EngineClosed,
     VisitorsLeave, Exit, vars

(* An id is taken and counted in one step, after the last await of a start. *)
LEMMA IdsStep ==
  TypeOK /\ CallsOK /\ IdsNameOneTunnel /\ [Next]_vars => IdsNameOneTunnel'
  <1> SUFFICES ASSUME TypeOK, CallsOK, IdsNameOneTunnel, [Next]_vars
               PROVE  IdsNameOneTunnel'
    OBVIOUS
  <1>1. CASE UNCHANGED sid
    BY <1>1 DEF IdsNameOneTunnel
  <1>2. ASSUME NEW c \in Calls, Register(c) PROVE IdsNameOneTunnel'
    BY <1>2 DEF Register, nextSessionId, IdsNameOneTunnel, CallsOK, TypeOK
  <1>3. QED
    BY <1>1, <1>2, EffectCases DEF Contain, Suspended, StatsTick

(* Only a call that is not answered yet takes a step.                       *)
LEMMA AnswersStay ==
  ASSUME TypeOK, CallsOK, [Next]_vars, NEW d \in Calls, reply[d] # "none"
  PROVE  op'[d] = op[d] /\ arg'[d] = arg[d] /\ reply'[d] = reply[d]
  <1> USE DEF TypeOK, CallsOK, Awaiting
  <1>1. ASSUME NEW c \in Calls, NEW o \in StartOps, Refused(c, o)
        PROVE  op'[d] = op[d] /\ arg'[d] = arg[d] /\ reply'[d] = reply[d]
    BY <1>1 DEF Refused, Answer
  <1>2. ASSUME NEW c \in Calls, NEW p \in Ports, StartServer(c, p)
        PROVE  op'[d] = op[d] /\ arg'[d] = arg[d] /\ reply'[d] = reply[d]
    BY <1>2 DEF StartServer, Await, OpenEngine
  <1>3. ASSUME NEW c \in Calls, NEW o \in {"client", "filemanager"},
             NEW p \in Ports \cup {NoPort},
              StartOnPort(c, o, p)
        PROVE  op'[d] = op[d] /\ arg'[d] = arg[d] /\ reply'[d] = reply[d]
    BY <1>3 DEF StartOnPort, Await, OpenEngine
  <1>4. ASSUME NEW c \in Calls, NEW o \in PauseOps \cup {"stop"}, NEW i \in Ids,
              NoSession(c, o, i)
        PROVE  op'[d] = op[d] /\ arg'[d] = arg[d] /\ reply'[d] = reply[d]
    BY <1>4 DEF NoSession, Answer
  <1>5. ASSUME NEW c \in Calls, NEW i \in Ids, NEW e \in live,
              StopSession(c, i, e)
        PROVE  op'[d] = op[d] /\ arg'[d] = arg[d] /\ reply'[d] = reply[d]
    BY <1>5 DEF StopSession, Await, Closing, HasId
  <1>6. ASSUME NEW c \in Calls, NEW o \in PauseOps, NEW i \in Ids, NEW e \in live,
              PauseOrResume(c, o, i, e)
        PROVE  op'[d] = op[d] /\ arg'[d] = arg[d] /\ reply'[d] = reply[d]
    BY <1>6 DEF PauseOrResume, Await, HasId
  <1>7. ASSUME NEW c \in Calls, NEW p \in Ports, PortPicked(c, p)
        PROVE  op'[d] = op[d] /\ arg'[d] = arg[d] /\ reply'[d] = reply[d]
    BY <1>7 DEF PortPicked, Await, OpenEngine
  <1>8. ASSUME NEW c \in Calls, PickFails(c)
        PROVE  op'[d] = op[d] /\ arg'[d] = arg[d] /\ reply'[d] = reply[d]
    BY <1>8 DEF PickFails, Answer
  <1>9. ASSUME NEW c \in Calls, FilesReady(c)
        PROVE  op'[d] = op[d] /\ arg'[d] = arg[d] /\ reply'[d] = reply[d]
    BY <1>9 DEF FilesReady, Await, OpenEngine
  <1>10. ASSUME NEW c \in Calls, FilesRefused(c)
        PROVE  op'[d] = op[d] /\ arg'[d] = arg[d] /\ reply'[d] = reply[d]
    BY <1>10 DEF FilesRefused, Answer
  <1>11. ASSUME NEW c \in Calls, EngineListens(c)
        PROVE  op'[d] = op[d] /\ arg'[d] = arg[d] /\ reply'[d] = reply[d]
    BY <1>11 DEF EngineListens, Await
  <1>12. ASSUME NEW c \in Calls, EngineFails(c)
        PROVE  op'[d] = op[d] /\ arg'[d] = arg[d] /\ reply'[d] = reply[d]
    BY <1>12 DEF EngineFails, Answer
  <1>13. ASSUME NEW c \in Calls, RecordPut(c)
        PROVE  op'[d] = op[d] /\ arg'[d] = arg[d] /\ reply'[d] = reply[d]
    BY <1>13 DEF RecordPut, Register, nextSessionId, Answer
  <1>14. ASSUME NEW c \in Calls, ClientListens(c)
        PROVE  op'[d] = op[d] /\ arg'[d] = arg[d] /\ reply'[d] = reply[d]
    BY <1>14 DEF ClientListens, Register, nextSessionId, Answer
  <1>15. ASSUME NEW c \in Calls, BindFails(c)
        PROVE  op'[d] = op[d] /\ arg'[d] = arg[d] /\ reply'[d] = reply[d]
    BY <1>15 DEF BindFails, Contain, Closing, Blamed
  <1>16. ASSUME NEW c \in Calls, TunnelClosed(c)
        PROVE  op'[d] = op[d] /\ arg'[d] = arg[d] /\ reply'[d] = reply[d]
    BY <1>16 DEF TunnelClosed, Forget, Await, Answer
  <1>17. ASSUME NEW c \in Calls, FilesClosed(c)
        PROVE  op'[d] = op[d] /\ arg'[d] = arg[d] /\ reply'[d] = reply[d]
    BY <1>17 DEF FilesClosed, Forget, Answer
  <1>18. ASSUME NEW c \in Calls, Suspended(c)
        PROVE  op'[d] = op[d] /\ arg'[d] = arg[d] /\ reply'[d] = reply[d]
    BY <1>18 DEF Suspended, Answer
  <1>19. ASSUME NEW c \in Calls, SuspendFails(c)
        PROVE  op'[d] = op[d] /\ arg'[d] = arg[d] /\ reply'[d] = reply[d]
    BY <1>19 DEF SuspendFails, Answer
  <1>20. ASSUME NEW e \in Calls, SessionFails(e)
        PROVE  op'[d] = op[d] /\ arg'[d] = arg[d] /\ reply'[d] = reply[d]
    BY <1>20 DEF SessionFails, Contain, Closing
  <1>21. ASSUME NEW e \in Calls, EngineClosed(e)
        PROVE  op'[d] = op[d] /\ arg'[d] = arg[d] /\ reply'[d] = reply[d]
    BY <1>21 DEF EngineClosed
  <1>22. ASSUME NEW e \in Calls, VisitorsLeave(e)
        PROVE  op'[d] = op[d] /\ arg'[d] = arg[d] /\ reply'[d] = reply[d]
    BY <1>22 DEF VisitorsLeave
  <1>23. ASSUME NEW i \in timers, StatsTick(i)
        PROVE  op'[d] = op[d] /\ arg'[d] = arg[d] /\ reply'[d] = reply[d]
    BY <1>23 DEF StatsTick
  <1>24. CASE Exit
    BY <1>24 DEF Exit
  <1>25. CASE UNCHANGED vars
    BY <1>25 DEF vars
  <1> HIDE DEF TypeOK, CallsOK, Awaiting
  <1>26. QED
    BY <1>1, <1>2, <1>3, <1>4, <1>5, <1>6, <1>7, <1>8, <1>9, <1>10, <1>11,
       <1>12, <1>13, <1>14, <1>15, <1>16, <1>17, <1>18, <1>19, <1>20, <1>21,
       <1>22, <1>23, <1>24, <1>25
       DEF Next, Receive, Continue

(* A session enters and leaves the Map together with its card.              *)
LEMMA CardsStep ==
  TypeOK /\ CallsOK /\ CardsFollowSessions /\ [Next]_vars => CardsFollowSessions'
  <1> SUFFICES ASSUME TypeOK, CallsOK, CardsFollowSessions, [Next]_vars
               PROVE  CardsFollowSessions'
    OBVIOUS
  <1> DEFINE Announced(i) ==
        \E c \in Calls : op[c] \in PauseOps /\ arg[c] = i /\ reply[c] = "ok"
  <1>0. \A i : Announced(i) => Announced(i)'
    BY AnswersStay
  <1>1. /\ \A e \in live : sid[e] \in cards
        /\ \A i \in cards : (\E e \in live : sid[e] = i) \/ Announced(i)
    BY DEF CardsFollowSessions
  <1>2. SUFFICES /\ \A e \in live' : sid'[e] \in cards'
                 /\ \A i \in cards' : (\E e \in live' : sid'[e] = i) \/ Announced(i)'
    BY DEF CardsFollowSessions
  <1>3. CASE \E c \in Calls : Suspended(c)
    <2>1. PICK c \in Calls : Suspended(c)
      BY <1>3
    <2>2. op[c] \in PauseOps /\ op' = op /\ arg' = arg /\ reply'[c] = "ok"
      BY <2>1 DEF Suspended, Awaiting, Answer, CallsOK, TypeOK
    <2>3. Announced(arg[c])'
      BY <2>2
    <2> HIDE DEF Announced
    <2>4. QED
      BY <1>0, <1>1, <2>1, <2>3 DEF Suspended
  <1> HIDE DEF Announced
  <1>4. CASE UNCHANGED <<live, sid, cards>>
    BY <1>0, <1>1, <1>4
  <1>5. ASSUME NEW c \in Calls, Register(c), Awaiting(c, "put") \/ Awaiting(c, "bind")
        PROVE  /\ \A e \in live' : sid'[e] \in cards'
               /\ \A i \in cards' : (\E e \in live' : sid'[e] = i) \/ Announced(i)'
    <2>1. sid[c] = 0 /\ c \notin live
      BY <1>5 DEF CallsOK, Awaiting
    <2>2. sid'[c] = nextId /\ \A e \in live : sid'[e] = sid[e]
      BY <1>5, <2>1 DEF Register, nextSessionId, TypeOK
    <2>3. QED
      BY <1>0, <1>1, <1>5, <2>2 DEF Register, nextSessionId
  <1>6. ASSUME NEW c \in Calls, Forget(c), UNCHANGED sid
        PROVE  /\ \A e \in live' : sid'[e] \in cards'
               /\ \A i \in cards' : (\E e \in live' : sid'[e] = i) \/ Announced(i)'
    BY <1>0, <1>1, <1>6 DEF Forget
  <1>7. ASSUME NEW e \in live, Contain(e)
        PROVE  /\ \A d \in live' : sid'[d] \in cards'
               /\ \A i \in cards' : (\E d \in live' : sid'[d] = i) \/ Announced(i)'
    BY <1>0, <1>1, <1>7 DEF Contain
  <1>8. ASSUME NEW i \in timers, StatsTick(i)
        PROVE  /\ \A e \in live' : sid'[e] \in cards'
               /\ \A j \in cards' : (\E e \in live' : sid'[e] = j) \/ Announced(j)'
    BY <1>0, <1>1, <1>8 DEF StatsTick
  <1>9. QED
    BY <1>3, <1>4, <1>5, <1>6, <1>7, <1>8, EffectCases

(* Tunnels: an engine is closed by exactly the steps that unlist its        *)
(* session or ask for that.                                                 *)
LEMMA TunnelStep ==
  TypeOK /\ CallsOK /\ CallsOK' /\ IdsNameOneTunnel /\ TunnelMatchesSession /\ [Next]_vars
    => TunnelMatchesSession'
  <1> SUFFICES ASSUME TypeOK, CallsOK, CallsOK', IdsNameOneTunnel, TunnelMatchesSession,
                      [Next]_vars
               PROVE  TunnelMatchesSession'
    OBVIOUS
  <1> USE DEF TypeOK, CallsOK, Target, IdsNameOneTunnel, TunnelMatchesSession,
              StopInFlight, Awaiting
  <1>1. ASSUME NEW c \in Calls, NEW o \in StartOps, Refused(c, o)
        PROVE  TunnelMatchesSession'
    BY <1>1 DEF Refused, Answer
  <1>2. ASSUME NEW c \in Calls, NEW p \in Ports, StartServer(c, p)
        PROVE  TunnelMatchesSession'
    BY <1>2 DEF StartServer, Await, OpenEngine
  <1>3. ASSUME NEW c \in Calls, NEW o \in {"client", "filemanager"},
             NEW p \in Ports \cup {NoPort},
              StartOnPort(c, o, p)
        PROVE  TunnelMatchesSession'
    BY <1>3 DEF StartOnPort, Await, OpenEngine
  <1>4. ASSUME NEW c \in Calls, NEW o \in PauseOps \cup {"stop"}, NEW i \in Ids,
              NoSession(c, o, i)
        PROVE  TunnelMatchesSession'
    BY <1>4 DEF NoSession, Answer
  <1>5. ASSUME NEW c \in Calls, NEW i \in Ids, NEW e \in live,
              StopSession(c, i, e)
        PROVE  TunnelMatchesSession'
    BY <1>5 DEF StopSession, Await, Closing, HasId
  <1>6. ASSUME NEW c \in Calls, NEW o \in PauseOps, NEW i \in Ids, NEW e \in live,
              PauseOrResume(c, o, i, e)
        PROVE  TunnelMatchesSession'
    BY <1>6 DEF PauseOrResume, Await, HasId
  <1>7. ASSUME NEW c \in Calls, NEW p \in Ports, PortPicked(c, p)
        PROVE  TunnelMatchesSession'
    BY <1>7 DEF PortPicked, Await, OpenEngine
  <1>8. ASSUME NEW c \in Calls, PickFails(c)
        PROVE  TunnelMatchesSession'
    BY <1>8 DEF PickFails, Answer
  <1>9. ASSUME NEW c \in Calls, FilesReady(c)
        PROVE  TunnelMatchesSession'
    BY <1>9 DEF FilesReady, Await, OpenEngine
  <1>10. ASSUME NEW c \in Calls, FilesRefused(c)
        PROVE  TunnelMatchesSession'
    BY <1>10 DEF FilesRefused, Answer
  <1>11. ASSUME NEW c \in Calls, EngineListens(c)
        PROVE  TunnelMatchesSession'
    BY <1>11 DEF EngineListens, Await
  <1>12. ASSUME NEW c \in Calls, EngineFails(c)
        PROVE  TunnelMatchesSession'
    BY <1>12 DEF EngineFails, Answer
  <1>13. ASSUME NEW c \in Calls, RecordPut(c)
        PROVE  TunnelMatchesSession'
    <2>1. sid[c] = 0 /\ engine[c] = "open"
      BY <1>13 DEF RecordPut
    <2>2. ~StopInFlight(c) /\ \A e \in Calls : StopInFlight(e)' <=> StopInFlight(e)
      BY <1>13, <2>1 DEF RecordPut, Register, Answer
    <2>3. QED
      BY <1>13, <2>1, <2>2 DEF RecordPut, Register, nextSessionId, Answer
  <1>14. ASSUME NEW c \in Calls, ClientListens(c)
        PROVE  TunnelMatchesSession'
    <2>1. sid[c] = 0
      BY <1>14 DEF ClientListens, StartOps
    <2>2. ~StopInFlight(c) /\ \A e \in Calls : StopInFlight(e)' <=> StopInFlight(e)
      BY <1>14, <2>1 DEF ClientListens, Register, Answer
    <2>3. QED
      BY <1>14, <2>1, <2>2 DEF ClientListens, Register, nextSessionId, Answer
  <1>15. ASSUME NEW c \in Calls, BindFails(c)
        PROVE  TunnelMatchesSession'
    BY <1>15 DEF BindFails, Contain, Closing, Blamed
  <1>16. ASSUME NEW c \in Calls, TunnelClosed(c)
        PROVE  TunnelMatchesSession'
    <2>1. CASE files[entry[c]] = "none"
      BY <1>16, <2>1 DEF TunnelClosed, Forget, Answer
    <2>2. CASE files[entry[c]] # "none"
      BY <1>16, <2>2 DEF TunnelClosed, Await
    <2>3. QED
      BY <2>1, <2>2
  <1>17. ASSUME NEW c \in Calls, FilesClosed(c)
        PROVE  TunnelMatchesSession'
    BY <1>17 DEF FilesClosed, Forget, Answer
  <1>18. ASSUME NEW c \in Calls, Suspended(c)
        PROVE  TunnelMatchesSession'
    BY <1>18 DEF Suspended, Answer
  <1>19. ASSUME NEW c \in Calls, SuspendFails(c)
        PROVE  TunnelMatchesSession'
    BY <1>19 DEF SuspendFails, Answer
  <1>20. ASSUME NEW e \in Calls, SessionFails(e)
        PROVE  TunnelMatchesSession'
    <2>1. live' = live \ {e} /\ sid[e] # 0
      BY <1>20 DEF SessionFails, Contain
    <2>2. QED
      BY <1>20, <2>1 DEF SessionFails, Contain, Closing
  <1>21. ASSUME NEW e \in Calls, EngineClosed(e)
        PROVE  TunnelMatchesSession'
    BY <1>21 DEF EngineClosed
  <1>22. ASSUME NEW e \in Calls, VisitorsLeave(e)
        PROVE  TunnelMatchesSession'
    BY <1>22 DEF VisitorsLeave
  <1>23. ASSUME NEW i \in timers, StatsTick(i)
        PROVE  TunnelMatchesSession'
    BY <1>23 DEF StatsTick
  <1>24. CASE Exit
    BY <1>24 DEF Exit
  <1>25. CASE UNCHANGED vars
    BY <1>25 DEF vars
  <1> HIDE DEF TypeOK, CallsOK, Target, IdsNameOneTunnel, TunnelMatchesSession,
               StopInFlight, Awaiting
  <1>26. QED
    BY <1>1, <1>2, <1>3, <1>4, <1>5, <1>6, <1>7, <1>8, <1>9, <1>10, <1>11,
       <1>12, <1>13, <1>14, <1>15, <1>16, <1>17, <1>18, <1>19, <1>20, <1>21,
       <1>22, <1>23, <1>24, <1>25
       DEF Next, Receive, Continue

(* Statistics: the timer of an id is cleared by exactly those steps, too.   *)
LEMMA StatsStep ==
  TypeOK /\ CallsOK /\ CallsOK' /\ IdsNameOneTunnel /\ StatsFollowSessions /\ [Next]_vars
    => StatsFollowSessions'
  <1> SUFFICES ASSUME TypeOK, CallsOK, CallsOK', IdsNameOneTunnel, StatsFollowSessions,
                      [Next]_vars
               PROVE  StatsFollowSessions'
    OBVIOUS
  <1> USE DEF TypeOK, CallsOK, Target, IdsNameOneTunnel, StatsFollowSessions,
              StopInFlight, Awaiting
  <1>1. ASSUME NEW c \in Calls, NEW o \in StartOps, Refused(c, o)
        PROVE  StatsFollowSessions'
    BY <1>1 DEF Refused, Answer, StartOps
  <1>2. ASSUME NEW c \in Calls, NEW p \in Ports, StartServer(c, p)
        PROVE  StatsFollowSessions'
    BY <1>2 DEF StartServer, Await, OpenEngine
  <1>3. ASSUME NEW c \in Calls, NEW o \in {"client", "filemanager"},
             NEW p \in Ports \cup {NoPort},
              StartOnPort(c, o, p)
        PROVE  StatsFollowSessions'
    BY <1>3 DEF StartOnPort, Await, OpenEngine
  <1>4. ASSUME NEW c \in Calls, NEW o \in PauseOps \cup {"stop"}, NEW i \in Ids,
              NoSession(c, o, i)
        PROVE  StatsFollowSessions'
    BY <1>4 DEF NoSession, Answer
  <1>5. ASSUME NEW c \in Calls, NEW i \in Ids, NEW e \in live,
              StopSession(c, i, e)
        PROVE  StatsFollowSessions'
    BY <1>5 DEF StopSession, Await, Closing, HasId
  <1>6. ASSUME NEW c \in Calls, NEW o \in PauseOps, NEW i \in Ids, NEW e \in live,
              PauseOrResume(c, o, i, e)
        PROVE  StatsFollowSessions'
    BY <1>6 DEF PauseOrResume, Await, HasId
  <1>7. ASSUME NEW c \in Calls, NEW p \in Ports, PortPicked(c, p)
        PROVE  StatsFollowSessions'
    BY <1>7 DEF PortPicked, Await, OpenEngine
  <1>8. ASSUME NEW c \in Calls, PickFails(c)
        PROVE  StatsFollowSessions'
    BY <1>8 DEF PickFails, Answer
  <1>9. ASSUME NEW c \in Calls, FilesReady(c)
        PROVE  StatsFollowSessions'
    BY <1>9 DEF FilesReady, Await, OpenEngine
  <1>10. ASSUME NEW c \in Calls, FilesRefused(c)
        PROVE  StatsFollowSessions'
    BY <1>10 DEF FilesRefused, Answer
  <1>11. ASSUME NEW c \in Calls, EngineListens(c)
        PROVE  StatsFollowSessions'
    BY <1>11 DEF EngineListens, Await
  <1>12. ASSUME NEW c \in Calls, EngineFails(c)
        PROVE  StatsFollowSessions'
    BY <1>12 DEF EngineFails, Answer
  <1>13. ASSUME NEW c \in Calls, RecordPut(c)
        PROVE  StatsFollowSessions'
    BY <1>13 DEF RecordPut, Register, nextSessionId, Answer
  <1>14. ASSUME NEW c \in Calls, ClientListens(c)
        PROVE  StatsFollowSessions'
    BY <1>14 DEF ClientListens, Register, nextSessionId, Answer
  <1>15. ASSUME NEW c \in Calls, BindFails(c)
        PROVE  StatsFollowSessions'
    BY <1>15 DEF BindFails, Contain, Closing, Blamed
  <1>16. ASSUME NEW c \in Calls, TunnelClosed(c)
        PROVE  StatsFollowSessions'
    BY <1>16 DEF TunnelClosed, Forget, Await, Answer
  <1>17. ASSUME NEW c \in Calls, FilesClosed(c)
        PROVE  StatsFollowSessions'
    BY <1>17 DEF FilesClosed, Forget, Answer
  <1>18. ASSUME NEW c \in Calls, Suspended(c)
        PROVE  StatsFollowSessions'
    BY <1>18 DEF Suspended, Answer
  <1>19. ASSUME NEW c \in Calls, SuspendFails(c)
        PROVE  StatsFollowSessions'
    BY <1>19 DEF SuspendFails, Answer
  <1>20. ASSUME NEW e \in Calls, SessionFails(e)
        PROVE  StatsFollowSessions'
    BY <1>20 DEF SessionFails, Contain, Closing
  <1>21. ASSUME NEW e \in Calls, EngineClosed(e)
        PROVE  StatsFollowSessions'
    BY <1>21 DEF EngineClosed
  <1>22. ASSUME NEW e \in Calls, VisitorsLeave(e)
        PROVE  StatsFollowSessions'
    BY <1>22 DEF VisitorsLeave
  <1>23. ASSUME NEW i \in timers, StatsTick(i)
        PROVE  StatsFollowSessions'
    BY <1>23 DEF StatsTick
  <1>24. CASE Exit
    BY <1>24 DEF Exit
  <1>25. CASE UNCHANGED vars
    BY <1>25 DEF vars
  <1> HIDE DEF TypeOK, CallsOK, Target, IdsNameOneTunnel, StatsFollowSessions,
               StopInFlight
  <1> HIDE DEF TypeOK, CallsOK, Target, IdsNameOneTunnel, StatsFollowSessions,
               StopInFlight, Awaiting
  <1>26. QED
    BY <1>1, <1>2, <1>3, <1>4, <1>5, <1>6, <1>7, <1>8, <1>9, <1>10, <1>11,
       <1>12, <1>13, <1>14, <1>15, <1>16, <1>17, <1>18, <1>19, <1>20, <1>21,
       <1>22, <1>23, <1>24, <1>25
       DEF Next, Receive, Continue

(* What a stop released stays released.                                     *)
LEMMA ReleaseStep ==
  TypeOK /\ CallsOK /\ IdsNameOneTunnel /\ StopReleasesAll /\ [Next]_vars
    => StopReleasesAll'
  <1> SUFFICES ASSUME TypeOK, CallsOK, IdsNameOneTunnel, StopReleasesAll, [Next]_vars
               PROVE  StopReleasesAll'
    OBVIOUS
  <1> USE DEF TypeOK, CallsOK, Target, IdsNameOneTunnel, StopReleasesAll, Awaiting
  <1>1. ASSUME NEW c \in Calls, NEW o \in StartOps, Refused(c, o)
        PROVE  StopReleasesAll'
    BY <1>1 DEF Refused, Answer, StartOps
  <1>2. ASSUME NEW c \in Calls, NEW p \in Ports, StartServer(c, p)
        PROVE  StopReleasesAll'
    BY <1>2 DEF StartServer, Await, OpenEngine, StartOps
  <1>3. ASSUME NEW c \in Calls, NEW o \in {"client", "filemanager"},
             NEW p \in Ports \cup {NoPort},
              StartOnPort(c, o, p)
        PROVE  StopReleasesAll'
    BY <1>3 DEF StartOnPort, Await, OpenEngine, StartOps
  <1>4. ASSUME NEW c \in Calls, NEW o \in PauseOps \cup {"stop"}, NEW i \in Ids,
              NoSession(c, o, i)
        PROVE  StopReleasesAll'
    BY <1>4 DEF NoSession, Answer, PauseOps
  <1>5. ASSUME NEW c \in Calls, NEW i \in Ids, NEW e \in live,
              StopSession(c, i, e)
        PROVE  StopReleasesAll'
    BY <1>5 DEF StopSession, Await, Closing, HasId
  <1>6. ASSUME NEW c \in Calls, NEW o \in PauseOps, NEW i \in Ids, NEW e \in live,
              PauseOrResume(c, o, i, e)
        PROVE  StopReleasesAll'
    BY <1>6 DEF PauseOrResume, Await, HasId
  <1>7. ASSUME NEW c \in Calls, NEW p \in Ports, PortPicked(c, p)
        PROVE  StopReleasesAll'
    BY <1>7 DEF PortPicked, Await, OpenEngine
  <1>8. ASSUME NEW c \in Calls, PickFails(c)
        PROVE  StopReleasesAll'
    BY <1>8 DEF PickFails, Answer
  <1>9. ASSUME NEW c \in Calls, FilesReady(c)
        PROVE  StopReleasesAll'
    BY <1>9 DEF FilesReady, Await, OpenEngine
  <1>10. ASSUME NEW c \in Calls, FilesRefused(c)
        PROVE  StopReleasesAll'
    BY <1>10 DEF FilesRefused, Answer
  <1>11. ASSUME NEW c \in Calls, EngineListens(c)
        PROVE  StopReleasesAll'
    BY <1>11 DEF EngineListens, Await
  <1>12. ASSUME NEW c \in Calls, EngineFails(c)
        PROVE  StopReleasesAll'
    BY <1>12 DEF EngineFails, Answer
  <1>13. ASSUME NEW c \in Calls, RecordPut(c)
        PROVE  StopReleasesAll'
    <2>1. sid[c] = 0
      BY <1>13 DEF RecordPut
    <2>2. \A d \in Calls : sid[d] < nextId
      BY <1>13
    <2>3. \A d \in Calls : op[d] = "stop" /\ reply[d] = "ok" => arg[d] < nextId
      BY <1>13, <2>2
    <2>4. /\ op[c] # "stop" /\ sid'[c] = nextId
            /\ \A e \in live : sid'[e] = sid[e]
      BY <1>13, <2>1 DEF RecordPut, Register, nextSessionId, StartOps
    <2>5. QED
      BY <1>13, <2>1, <2>2, <2>3, <2>4 DEF RecordPut, Register, nextSessionId,
          Answer
  <1>14. ASSUME NEW c \in Calls, ClientListens(c)
        PROVE  StopReleasesAll'
    BY <1>14 DEF ClientListens, Register, nextSessionId, Answer
  <1>15. ASSUME NEW c \in Calls, BindFails(c)
        PROVE  StopReleasesAll'
    BY <1>15 DEF BindFails, Contain, Closing, Blamed
  <1>16. ASSUME NEW c \in Calls, TunnelClosed(c)
        PROVE  StopReleasesAll'
    BY <1>16 DEF TunnelClosed, Forget, Await, Answer
  <1>17. ASSUME NEW c \in Calls, FilesClosed(c)
        PROVE  StopReleasesAll'
    BY <1>17 DEF FilesClosed, Forget, Answer
  <1>18. ASSUME NEW c \in Calls, Suspended(c)
        PROVE  StopReleasesAll'
    BY <1>18 DEF Suspended, Answer, PauseOps
  <1>19. ASSUME NEW c \in Calls, SuspendFails(c)
        PROVE  StopReleasesAll'
    BY <1>19 DEF SuspendFails, Answer
  <1>20. ASSUME NEW e \in Calls, SessionFails(e)
        PROVE  StopReleasesAll'
    BY <1>20 DEF SessionFails, Contain, Closing
  <1>21. ASSUME NEW e \in Calls, EngineClosed(e)
        PROVE  StopReleasesAll'
    BY <1>21 DEF EngineClosed
  <1>22. ASSUME NEW e \in Calls, VisitorsLeave(e)
        PROVE  StopReleasesAll'
    BY <1>22 DEF VisitorsLeave
  <1>23. ASSUME NEW i \in timers, StatsTick(i)
        PROVE  StopReleasesAll'
    BY <1>23 DEF StatsTick
  <1>24. CASE Exit
    BY <1>24 DEF Exit
  <1>25. CASE UNCHANGED vars
    BY <1>25 DEF vars
  <1> HIDE DEF TypeOK, CallsOK, Target, IdsNameOneTunnel, StopReleasesAll
  <1> HIDE DEF TypeOK, CallsOK, Target, IdsNameOneTunnel, StopReleasesAll, Awaiting
  <1>26. QED
    BY <1>1, <1>2, <1>3, <1>4, <1>5, <1>6, <1>7, <1>8, <1>9, <1>10, <1>11,
       <1>12, <1>13, <1>14, <1>15, <1>16, <1>17, <1>18, <1>19, <1>20, <1>21,
       <1>22, <1>23, <1>24, <1>25
       DEF Next, Receive, Continue


-----------------------------------------------------------------------------
IInv ==
    /\ TypeOK
    /\ CallsOK
    /\ IdsNameOneTunnel
    /\ CardsFollowSessions
    /\ StatsFollowSessions
    /\ TunnelMatchesSession
    /\ StopReleasesAll

LEMMA Inductive == Spec => []IInv
<1>1. Init => IInv
  <2> SUFFICES ASSUME Init PROVE IInv
    OBVIOUS
  <2>1. TypeOK
    BY WorkerAssumption DEF Init, TypeOK
  <2>2. CallsOK /\ IdsNameOneTunnel
    BY DEF Init, CallsOK, IdsNameOneTunnel
  <2>3. CardsFollowSessions /\ StatsFollowSessions
    BY DEF Init, CardsFollowSessions, StatsFollowSessions
  <2>4. TunnelMatchesSession /\ StopReleasesAll
    BY DEF Init, TunnelMatchesSession, StopReleasesAll
  <2>5. QED
    BY <2>1, <2>2, <2>3, <2>4 DEF IInv
<1>2. IInv /\ [Next]_vars => IInv'
  BY TypeStep, CallsStep, IdsStep, CardsStep, StatsStep, TunnelStep, ReleaseStep
     DEF IInv
<1>3. QED
  BY <1>1, <1>2, PTL DEF Spec

(* Every variable keeps its type, for any number of calls and any cap.      *)
THEOREM TypeCorrect == Spec => []TypeOK
  BY Inductive, PTL DEF IInv

(* The id a caller holds never comes to name a second tunnel                *)
(* (nextSessionId, taken after the awaits of each start).                   *)
THEOREM IdsUnique == Spec => []IdsNameOneTunnel
  BY Inductive, PTL DEF IInv

(* Only a pause or resume can leave a card without a session: stops,        *)
(* statistics timers and contained errors cannot, in any interleaving.      *)
THEOREM CardsCorrect == Spec => []CardsFollowSessions
  BY Inductive, PTL DEF IInv

(* The keys of statsTimers are the sessions nobody is stopping.             *)
THEOREM StatsCorrect == Spec => []StatsFollowSessions
  BY Inductive, PTL DEF IInv

(* A tunnel is open exactly while it is listed and not being stopped.       *)
THEOREM TunnelsCorrect == Spec => []TunnelMatchesSession
  BY Inductive, PTL DEF IInv

(* A stop that has answered left nothing of its session behind.             *)
THEOREM StopsCorrect == Spec => []StopReleasesAll
  BY Inductive, PTL DEF IInv

-----------------------------------------------------------------------------
(* The session table implements the abstract life of a tunnel.              *)

Quiet == \A t \in Calls : Phase(t)' = Phase(t)

Moves(t, from, to) ==
    /\ Phase(t) \in from /\ Phase(t)' = to
    /\ \A u \in Calls \ {t} : Phase(u)' = Phase(u)

\* A stop of t is answered, and t is or becomes gone.
Ends(t) ==
    /\ Confirmed' = Confirmed \cup {t}
    /\ Moves(t, {"stopping"}, "gone") \/ (Quiet /\ Phase(t) = "gone")

AbstractStep ==
    \/ Quiet /\ Confirmed' = Confirmed
    \/ \E t \in Calls :
        \/ Ends(t)
        \/ /\ Confirmed' = Confirmed
           /\ \/ Moves(t, {"new"}, "starting")
              \/ Moves(t, {"new"}, "failed")
              \/ Moves(t, {"starting"}, "failed")
              \/ Moves(t, {"starting"}, "running")
              \/ Moves(t, {"running"}, "stopping")
              \/ Moves(t, {"running", "stopping"}, "gone")

(* Which handler moves which tunnel.                                        *)
LEMMA HandlerMoves ==
  ASSUME TypeOK, CallsOK, CallsOK', IdsNameOneTunnel, StopReleasesAll, [Next]_vars
  PROVE  AbstractStep
  <1> USE DEF TypeOK, CallsOK, Target, IdsNameOneTunnel, Phase, StopInFlight,
              Confirmed, Awaiting, StartOps, PauseOps
  <1>1. ASSUME NEW c \in Calls, NEW o \in StartOps, Refused(c, o)
        PROVE  Moves(c, {"new"}, "failed") /\ Confirmed' = Confirmed
    BY <1>1 DEF Refused, Answer, Moves
  <1>2. ASSUME NEW c \in Calls, NEW p \in Ports, StartServer(c, p)
        PROVE  Moves(c, {"new"}, "starting") /\ Confirmed' = Confirmed
    BY <1>2 DEF StartServer, Await, OpenEngine, Moves
  <1>3. ASSUME NEW c \in Calls, NEW o \in {"client", "filemanager"},
             NEW p \in Ports \cup {NoPort},
              StartOnPort(c, o, p)
        PROVE  Moves(c, {"new"}, "starting") /\ Confirmed' = Confirmed
    BY <1>3 DEF StartOnPort, Await, OpenEngine, Moves
  <1>4. ASSUME NEW c \in Calls, NEW o \in PauseOps \cup {"stop"}, NEW i \in Ids,
              NoSession(c, o, i)
        PROVE  Quiet /\ Confirmed' = Confirmed
    BY <1>4 DEF NoSession, Answer, Quiet
  <1>5. ASSUME NEW c \in Calls, NEW i \in Ids, NEW e \in live,
              StopSession(c, i, e)
        PROVE  \/ Quiet /\ Confirmed' = Confirmed
               \/ /\ e \in Calls /\ Moves(e, {"running"}, "stopping")
                  /\ Confirmed' = Confirmed
    <2>1. e \in Calls /\ entry'[c] = e /\ pc'[c] = "closing" /\ pc[c] = "idle"
      BY <1>5 DEF StopSession, Await
    <2>2. \A t \in Calls \ {e} : Phase(t)' = Phase(t)
      BY <1>5, <2>1 DEF StopSession, Await
    <2>3. Phase(e) \in {"running", "stopping"} /\ Phase(e)' = "stopping"
      BY <1>5, <2>1 DEF StopSession, Await
    <2>4. Confirmed' = Confirmed
      BY <1>5 DEF StopSession, Await
    <2> HIDE DEF TypeOK, CallsOK, Target, IdsNameOneTunnel, Phase, Confirmed
    <2>5. CASE Phase(e) = "running"
      BY <2>1, <2>2, <2>3, <2>4, <2>5 DEF Moves
    <2>6. CASE Phase(e) = "stopping"
      <3>1. \A t \in Calls : Phase(t)' = Phase(t)
        BY <2>2, <2>3, <2>6
      <3>2. QED
        BY <2>4, <3>1 DEF Quiet
    <2>7. QED
      BY <2>3, <2>5, <2>6
  <1>6. ASSUME NEW c \in Calls, NEW o \in PauseOps, NEW i \in Ids, NEW e \in live,
              PauseOrResume(c, o, i, e)
        PROVE  Quiet /\ Confirmed' = Confirmed
    BY <1>6 DEF PauseOrResume, Await, HasId, Quiet
  <1>7. ASSUME NEW c \in Calls, NEW p \in Ports, PortPicked(c, p)
        PROVE  Quiet /\ Confirmed' = Confirmed
    BY <1>7 DEF PortPicked, Await, OpenEngine, Quiet
  <1>8. ASSUME NEW c \in Calls, PickFails(c)
        PROVE  Moves(c, {"starting"}, "failed") /\ Confirmed' = Confirmed
    BY <1>8 DEF PickFails, Answer, Moves
  <1>9. ASSUME NEW c \in Calls, FilesReady(c)
        PROVE  Quiet /\ Confirmed' = Confirmed
    BY <1>9 DEF FilesReady, Await, OpenEngine, Quiet
  <1>10. ASSUME NEW c \in Calls, FilesRefused(c)
        PROVE  Moves(c, {"starting"}, "failed") /\ Confirmed' = Confirmed
    BY <1>10 DEF FilesRefused, Answer, Moves
  <1>11. ASSUME NEW c \in Calls, EngineListens(c)
        PROVE  Quiet /\ Confirmed' = Confirmed
    BY <1>11 DEF EngineListens, Await, Quiet
  <1>12. ASSUME NEW c \in Calls, EngineFails(c)
        PROVE  Moves(c, {"starting"}, "failed") /\ Confirmed' = Confirmed
    BY <1>12 DEF EngineFails, Answer, Moves
  <1>13. ASSUME NEW c \in Calls, RecordPut(c)
        PROVE  Moves(c, {"starting"}, "running") /\ Confirmed' = Confirmed
    BY <1>13 DEF RecordPut, Register, nextSessionId, Answer, Moves
  <1>14. ASSUME NEW c \in Calls, ClientListens(c)
        PROVE  Moves(c, {"starting"}, "running") /\ Confirmed' = Confirmed
    BY <1>14 DEF ClientListens, Register, nextSessionId, Answer, Moves
  <1>15. ASSUME NEW c \in Calls, BindFails(c)
        PROVE  \/ Quiet /\ Confirmed' = Confirmed
               \/ \E e \in Calls : /\ Moves(e, {"running", "stopping"}, "gone")
                                  /\ Confirmed' = Confirmed
    BY <1>15 DEF BindFails, Contain, Closing, Blamed, Quiet, Moves
  <1>16. ASSUME NEW c \in Calls, TunnelClosed(c)
        PROVE  \/ Quiet /\ Confirmed' = Confirmed
               \/ \E e \in Calls : Ends(e)
    <2>1. PICK e \in Calls : e = entry[c] /\ Phase(e) \in {"stopping", "gone"}
      BY <1>16 DEF TunnelClosed
    <2>2. CASE files[e] = "none"
      <3>1. live' = live \ {e}
        BY <1>16, <2>1, <2>2 DEF TunnelClosed, Forget
      <3>2. \A t \in Calls \ {e} : Phase(t)' = Phase(t)
        BY <1>16, <2>1, <2>2, <3>1 DEF TunnelClosed, Forget, Answer
      <3>3. Phase(e)' = "gone"
        BY <1>16, <2>1, <2>2, <3>1 DEF TunnelClosed, Forget, Answer
      <3>4. Confirmed' = Confirmed \cup {e}
        BY <1>16, <2>1, <2>2 DEF TunnelClosed, Forget, Answer
      <3> HIDE DEF Phase, Confirmed
      <3>5. QED
        BY <2>1, <3>2, <3>3, <3>4 DEF Ends, Moves, Quiet
    <2>3. CASE files[e] # "none"
      BY <1>16, <2>1, <2>3 DEF TunnelClosed, Await, Quiet
    <2>4. QED
      BY <2>2, <2>3
  <1>17. ASSUME NEW c \in Calls, FilesClosed(c)
        PROVE  \E e \in Calls : Ends(e)
    <2>1. PICK e \in Calls : e = entry[c] /\ Phase(e) \in {"stopping", "gone"}
      BY <1>17 DEF FilesClosed
    <2>2. live' = live \ {e}
      BY <1>17, <2>1 DEF FilesClosed, Forget
    <2>3. \A t \in Calls \ {e} : Phase(t)' = Phase(t)
      BY <1>17, <2>1, <2>2 DEF FilesClosed, Forget, Answer
    <2>4. Phase(e)' = "gone"
      BY <1>17, <2>1, <2>2 DEF FilesClosed, Forget, Answer
    <2>5. Confirmed' = Confirmed \cup {e}
      BY <1>17, <2>1 DEF FilesClosed, Forget, Answer
    <2> HIDE DEF Phase, Confirmed
    <2>6. QED
      BY <2>1, <2>3, <2>4, <2>5 DEF Ends, Moves, Quiet
  <1>18. ASSUME NEW c \in Calls, Suspended(c)
        PROVE  Quiet /\ Confirmed' = Confirmed
    BY <1>18 DEF Suspended, Answer, Quiet
  <1>19. ASSUME NEW c \in Calls, SuspendFails(c)
        PROVE  Quiet /\ Confirmed' = Confirmed
    BY <1>19 DEF SuspendFails, Answer, Quiet
  <1>20. ASSUME NEW e \in Calls, SessionFails(e)
        PROVE  Moves(e, {"running", "stopping"}, "gone") /\ Confirmed' = Confirmed
    BY <1>20 DEF SessionFails, Contain, Closing, Moves
  <1>21. ASSUME NEW e \in Calls, EngineClosed(e)
        PROVE  Quiet /\ Confirmed' = Confirmed
    BY <1>21 DEF EngineClosed, Quiet
  <1>22. ASSUME NEW e \in Calls, VisitorsLeave(e)
        PROVE  Quiet /\ Confirmed' = Confirmed
    BY <1>22 DEF VisitorsLeave, Quiet
  <1>23. ASSUME NEW i \in timers, StatsTick(i)
        PROVE  Quiet /\ Confirmed' = Confirmed
    BY <1>23 DEF StatsTick, Quiet
  <1>24. CASE Exit
    BY <1>24 DEF Exit, Quiet, AbstractStep
  <1>25. CASE UNCHANGED vars
    BY <1>25 DEF vars, Quiet, AbstractStep
  <1> HIDE DEF TypeOK, CallsOK, Target, IdsNameOneTunnel, Phase, StopInFlight,
               Confirmed, Awaiting, StartOps, PauseOps
  <1>26. ASSUME NEW c \in Calls, Receive(c) PROVE AbstractStep
    BY <1>1, <1>2, <1>3, <1>4, <1>5, <1>6, <1>26 DEF Receive, AbstractStep
  <1>27. ASSUME NEW c \in Calls, Continue(c) PROVE AbstractStep
    BY <1>7, <1>8, <1>9, <1>10, <1>11, <1>12, <1>13, <1>14, <1>15, <1>16, <1>17,
       <1>18, <1>19, <1>27
       DEF Continue, AbstractStep
  <1>28. ASSUME NEW c \in Calls, SessionFails(c) \/ EngineClosed(c) \/ VisitorsLeave(c)
        PROVE  AbstractStep
    BY <1>20, <1>21, <1>22, <1>28 DEF AbstractStep
  <1>29. ASSUME NEW i \in timers, StatsTick(i) PROVE AbstractStep
    BY <1>23, <1>29 DEF AbstractStep
  <1>30. QED
    BY <1>24, <1>25, <1>26, <1>27, <1>28, <1>29 DEF Next

(* Each of those moves is a step of TunnelLifecycle.                        *)
LEMMA MovesAreAbstract ==
  ASSUME AbstractStep
  PROVE  [Lifecycle!Next]_(Lifecycle!vars)
  <1> DEFINE phase == [t \in Calls |-> Phase(t)]
  <1>1. CASE Quiet /\ Confirmed' = Confirmed
    BY <1>1 DEF Quiet, Lifecycle!vars
  <1>2. ASSUME NEW t \in Calls, NEW from, NEW to, Moves(t, from, to)
        PROVE  phase[t] \in from /\ phase' = [phase EXCEPT ![t] = to]
    BY <1>2 DEF Moves
  <1>3. ASSUME NEW t \in Calls, Confirmed' = Confirmed,
               \/ Moves(t, {"new"}, "starting")
               \/ Moves(t, {"new"}, "failed")
               \/ Moves(t, {"starting"}, "failed")
               \/ Moves(t, {"starting"}, "running")
               \/ Moves(t, {"running"}, "stopping")
               \/ Moves(t, {"running", "stopping"}, "gone")
        PROVE  Lifecycle!Next
    <2> USE <1>2, <1>3 DEF Lifecycle!Next, Lifecycle!Move
    <2>1. CASE Moves(t, {"new"}, "starting")
      BY <2>1 DEF Lifecycle!Requested
    <2>2. CASE Moves(t, {"new"}, "failed") \/ Moves(t, {"starting"}, "failed")
      BY <2>2 DEF Lifecycle!Failed
    <2>3. CASE Moves(t, {"starting"}, "running")
      BY <2>3 DEF Lifecycle!Started
    <2>4. CASE Moves(t, {"running"}, "stopping")
      BY <2>4 DEF Lifecycle!StopAsked
    <2>5. CASE Moves(t, {"running", "stopping"}, "gone")
      BY <2>5 DEF Lifecycle!Gone
    <2>6. QED
      BY <1>3, <2>1, <2>2, <2>3, <2>4, <2>5
  <1>4. ASSUME NEW t \in Calls, Ends(t)
        PROVE  Lifecycle!Next
    <2>1. CASE Moves(t, {"stopping"}, "gone")
      BY <1>2, <1>4, <2>1 DEF Ends, Lifecycle!Next, Lifecycle!Move, Lifecycle!Gone
    <2>2. CASE Quiet /\ Phase(t) = "gone"
      BY <1>4, <2>2 DEF Ends, Quiet, Lifecycle!Next, Lifecycle!Confirmed
    <2>3. QED
      BY <1>4, <2>1, <2>2 DEF Ends
  <1>5. QED
    BY <1>1, <1>3, <1>4 DEF AbstractStep

(* The session table implements TunnelLifecycle: no interleaving of starts, *)
(* stops, pauses and contained errors (tunnels.js, errors.js) revives a     *)
(* tunnel, skips a phase, moves two tunnels at once or confirms a stop of   *)
(* one that still runs.                                                     *)
THEOREM ImplementsLifecycle == Spec => LifecycleSpec
<1>1. Init => Lifecycle!Init
  BY DEF Init, Lifecycle!Init, Phase, Confirmed, StartOps
<1>2. IInv /\ IInv' /\ [Next]_vars => [Lifecycle!Next]_(Lifecycle!vars)
  BY HandlerMoves, MovesAreAbstract DEF IInv
<1>3. QED
  BY <1>1, <1>2, Inductive, PTL DEF Spec, LifecycleSpec, Lifecycle!Spec
=============================================================================
