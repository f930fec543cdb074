-------------------------- MODULE WorkerHost_proof --------------------------
(***************************************************************************)
(* Proofs about WorkerHost, for any number of workers, of manual restarts  *)
(* and of calls.                                                           *)
(*                                                                         *)
(* That the worker is never given up (Attended) is not inductive: a timer  *)
(* may find its generation stale and stop.  OnItsWay leaves such timers    *)
(* out; whoever made them stale has taken the duty over.                   *)
(*                                                                         *)
(* That no worker has two successors (OneLine) is a count: every step of   *)
(* the host replaces one member of Lines by another or adds none, but for  *)
(* the restart that finds the slot empty.  For that a handle must be in    *)
(* one place at a time (Handles).                                          *)
(***************************************************************************)
EXTENDS WorkerHost, FiniteSetTheorems, TLAPS

\* Thread t will fill the slot, or find it filled, or hand the duty on.
OnItsWay(t) ==
    \/ tpc[t] \in {"take", "untie", "kill", "spawn", "slot", "schedule", "look"}
    \/ tpc[t] = "sleep" /\ seen[t] = gen

Duty ==
    \/ \E t \in Spawners : OnItsWay(t)
    \/ \E w \in Workers : Tailing(w)
    \/ Busy(Quit)
    \/ failed # {}

Watched ==
    \/ \E w \in Workers : watcher[w] = "poll"
    \/ \E t \in Spawners : tpc[t] = "stdin"

Covered == Running => IF slot = NoWorker THEN Duty ELSE Watched

\* A thread in the middle of spawn_worker has a process of its own, whose
\* watcher has not started; the timer of a watcher starts when that is done.
Spawning(t) == tpc[t] \in {"slot", "stdin"}

OwnChild ==
    /\ \A t \in Spawners : Spawning(t) =>
          /\ child[t] \in Workers
          /\ proc[child[t]] # "none"
          /\ watcher[child[t]] = "none"
    /\ \A t, u \in Spawners : Spawning(t) /\ Spawning(u) /\ child[t] = child[u] => t = u
    /\ \A w \in Workers : watcher[w] # "none" => proc[w] # "none"
    /\ ~Spawning(Quit)
    /\ \A w \in Workers : watcher[w] # "done" => tpc[w] = "idle"

\* The channel of a call holds something only once the call has left the table,
\* for good.
ChanOK ==
    \A r \in Rpcs : chan[r] # "empty" =>
        r \notin pending /\ rpc[r] \notin {"idle", "insert"}

Calls == PendingInFlight /\ ChanOK

IInv == TypeOK /\ OwnChild /\ Covered /\ Calls

-----------------------------------------------------------------------------
(* Next, with the disjuncts of its parts in one list.                       *)
LEMMA NextCases ==
  ASSUME Next
  PROVE  \/ \E t \in Spawners, w \in Workers : SpawnChild(t, w)
         \/ \E t \in Spawners : SpawnFails(t) \/ KeepChild(t) \/ KeepStdin(t)
         \/ \E t \in Spawners : Schedule(t) \/ CheckGeneration(t) \/ CheckSlot(t)
         \/ \E t \in Restarts \cup {Quit} :
               Bump(t) \/ TakeWorker(t) \/ TakeStdin(t) \/ KillWorker(t)
         \/ \E w \in Workers : Reap(w) \/ Unready(w) \/ CloseStdin(w) \/ Drain(w)
         \/ \E w \in Workers : ReadHello(w) \/ Initialised(w) \/ Wedge(w) \/ Die(w)
         \/ \E r \in Rpcs : Gate(r) \/ Insert(r) \/ Lock(r) \/ Write(r) \/ WriteFails(r)
         \/ \E r \in Rpcs : Reply(r) \/ Resolve(r) \/ TimeOut(r) \/ Handle(r)
         \/ Install
  BY DEF Next, Spawn, Respawn, Stop, Watch, Call

(* Every step of a thread or of the worker writes values of the declared    *)
(* kinds, and a thread stores the handle of a process that exists.          *)
LEMMA TypeStep ==
  TypeOK /\ OwnChild /\ [Next]_vars => TypeOK'
  <1> SUFFICES ASSUME TypeOK, OwnChild, [Next]_vars PROVE TypeOK'
    OBVIOUS
  <1> USE HostAssumption DEF TypeOK, OwnChild, Spawning, Spawners, Threads, Alive, past,
        Displace
  <1>1. ASSUME NEW t \in Spawners, NEW w \in Workers, SpawnChild(t, w) PROVE TypeOK'
    <2>1. ready' \in BOOLEAN
      BY <1>1 DEF SpawnChild
    <2>2. /\ proc' \in [Workers -> {"none", "starting", "serving", "wedged", "dead"}]
          /\ {slot', stdin'} \subseteq {v \in Workers : proc'[v] # "none"} \cup {NoWorker}
      BY <1>1 DEF SpawnChild
    <2>3. /\ tpc' \in [Threads -> {"idle", "take", "untie", "kill", "spawn", "slot",
                                   "stdin", "schedule", "sleep", "look", "done"}]
          /\ child' \in [Threads -> Workers \cup {NoWorker}]
      BY <1>1 DEF SpawnChild, Goto
    <2>4. QED
      BY <1>1, <2>1, <2>2, <2>3 DEF SpawnChild, rpcVars
  <1>2. ASSUME NEW t \in Spawners, SpawnFails(t) PROVE TypeOK'
    <2>1. ready' \in BOOLEAN
      BY <1>2 DEF SpawnFails
    <2>2. failed' \subseteq Restarts
      <3>1. failed' = failed \cup ({t} \cap Restarts)
        BY <1>2 DEF SpawnFails
      <3>2. QED
        BY <3>1
    <2>3. tpc' \in [Threads -> {"idle", "take", "untie", "kill", "spawn", "slot",
                                "stdin", "schedule", "sleep", "look", "done"}]
      BY <1>2 DEF SpawnFails, At, Goto
    <2>4. QED
      BY <1>2, <2>1, <2>2, <2>3 DEF SpawnFails, rpcVars
  <1>3. ASSUME NEW t \in Spawners, KeepChild(t) PROVE TypeOK'
    BY <1>3 DEF KeepChild, At, Goto, rpcVars
  <1>4. ASSUME NEW t \in Spawners, KeepStdin(t) PROVE TypeOK'
    BY <1>4 DEF KeepStdin, At, Goto, rpcVars
  <1>5. ASSUME NEW t \in Spawners, Schedule(t) PROVE TypeOK'
    BY <1>5 DEF Schedule, At, Goto, rpcVars
  <1>6. ASSUME NEW t \in Spawners, CheckGeneration(t) PROVE TypeOK'
    BY <1>6 DEF CheckGeneration, At, Goto, rpcVars
  <1>7. ASSUME NEW t \in Spawners, CheckSlot(t) PROVE TypeOK'
    BY <1>7 DEF CheckSlot, At, Goto, rpcVars
  <1>8. ASSUME NEW t \in Restarts \cup {Quit}, Bump(t) PROVE TypeOK'
    BY <1>8 DEF Bump, At, Goto, rpcVars
  <1>9. ASSUME NEW t \in Restarts \cup {Quit}, TakeWorker(t) PROVE TypeOK'
    BY <1>9 DEF TakeWorker, At, Goto, rpcVars
  <1>10. ASSUME NEW t \in Restarts \cup {Quit}, TakeStdin(t) PROVE TypeOK'
    BY <1>10 DEF TakeStdin, At, Goto, rpcVars
  <1>11. ASSUME NEW t \in Restarts \cup {Quit}, KillWorker(t) PROVE TypeOK'
    BY <1>11 DEF KillWorker, At, Goto, rpcVars
  <1>12. ASSUME NEW w \in Workers, Reap(w) PROVE TypeOK'
    BY <1>12 DEF Reap, Watching, rpcVars
  <1>13. ASSUME NEW w \in Workers, Unready(w) PROVE TypeOK'
    <2>1. ready' \in BOOLEAN
      BY <1>13 DEF Unready
    <2>2. watcher' \in [Workers -> {"none", "poll", "unready", "close", "drain", "done"}]
      BY <1>13 DEF Unready
    <2>3. QED
      BY <1>13, <2>1, <2>2 DEF Unready, rpcVars
  <1>14. ASSUME NEW w \in Workers, CloseStdin(w) PROVE TypeOK'
    BY <1>14 DEF CloseStdin, Watching, rpcVars
  <1>15. ASSUME NEW w \in Workers, Drain(w) PROVE TypeOK'
    BY <1>15 DEF Drain, Watching, FailPending, Goto
  <1>16. ASSUME NEW w \in Workers, ReadHello(w) PROVE TypeOK'
    BY <1>16 DEF ReadHello, rpcVars
  <1>17. ASSUME NEW w \in Workers, Initialised(w) PROVE TypeOK'
    BY <1>17 DEF Initialised, WorkerStep
  <1>18. ASSUME NEW w \in Workers, Wedge(w) PROVE TypeOK'
    BY <1>18 DEF Wedge, WorkerStep
  <1>19. ASSUME NEW w \in Workers, Die(w) PROVE TypeOK'
    BY <1>19 DEF Die, WorkerStep
  <1>20. ASSUME NEW r \in Rpcs, Gate(r) PROVE TypeOK'
    BY <1>20 DEF Gate, Calling, Settle, hostVars
  <1>21. ASSUME NEW r \in Rpcs, Insert(r) PROVE TypeOK'
    BY <1>21 DEF Insert, Calling, hostVars
  <1>22. ASSUME NEW r \in Rpcs, Lock(r) PROVE TypeOK'
    BY <1>22 DEF Lock, Calling, Settle, hostVars
  <1>23. ASSUME NEW r \in Rpcs, Write(r) PROVE TypeOK'
    BY <1>23 DEF Write, Calling, hostVars
  <1>24. ASSUME NEW r \in Rpcs, WriteFails(r) PROVE TypeOK'
    BY <1>24 DEF WriteFails, Calling, Settle, hostVars
  <1>25. ASSUME NEW r \in Rpcs, Reply(r) PROVE TypeOK'
    BY <1>25 DEF Reply, hostVars
  <1>26. ASSUME NEW r \in Rpcs, Resolve(r) PROVE TypeOK'
    BY <1>26 DEF Resolve, Calling, Settle, hostVars
  <1>27. ASSUME NEW r \in Rpcs, TimeOut(r) PROVE TypeOK'
    BY <1>27 DEF TimeOut, Calling, Settle, hostVars
  <1>28. ASSUME NEW r \in Rpcs, Handle(r) PROVE TypeOK'
    BY <1>28 DEF Handle, WorkerStep
  <1>29. CASE Install
    BY <1>29 DEF Install, rpcVars
  <1>30. CASE UNCHANGED vars
    BY <1>30 DEF vars, hostVars, rpcVars
  <1> HIDE HostAssumption DEF TypeOK, OwnChild, Spawning, Spawners, Threads, Alive, past,
        Displace
  <1>31. QED
    BY <1>1, <1>2, <1>3, <1>4, <1>5, <1>6, <1>7, <1>8, <1>9, <1>10, <1>11,
       <1>12, <1>13, <1>14, <1>15, <1>16, <1>17, <1>18, <1>19, <1>20, <1>21,
       <1>22, <1>23, <1>24, <1>25, <1>26, <1>27, <1>28, <1>29, <1>30,
       NextCases

(* spawn_worker works on a process of its own until its watcher runs.       *)
LEMMA ChildStep ==
  TypeOK /\ OwnChild /\ [Next]_vars => OwnChild'
  <1> SUFFICES ASSUME TypeOK, OwnChild, [Next]_vars PROVE OwnChild'
    OBVIOUS
  <1> USE HostAssumption DEF TypeOK, OwnChild, Spawning, Spawners, Threads
  <1>1. ASSUME NEW t \in Spawners, NEW w \in Workers, SpawnChild(t, w) PROVE OwnChild'
    BY <1>1 DEF SpawnChild, At, Goto, rpcVars
  <1>2. ASSUME NEW t \in Spawners, SpawnFails(t) PROVE OwnChild'
    BY <1>2 DEF SpawnFails, At, Goto, rpcVars
  <1>3. ASSUME NEW t \in Spawners, KeepChild(t) PROVE OwnChild'
    BY <1>3 DEF KeepChild, At, Goto, rpcVars
  <1>4. ASSUME NEW t \in Spawners, KeepStdin(t) PROVE OwnChild'
    BY <1>4 DEF KeepStdin, At, Goto, rpcVars
  <1>5. ASSUME NEW t \in Spawners, Schedule(t) PROVE OwnChild'
    BY <1>5 DEF Schedule, At, Goto, rpcVars
  <1>6. ASSUME NEW t \in Spawners, CheckGeneration(t) PROVE OwnChild'
    BY <1>6 DEF CheckGeneration, At, Goto, rpcVars
  <1>7. ASSUME NEW t \in Spawners, CheckSlot(t) PROVE OwnChild'
    BY <1>7 DEF CheckSlot, At, Goto, rpcVars
  <1>8. ASSUME NEW t \in Restarts \cup {Quit}, Bump(t) PROVE OwnChild'
    BY <1>8 DEF Bump, At, Goto, rpcVars
  <1>9. ASSUME NEW t \in Restarts \cup {Quit}, TakeWorker(t) PROVE OwnChild'
    BY <1>9 DEF TakeWorker, At, Goto, rpcVars
  <1>10. ASSUME NEW t \in Restarts \cup {Quit}, TakeStdin(t) PROVE OwnChild'
    BY <1>10 DEF TakeStdin, At, Goto, rpcVars
  <1>11. ASSUME NEW t \in Restarts \cup {Quit}, KillWorker(t) PROVE OwnChild'
    BY <1>11 DEF KillWorker, At, Goto, rpcVars
  <1>12. ASSUME NEW w \in Workers, Reap(w) PROVE OwnChild'
    BY <1>12 DEF Reap, Watching, rpcVars
  <1>13. ASSUME NEW w \in Workers, Unready(w) PROVE OwnChild'
    BY <1>13 DEF Unready, Watching, rpcVars
  <1>14. ASSUME NEW w \in Workers, CloseStdin(w) PROVE OwnChild'
    BY <1>14 DEF CloseStdin, Watching, rpcVars
  <1>15. ASSUME NEW w \in Workers, Drain(w) PROVE OwnChild'
    BY <1>15 DEF Drain, Watching, FailPending, Goto
  <1>16. ASSUME NEW w \in Workers, ReadHello(w) PROVE OwnChild'
    BY <1>16 DEF ReadHello, rpcVars
  <1>17. ASSUME NEW w \in Workers, Initialised(w) PROVE OwnChild'
    BY <1>17 DEF Initialised, WorkerStep
  <1>18. ASSUME NEW w \in Workers, Wedge(w) PROVE OwnChild'
    BY <1>18 DEF Wedge, WorkerStep
  <1>19. ASSUME NEW w \in Workers, Die(w) PROVE OwnChild'
    BY <1>19 DEF Die, WorkerStep
  <1>20. ASSUME NEW r \in Rpcs, Gate(r) PROVE OwnChild'
    BY <1>20 DEF Gate, Calling, Settle, hostVars
  <1>21. ASSUME NEW r \in Rpcs, Insert(r) PROVE OwnChild'
    BY <1>21 DEF Insert, Calling, hostVars
  <1>22. ASSUME NEW r \in Rpcs, Lock(r) PROVE OwnChild'
    BY <1>22 DEF Lock, Calling, Settle, hostVars
  <1>23. ASSUME NEW r \in Rpcs, Write(r) PROVE OwnChild'
    BY <1>23 DEF Write, Calling, hostVars
  <1>24. ASSUME NEW r \in Rpcs, WriteFails(r) PROVE OwnChild'
    BY <1>24 DEF WriteFails, Calling, Settle, hostVars
  <1>25. ASSUME NEW r \in Rpcs, Reply(r) PROVE OwnChild'
    BY <1>25 DEF Reply, hostVars
  <1>26. ASSUME NEW r \in Rpcs, Resolve(r) PROVE OwnChild'
    BY <1>26 DEF Resolve, Calling, Settle, hostVars
  <1>27. ASSUME NEW r \in Rpcs, TimeOut(r) PROVE OwnChild'
    BY <1>27 DEF TimeOut, Calling, Settle, hostVars
  <1>28. ASSUME NEW r \in Rpcs, Handle(r) PROVE OwnChild'
    BY <1>28 DEF Handle, WorkerStep
  <1>29. CASE Install
    BY <1>29 DEF Install, rpcVars
  <1>30. CASE UNCHANGED vars
    BY <1>30 DEF vars, hostVars, rpcVars
  <1> HIDE HostAssumption DEF TypeOK, OwnChild, Spawning, Spawners, Threads
  <1>31. QED
    BY <1>1, <1>2, <1>3, <1>4, <1>5, <1>6, <1>7, <1>8, <1>9, <1>10, <1>11,
       <1>12, <1>13, <1>14, <1>15, <1>16, <1>17, <1>18, <1>19, <1>20, <1>21,
       <1>22, <1>23, <1>24, <1>25, <1>26, <1>27, <1>28, <1>29, <1>30,
       NextCases

(* No step drops the duty to start a worker, or leaves one unwatched.       *)
LEMMA CoverStep ==
  TypeOK /\ OwnChild /\ Covered /\ [Next]_vars => Covered'
  <1> SUFFICES ASSUME TypeOK, OwnChild, Covered, [Next]_vars PROVE Covered'
    OBVIOUS
  <1> USE HostAssumption DEF TypeOK, OwnChild, Spawning, Spawners, Threads,
        Covered, Duty, Watched, OnItsWay, Tailing, Busy, Running
  <1>1. ASSUME NEW t \in Spawners, NEW w \in Workers, SpawnChild(t, w) PROVE Covered'
    BY <1>1 DEF SpawnChild, At, Goto, rpcVars
  <1>2. ASSUME NEW t \in Spawners, SpawnFails(t) PROVE Covered'
    BY <1>2 DEF SpawnFails, At, Goto, rpcVars
  <1>3. ASSUME NEW t \in Spawners, KeepChild(t) PROVE Covered'
    BY <1>3 DEF KeepChild, At, Goto, rpcVars
  <1>4. ASSUME NEW t \in Spawners, KeepStdin(t) PROVE Covered'
    BY <1>4 DEF KeepStdin, At, Goto, rpcVars
  <1>5. ASSUME NEW t \in Spawners, Schedule(t) PROVE Covered'
    BY <1>5 DEF Schedule, At, Goto, rpcVars
  <1>6. ASSUME NEW t \in Spawners, CheckGeneration(t) PROVE Covered'
    BY <1>6 DEF CheckGeneration, At, Goto, rpcVars
  <1>7. ASSUME NEW t \in Spawners, CheckSlot(t) PROVE Covered'
    BY <1>7 DEF CheckSlot, At, Goto, rpcVars
  <1>8. ASSUME NEW t \in Restarts \cup {Quit}, Bump(t) PROVE Covered'
    BY <1>8 DEF Bump, At, Goto, rpcVars
  <1>9. ASSUME NEW t \in Restarts \cup {Quit}, TakeWorker(t) PROVE Covered'
    BY <1>9 DEF TakeWorker, At, Goto, rpcVars
  <1>10. ASSUME NEW t \in Restarts \cup {Quit}, TakeStdin(t) PROVE Covered'
    BY <1>10 DEF TakeStdin, At, Goto, rpcVars
  <1>11. ASSUME NEW t \in Restarts \cup {Quit}, KillWorker(t) PROVE Covered'
    BY <1>11 DEF KillWorker, At, Goto, rpcVars
  <1>12. ASSUME NEW w \in Workers, Reap(w) PROVE Covered'
    BY <1>12 DEF Reap, Watching, rpcVars
  <1>13. ASSUME NEW w \in Workers, Unready(w) PROVE Covered'
    BY <1>13 DEF Unready, Watching, rpcVars
  <1>14. ASSUME NEW w \in Workers, CloseStdin(w) PROVE Covered'
    BY <1>14 DEF CloseStdin, Watching, rpcVars
  <1>15. ASSUME NEW w \in Workers, Drain(w) PROVE Covered'
    BY <1>15 DEF Drain, Watching, FailPending, Goto
  <1>16. ASSUME NEW w \in Workers, ReadHello(w) PROVE Covered'
    BY <1>16 DEF ReadHello, rpcVars
  <1>17. ASSUME NEW w \in Workers, Initialised(w) PROVE Covered'
    BY <1>17 DEF Initialised, WorkerStep
  <1>18. ASSUME NEW w \in Workers, Wedge(w) PROVE Covered'
    BY <1>18 DEF Wedge, WorkerStep
  <1>19. ASSUME NEW w \in Workers, Die(w) PROVE Covered'
    BY <1>19 DEF Die, WorkerStep
  <1>20. ASSUME NEW r \in Rpcs, Gate(r) PROVE Covered'
    BY <1>20 DEF Gate, Calling, Settle, hostVars
  <1>21. ASSUME NEW r \in Rpcs, Insert(r) PROVE Covered'
    BY <1>21 DEF Insert, Calling, hostVars
  <1>22. ASSUME NEW r \in Rpcs, Lock(r) PROVE Covered'
    BY <1>22 DEF Lock, Calling, Settle, hostVars
  <1>23. ASSUME NEW r \in Rpcs, Write(r) PROVE Covered'
    BY <1>23 DEF Write, Calling, hostVars
  <1>24. ASSUME NEW r \in Rpcs, WriteFails(r) PROVE Covered'
    BY <1>24 DEF WriteFails, Calling, Settle, hostVars
  <1>25. ASSUME NEW r \in Rpcs, Reply(r) PROVE Covered'
    BY <1>25 DEF Reply, hostVars
  <1>26. ASSUME NEW r \in Rpcs, Resolve(r) PROVE Covered'
    BY <1>26 DEF Resolve, Calling, Settle, hostVars
  <1>27. ASSUME NEW r \in Rpcs, TimeOut(r) PROVE Covered'
    BY <1>27 DEF TimeOut, Calling, Settle, hostVars
  <1>28. ASSUME NEW r \in Rpcs, Handle(r) PROVE Covered'
    BY <1>28 DEF Handle, WorkerStep
  <1>29. CASE Install
    BY <1>29 DEF Install, rpcVars
  <1>30. CASE UNCHANGED vars
    BY <1>30 DEF vars, hostVars, rpcVars
  <1> HIDE HostAssumption DEF TypeOK, OwnChild, Spawning, Spawners, Threads,
        Covered, Duty, Watched, OnItsWay, Tailing, Busy, Running
  <1>31. QED
    BY <1>1, <1>2, <1>3, <1>4, <1>5, <1>6, <1>7, <1>8, <1>9, <1>10, <1>11,
       <1>12, <1>13, <1>14, <1>15, <1>16, <1>17, <1>18, <1>19, <1>20, <1>21,
       <1>22, <1>23, <1>24, <1>25, <1>26, <1>27, <1>28, <1>29, <1>30,
       NextCases

(* A call is taken out of the table by whoever ends it.                     *)
LEMMA CallsStep ==
  TypeOK /\ Calls /\ [Next]_vars => Calls'
  <1> SUFFICES ASSUME TypeOK, Calls, [Next]_vars PROVE Calls'
    OBVIOUS
  <1> USE HostAssumption DEF TypeOK, Calls, PendingInFlight, ChanOK
  <1>1. ASSUME NEW t \in Spawners, NEW w \in Workers, SpawnChild(t, w) PROVE Calls'
    BY <1>1 DEF SpawnChild, At, Goto, rpcVars
  <1>2. ASSUME NEW t \in Spawners, SpawnFails(t) PROVE Calls'
    BY <1>2 DEF SpawnFails, At, Goto, rpcVars
  <1>3. ASSUME NEW t \in Spawners, KeepChild(t) PROVE Calls'
    BY <1>3 DEF KeepChild, At, Goto, rpcVars
  <1>4. ASSUME NEW t \in Spawners, KeepStdin(t) PROVE Calls'
    BY <1>4 DEF KeepStdin, At, Goto, rpcVars
  <1>5. ASSUME NEW t \in Spawners, Schedule(t) PROVE Calls'
    BY <1>5 DEF Schedule, At, Goto, rpcVars
  <1>6. ASSUME NEW t \in Spawners, CheckGeneration(t) PROVE Calls'
    BY <1>6 DEF CheckGeneration, At, Goto, rpcVars
  <1>7. ASSUME NEW t \in Spawners, CheckSlot(t) PROVE Calls'
    BY <1>7 DEF CheckSlot, At, Goto, rpcVars
  <1>8. ASSUME NEW t \in Restarts \cup {Quit}, Bump(t) PROVE Calls'
    BY <1>8 DEF Bump, At, Goto, rpcVars
  <1>9. ASSUME NEW t \in Restarts \cup {Quit}, TakeWorker(t) PROVE Calls'
    BY <1>9 DEF TakeWorker, At, Goto, rpcVars
  <1>10. ASSUME NEW t \in Restarts \cup {Quit}, TakeStdin(t) PROVE Calls'
    BY <1>10 DEF TakeStdin, At, Goto, rpcVars
  <1>11. ASSUME NEW t \in Restarts \cup {Quit}, KillWorker(t) PROVE Calls'
    BY <1>11 DEF KillWorker, At, Goto, rpcVars
  <1>12. ASSUME NEW w \in Workers, Reap(w) PROVE Calls'
    BY <1>12 DEF Reap, Watching, rpcVars
  <1>13. ASSUME NEW w \in Workers, Unready(w) PROVE Calls'
    BY <1>13 DEF Unready, Watching, rpcVars
  <1>14. ASSUME NEW w \in Workers, CloseStdin(w) PROVE Calls'
    BY <1>14 DEF CloseStdin, Watching, rpcVars
  <1>15. ASSUME NEW w \in Workers, Drain(w) PROVE Calls'
    BY <1>15 DEF Drain, Watching, FailPending, Goto
  <1>16. ASSUME NEW w \in Workers, ReadHello(w) PROVE Calls'
    BY <1>16 DEF ReadHello, rpcVars
  <1>17. ASSUME NEW w \in Workers, Initialised(w) PROVE Calls'
    BY <1>17 DEF Initialised, WorkerStep
  <1>18. ASSUME NEW w \in Workers, Wedge(w) PROVE Calls'
    BY <1>18 DEF Wedge, WorkerStep
  <1>19. ASSUME NEW w \in Workers, Die(w) PROVE Calls'
    BY <1>19 DEF Die, WorkerStep
  <1>20. ASSUME NEW r \in Rpcs, Gate(r) PROVE Calls'
    BY <1>20 DEF Gate, Calling, Settle, hostVars
  <1>21. ASSUME NEW r \in Rpcs, Insert(r) PROVE Calls'
    BY <1>21 DEF Insert, Calling, hostVars
  <1>22. ASSUME NEW r \in Rpcs, Lock(r) PROVE Calls'
    BY <1>22 DEF Lock, Calling, Settle, hostVars
  <1>23. ASSUME NEW r \in Rpcs, Write(r) PROVE Calls'
    BY <1>23 DEF Write, Calling, hostVars
  <1>24. ASSUME NEW r \in Rpcs, WriteFails(r) PROVE Calls'
    BY <1>24 DEF WriteFails, Calling, Settle, hostVars
  <1>25. ASSUME NEW r \in Rpcs, Reply(r) PROVE Calls'
    BY <1>25 DEF Reply, hostVars
  <1>26. ASSUME NEW r \in Rpcs, Resolve(r) PROVE Calls'
    BY <1>26 DEF Resolve, Calling, Settle, hostVars
  <1>27. ASSUME NEW r \in Rpcs, TimeOut(r) PROVE Calls'
    BY <1>27 DEF TimeOut, Calling, Settle, hostVars
  <1>28. ASSUME NEW r \in Rpcs, Handle(r) PROVE Calls'
    BY <1>28 DEF Handle, WorkerStep
  <1>29. CASE Install
    BY <1>29 DEF Install, rpcVars
  <1>30. CASE UNCHANGED vars
    BY <1>30 DEF vars, hostVars, rpcVars
  <1> HIDE HostAssumption DEF TypeOK, Calls, PendingInFlight, ChanOK
  <1>31. QED
    BY <1>1, <1>2, <1>3, <1>4, <1>5, <1>6, <1>7, <1>8, <1>9, <1>10, <1>11,
       <1>12, <1>13, <1>14, <1>15, <1>16, <1>17, <1>18, <1>19, <1>20, <1>21,
       <1>22, <1>23, <1>24, <1>25, <1>26, <1>27, <1>28, <1>29, <1>30,
       NextCases

-----------------------------------------------------------------------------
(* Together they are kept by every step.                                    *)
LEMMA Inductive == Spec => []IInv
<1>1. Init => IInv
  <2> SUFFICES ASSUME Init PROVE IInv
    OBVIOUS
  <2>1. TypeOK
    BY HostAssumption DEF Init, TypeOK, Spawners, Threads
  <2>2. OwnChild /\ Calls
    BY HostAssumption DEF Init, OwnChild, Spawning, Spawners, Threads, Calls,
       PendingInFlight, ChanOK
  <2>3. OnItsWay(Boot) /\ Boot \in Spawners
    BY DEF Init, OnItsWay, Spawners, Threads
  <2>4. Covered
    BY <2>3 DEF Init, Covered, Duty
  <2>5. QED
    BY <2>1, <2>2, <2>4 DEF IInv
<1>2. IInv /\ [Next]_vars => IInv'
  BY TypeStep, ChildStep, CoverStep, CallsStep DEF IInv
<1>3. QED
  BY <1>1, <1>2, PTL DEF Spec

(* Every cell of the host keeps its type, and a request is only ever        *)
(* written to a worker, for any number of workers, restarts and calls.      *)
THEOREM HostTypes == Spec => []TypeOK
  BY Inductive, PTL DEF IInv

(* The worker is never given up, whatever the watchers, the respawn timers, *)
(* the manual restarts and the exit of worker.rs and lib.rs interleave to.  *)
THEOREM WorkerAttended == Spec => []Attended
<1>1. IInv => Attended
  BY DEF IInv, Covered, Attended, Duty, Watched, OnItsWay, Busy
<1>2. QED
  BY <1>1, Inductive, PTL

(* No path of rpc (rpc.rs) leaves a call in the table that nobody awaits.   *)
THEOREM NoCallLeaks == Spec => []PendingInFlight
  BY Inductive, PTL DEF IInv, Calls

-----------------------------------------------------------------------------
(* The handle of a worker is in the slot or in the hand of one thread; the  *)
(* pipe of a worker is kept, and written to, only once its handle has been  *)
(* in the slot, where it stays while the worker lives and is not displaced. *)

Holding(t) == tpc[t] \in {"slot", "untie", "kill"} /\ child[t] # NoWorker

Handles ==
    /\ \A t \in Spawners : Holding(t) => child[t] # slot /\ proc[child[t]] # "none"
    /\ \A t, u \in Spawners : Holding(t) /\ Holding(u) /\ child[t] = child[u] => t = u

Kept(w) ==
    watcher[w] # "none" \/ \E t \in Spawners : tpc[t] = "stdin" /\ child[t] = w

Placed == \A w \in Workers \ displaced : Alive(w) /\ Kept(w) => slot = w

Piped ==
    /\ stdin # NoWorker => watcher[stdin] # "none"
    /\ \A r \in Rpcs : rpc[r] \in {"writing", "await"} => watcher[to[r]] # "none"

\* What the proofs about handles depend on.
handleVars == <<proc, slot, stdin, watcher, tpc, child, crossed, displaced>>

(* Next, with the steps that touch no handle, thread or process in one.     *)
LEMMA HandleCases ==
  ASSUME Next
  PROVE  \/ \E t \in Spawners, w \in Workers : SpawnChild(t, w)
         \/ \E t \in Spawners : SpawnFails(t) \/ KeepChild(t) \/ KeepStdin(t)
         \/ \E t \in Spawners : Schedule(t) \/ CheckGeneration(t) \/ CheckSlot(t)
         \/ \E t \in Restarts \cup {Quit} :
               Bump(t) \/ TakeWorker(t) \/ TakeStdin(t) \/ KillWorker(t)
         \/ \E w \in Workers : Reap(w) \/ Unready(w) \/ CloseStdin(w) \/ Drain(w)
         \/ \E w \in Workers : Initialised(w) \/ Wedge(w) \/ Die(w)
         \/ UNCHANGED handleVars
<1>1. ASSUME NEW w \in Workers, ReadHello(w) PROVE UNCHANGED handleVars
  BY <1>1 DEF ReadHello, handleVars, past
<1>2. ASSUME NEW r \in Rpcs, Gate(r) \/ Insert(r) \/ Lock(r) \/ Write(r) \/ WriteFails(r)
      PROVE  UNCHANGED handleVars
  BY <1>2 DEF Gate, Insert, Lock, Write, WriteFails, hostVars, handleVars
<1>3. ASSUME NEW r \in Rpcs, Reply(r) \/ Resolve(r) \/ TimeOut(r)
      PROVE  UNCHANGED handleVars
  BY <1>3 DEF Reply, Resolve, TimeOut, hostVars, handleVars
<1>4. ASSUME NEW r \in Rpcs, Handle(r) PROVE UNCHANGED handleVars
  BY <1>4 DEF Handle, WorkerStep, handleVars, past
<1>5. CASE Install
  BY <1>5 DEF Install, handleVars, past
<1>6. QED
  BY <1>1, <1>2, <1>3, <1>4, <1>5, NextCases

(* A handle is in one place.                                                *)
LEMMA HandleStep ==
  TypeOK /\ OwnChild /\ Handles /\ [Next]_vars => Handles'
  <1> SUFFICES ASSUME TypeOK, OwnChild, Handles, [Next]_vars PROVE Handles'
    OBVIOUS
  <1> USE HostAssumption DEF TypeOK, OwnChild, Spawning, Spawners, Threads, Handles,
          Holding, Alive
  <1>1. ASSUME NEW t \in Spawners, NEW w \in Workers, SpawnChild(t, w) PROVE Handles'
    BY <1>1 DEF SpawnChild, At, Goto, past
  <1>2. ASSUME NEW t \in Spawners, SpawnFails(t) PROVE Handles'
    BY <1>2 DEF SpawnFails, At, Goto, past
  <1>3. ASSUME NEW t \in Spawners, KeepChild(t) PROVE Handles'
    BY <1>3 DEF KeepChild, Displace, At, Goto
  <1>4. ASSUME NEW t \in Spawners, KeepStdin(t) PROVE Handles'
    BY <1>4 DEF KeepStdin, At, Goto, past
  <1>5. ASSUME NEW t \in Spawners, Schedule(t) PROVE Handles'
    BY <1>5 DEF Schedule, At, Goto, past
  <1>6. ASSUME NEW t \in Spawners, CheckGeneration(t) PROVE Handles'
    BY <1>6 DEF CheckGeneration, At, Goto, past
  <1>7. ASSUME NEW t \in Spawners, CheckSlot(t) PROVE Handles'
    BY <1>7 DEF CheckSlot, At, Goto, past
  <1>8. ASSUME NEW t \in Restarts \cup {Quit}, Bump(t) PROVE Handles'
    BY <1>8 DEF Bump, At, Goto, past
  <1>9. ASSUME NEW t \in Restarts \cup {Quit}, TakeWorker(t) PROVE Handles'
    BY <1>9 DEF TakeWorker, Displace, At, Goto
  <1>10. ASSUME NEW t \in Restarts \cup {Quit}, TakeStdin(t) PROVE Handles'
    BY <1>10 DEF TakeStdin, At, Goto, past
  <1>11. ASSUME NEW t \in Restarts \cup {Quit}, KillWorker(t) PROVE Handles'
    BY <1>11 DEF KillWorker, At, Goto, past
  <1>12. ASSUME NEW w \in Workers, Reap(w) PROVE Handles'
    BY <1>12 DEF Reap, Watching, past
  <1>13. ASSUME NEW w \in Workers, Unready(w) PROVE Handles'
    BY <1>13 DEF Unready, Watching, past
  <1>14. ASSUME NEW w \in Workers, CloseStdin(w) PROVE Handles'
    BY <1>14 DEF CloseStdin, Watching, past
  <1>15. ASSUME NEW w \in Workers, Drain(w) PROVE Handles'
    BY <1>15 DEF Drain, Watching, FailPending, Goto, past
  <1>16. ASSUME NEW w \in Workers, Initialised(w) PROVE Handles'
    BY <1>16 DEF Initialised, WorkerStep, past
  <1>17. ASSUME NEW w \in Workers, Wedge(w) PROVE Handles'
    BY <1>17 DEF Wedge, WorkerStep, past
  <1>18. ASSUME NEW w \in Workers, Die(w) PROVE Handles'
    BY <1>18 DEF Die, WorkerStep, past
  <1>19. CASE UNCHANGED handleVars
    BY <1>19 DEF handleVars
  <1>20. CASE UNCHANGED vars
    BY <1>20 DEF vars, hostVars, past
  <1> HIDE HostAssumption DEF TypeOK, OwnChild, Spawning, Spawners, Threads, Handles,
          Holding, Alive
  <1>21. QED
    BY <1>1, <1>2, <1>3, <1>4, <1>5, <1>6, <1>7, <1>8, <1>9, <1>10, <1>11, <1>12,
       <1>13, <1>14, <1>15, <1>16, <1>17, <1>18, <1>19, <1>20, HandleCases

(* A living worker stays in the slot until it is displaced.                 *)
LEMMA PlaceStep ==
  TypeOK /\ OwnChild /\ Handles /\ Placed /\ [Next]_vars => Placed'
  <1> SUFFICES ASSUME TypeOK, OwnChild, Handles, Placed, [Next]_vars PROVE Placed'
    OBVIOUS
  <1> USE HostAssumption DEF TypeOK, OwnChild, Spawning, Spawners, Threads, Handles,
          Holding, Placed, Kept, Alive
  <1>1. ASSUME NEW t \in Spawners, NEW w \in Workers, SpawnChild(t, w) PROVE Placed'
    BY <1>1 DEF SpawnChild, At, Goto, past
  <1>2. ASSUME NEW t \in Spawners, SpawnFails(t) PROVE Placed'
    BY <1>2 DEF SpawnFails, At, Goto, past
  <1>3. ASSUME NEW t \in Spawners, KeepChild(t) PROVE Placed'
    BY <1>3 DEF KeepChild, Displace, At, Goto
  <1>4. ASSUME NEW t \in Spawners, KeepStdin(t) PROVE Placed'
    BY <1>4 DEF KeepStdin, At, Goto, past
  <1>5. ASSUME NEW t \in Spawners, Schedule(t) PROVE Placed'
    BY <1>5 DEF Schedule, At, Goto, past
  <1>6. ASSUME NEW t \in Spawners, CheckGeneration(t) PROVE Placed'
    BY <1>6 DEF CheckGeneration, At, Goto, past
  <1>7. ASSUME NEW t \in Spawners, CheckSlot(t) PROVE Placed'
    BY <1>7 DEF CheckSlot, At, Goto, past
  <1>8. ASSUME NEW t \in Restarts \cup {Quit}, Bump(t) PROVE Placed'
    BY <1>8 DEF Bump, At, Goto, past
  <1>9. ASSUME NEW t \in Restarts \cup {Quit}, TakeWorker(t) PROVE Placed'
    BY <1>9 DEF TakeWorker, Displace, At, Goto
  <1>10. ASSUME NEW t \in Restarts \cup {Quit}, TakeStdin(t) PROVE Placed'
    BY <1>10 DEF TakeStdin, At, Goto, past
  <1>11. ASSUME NEW t \in Restarts \cup {Quit}, KillWorker(t) PROVE Placed'
    BY <1>11 DEF KillWorker, At, Goto, past
  <1>12. ASSUME NEW w \in Workers, Reap(w) PROVE Placed'
    BY <1>12 DEF Reap, Watching, past
  <1>13. ASSUME NEW w \in Workers, Unready(w) PROVE Placed'
    BY <1>13 DEF Unready, Watching, past
  <1>14. ASSUME NEW w \in Workers, CloseStdin(w) PROVE Placed'
    BY <1>14 DEF CloseStdin, Watching, past
  <1>15. ASSUME NEW w \in Workers, Drain(w) PROVE Placed'
    BY <1>15 DEF Drain, Watching, FailPending, Goto, past
  <1>16. ASSUME NEW w \in Workers, Initialised(w) PROVE Placed'
    BY <1>16 DEF Initialised, WorkerStep, past
  <1>17. ASSUME NEW w \in Workers, Wedge(w) PROVE Placed'
    BY <1>17 DEF Wedge, WorkerStep, past
  <1>18. ASSUME NEW w \in Workers, Die(w) PROVE Placed'
    BY <1>18 DEF Die, WorkerStep, past
  <1>19. CASE UNCHANGED handleVars
    BY <1>19 DEF handleVars
  <1>20. CASE UNCHANGED vars
    BY <1>20 DEF vars, hostVars, past
  <1> HIDE HostAssumption DEF TypeOK, OwnChild, Spawning, Spawners, Threads, Handles,
          Holding, Placed, Kept, Alive
  <1>21. QED
    BY <1>1, <1>2, <1>3, <1>4, <1>5, <1>6, <1>7, <1>8, <1>9, <1>10, <1>11, <1>12,
       <1>13, <1>14, <1>15, <1>16, <1>17, <1>18, <1>19, <1>20, HandleCases

(* What is written to a worker is written once its watcher has started.     *)
LEMMA PipeStep ==
  TypeOK /\ OwnChild /\ Piped /\ [Next]_vars => Piped'
  <1> SUFFICES ASSUME TypeOK, OwnChild, Piped, [Next]_vars PROVE Piped'
    OBVIOUS
  <1> USE HostAssumption DEF TypeOK, OwnChild, Spawning, Spawners, Threads, Piped
  <1>1. ASSUME NEW t \in Spawners, NEW w \in Workers, SpawnChild(t, w) PROVE Piped'
    BY <1>1 DEF SpawnChild, At, Goto, past, rpcVars
  <1>2. ASSUME NEW t \in Spawners, SpawnFails(t) PROVE Piped'
    BY <1>2 DEF SpawnFails, At, Goto, past, rpcVars
  <1>3. ASSUME NEW t \in Spawners, KeepChild(t) PROVE Piped'
    BY <1>3 DEF KeepChild, Displace, At, Goto, rpcVars
  <1>4. ASSUME NEW t \in Spawners, KeepStdin(t) PROVE Piped'
    BY <1>4 DEF KeepStdin, At, Goto, past, rpcVars
  <1>5. ASSUME NEW t \in Spawners, Schedule(t) PROVE Piped'
    BY <1>5 DEF Schedule, At, Goto, past, rpcVars
  <1>6. ASSUME NEW t \in Spawners, CheckGeneration(t) PROVE Piped'
    BY <1>6 DEF CheckGeneration, At, Goto, past, rpcVars
  <1>7. ASSUME NEW t \in Spawners, CheckSlot(t) PROVE Piped'
    BY <1>7 DEF CheckSlot, At, Goto, past, rpcVars
  <1>8. ASSUME NEW t \in Restarts \cup {Quit}, Bump(t) PROVE Piped'
    BY <1>8 DEF Bump, At, Goto, past, rpcVars
  <1>9. ASSUME NEW t \in Restarts \cup {Quit}, TakeWorker(t) PROVE Piped'
    BY <1>9 DEF TakeWorker, Displace, At, Goto, rpcVars
  <1>10. ASSUME NEW t \in Restarts \cup {Quit}, TakeStdin(t) PROVE Piped'
    BY <1>10 DEF TakeStdin, At, Goto, past, rpcVars
  <1>11. ASSUME NEW t \in Restarts \cup {Quit}, KillWorker(t) PROVE Piped'
    BY <1>11 DEF KillWorker, At, Goto, past, rpcVars
  <1>12. ASSUME NEW w \in Workers, Reap(w) PROVE Piped'
    BY <1>12 DEF Reap, Watching, past, rpcVars
  <1>13. ASSUME NEW w \in Workers, Unready(w) PROVE Piped'
    BY <1>13 DEF Unready, Watching, past, rpcVars
  <1>14. ASSUME NEW w \in Workers, CloseStdin(w) PROVE Piped'
    BY <1>14 DEF CloseStdin, Watching, past, rpcVars
  <1>15. ASSUME NEW w \in Workers, Drain(w) PROVE Piped'
    BY <1>15 DEF Drain, Watching, FailPending, Goto, past
  <1>16. ASSUME NEW w \in Workers, Initialised(w) PROVE Piped'
    BY <1>16 DEF Initialised, WorkerStep, past
  <1>17. ASSUME NEW w \in Workers, Wedge(w) PROVE Piped'
    BY <1>17 DEF Wedge, WorkerStep, past
  <1>18. ASSUME NEW w \in Workers, Die(w) PROVE Piped'
    BY <1>18 DEF Die, WorkerStep, past
  <1>19. ASSUME NEW w \in Workers, ReadHello(w) PROVE Piped'
    BY <1>19 DEF ReadHello, past, rpcVars
  <1>20. ASSUME NEW r \in Rpcs, Gate(r) \/ Insert(r) PROVE Piped'
    BY <1>20 DEF Gate, Insert, Calling, Settle, hostVars
  <1>21. ASSUME NEW r \in Rpcs, Lock(r) PROVE Piped'
    BY <1>21 DEF Lock, Calling, Settle, hostVars
  <1>22. ASSUME NEW r \in Rpcs, Write(r) PROVE Piped'
    BY <1>22 DEF Write, Calling, hostVars
  <1>23. ASSUME NEW r \in Rpcs, WriteFails(r) PROVE Piped'
    BY <1>23 DEF WriteFails, Calling, Settle, hostVars
  <1>24. ASSUME NEW r \in Rpcs, Reply(r) PROVE Piped'
    BY <1>24 DEF Reply, hostVars
  <1>25. ASSUME NEW r \in Rpcs, Resolve(r) \/ TimeOut(r) PROVE Piped'
    BY <1>25 DEF Resolve, TimeOut, Calling, Settle, hostVars
  <1>26. ASSUME NEW r \in Rpcs, Handle(r) PROVE Piped'
    BY <1>26 DEF Handle, WorkerStep, past
  <1>27. CASE Install
    BY <1>27 DEF Install, past, rpcVars
  <1>28. CASE UNCHANGED vars
    BY <1>28 DEF vars, hostVars, rpcVars
  <1> HIDE HostAssumption DEF TypeOK, OwnChild, Spawning, Spawners, Threads, Piped
  <1>29. QED
    BY <1>1, <1>2, <1>3, <1>4, <1>5, <1>6, <1>7, <1>8, <1>9, <1>10, <1>11, <1>12,
       <1>13, <1>14, <1>15, <1>16, <1>17, <1>18, <1>19, <1>20, <1>21, <1>22, <1>23,
       <1>24, <1>25, <1>26, <1>27, <1>28, NextCases

(* The calls of a dead worker are told by the watcher that finds its exit.  *)
LEMMA ToldStep ==
  TypeOK /\ OwnChild /\ Placed /\ Piped /\ ExitFailsPending /\ [Next]_vars => ExitFailsPending'
  <1> SUFFICES ASSUME TypeOK, OwnChild, Placed, Piped, ExitFailsPending, [Next]_vars
               PROVE  ExitFailsPending'
    OBVIOUS
  <1> USE HostAssumption DEF TypeOK, OwnChild, Spawning, Spawners, Threads,
        Placed, Kept, Piped, ExitFailsPending, Tailing, Alive
  <1>1. ASSUME NEW t \in Spawners, NEW w \in Workers, SpawnChild(t, w)
        PROVE  ExitFailsPending'
    BY <1>1 DEF SpawnChild, At, Goto, past, rpcVars
  <1>2. ASSUME NEW t \in Spawners, SpawnFails(t) PROVE ExitFailsPending'
    BY <1>2 DEF SpawnFails, At, Goto, past, rpcVars
  <1>3. ASSUME NEW t \in Spawners, KeepChild(t) PROVE ExitFailsPending'
    BY <1>3 DEF KeepChild, Displace, At, Goto, rpcVars
  <1>4. ASSUME NEW t \in Spawners, KeepStdin(t) PROVE ExitFailsPending'
    BY <1>4 DEF KeepStdin, At, Goto, past, rpcVars
  <1>5. ASSUME NEW t \in Spawners, Schedule(t) PROVE ExitFailsPending'
    BY <1>5 DEF Schedule, At, Goto, past, rpcVars
  <1>6. ASSUME NEW t \in Spawners, CheckGeneration(t) PROVE ExitFailsPending'
    BY <1>6 DEF CheckGeneration, At, Goto, past, rpcVars
  <1>7. ASSUME NEW t \in Spawners, CheckSlot(t) PROVE ExitFailsPending'
    BY <1>7 DEF CheckSlot, At, Goto, past, rpcVars
  <1>8. ASSUME NEW t \in Restarts \cup {Quit}, Bump(t) PROVE ExitFailsPending'
    BY <1>8 DEF Bump, At, Goto, past, rpcVars
  <1>9. ASSUME NEW t \in Restarts \cup {Quit}, TakeWorker(t) PROVE ExitFailsPending'
    BY <1>9 DEF TakeWorker, Displace, At, Goto, rpcVars
  <1>10. ASSUME NEW t \in Restarts \cup {Quit}, TakeStdin(t) PROVE ExitFailsPending'
    BY <1>10 DEF TakeStdin, At, Goto, past, rpcVars
  <1>11. ASSUME NEW t \in Restarts \cup {Quit}, KillWorker(t) PROVE ExitFailsPending'
    BY <1>11 DEF KillWorker, At, Goto, past, rpcVars
  <1>12. ASSUME NEW w \in Workers, Reap(w) PROVE ExitFailsPending'
    BY <1>12 DEF Reap, Watching, past, rpcVars
  <1>13. ASSUME NEW w \in Workers, Unready(w) PROVE ExitFailsPending'
    BY <1>13 DEF Unready, Watching, past, rpcVars
  <1>14. ASSUME NEW w \in Workers, CloseStdin(w) PROVE ExitFailsPending'
    BY <1>14 DEF CloseStdin, Watching, past, rpcVars
  <1>15. ASSUME NEW w \in Workers, Drain(w) PROVE ExitFailsPending'
    BY <1>15 DEF Drain, Watching, FailPending, Goto, past
  <1>16. ASSUME NEW w \in Workers, Initialised(w) PROVE ExitFailsPending'
    BY <1>16 DEF Initialised, WorkerStep, past
  <1>17. ASSUME NEW w \in Workers, Wedge(w) PROVE ExitFailsPending'
    BY <1>17 DEF Wedge, WorkerStep, past
  <1>18. ASSUME NEW w \in Workers, Die(w) PROVE ExitFailsPending'
    BY <1>18 DEF Die, WorkerStep, past
  <1>19. ASSUME NEW w \in Workers, ReadHello(w) PROVE ExitFailsPending'
    BY <1>19 DEF ReadHello, past, rpcVars
  <1>20. ASSUME NEW r \in Rpcs, Gate(r) \/ Insert(r) PROVE ExitFailsPending'
    BY <1>20 DEF Gate, Insert, Calling, Settle, hostVars
  <1>21. ASSUME NEW r \in Rpcs, Lock(r) PROVE ExitFailsPending'
    BY <1>21 DEF Lock, Calling, Settle, hostVars
  <1>22. ASSUME NEW r \in Rpcs, Write(r) PROVE ExitFailsPending'
    BY <1>22 DEF Write, Calling, hostVars
  <1>23. ASSUME NEW r \in Rpcs, WriteFails(r) PROVE ExitFailsPending'
    BY <1>23 DEF WriteFails, Calling, Settle, hostVars
  <1>24. ASSUME NEW r \in Rpcs, Reply(r) PROVE ExitFailsPending'
    BY <1>24 DEF Reply, hostVars
  <1>25. ASSUME NEW r \in Rpcs, Resolve(r) \/ TimeOut(r) PROVE ExitFailsPending'
    BY <1>25 DEF Resolve, TimeOut, Calling, Settle, hostVars
  <1>26. ASSUME NEW r \in Rpcs, Handle(r) PROVE ExitFailsPending'
    BY <1>26 DEF Handle, WorkerStep, past
  <1>27. CASE Install
    BY <1>27 DEF Install, past, rpcVars
  <1>28. CASE UNCHANGED vars
    BY <1>28 DEF vars, hostVars, rpcVars
  <1> HIDE HostAssumption DEF TypeOK, OwnChild, Spawning, Spawners, Threads,
        Placed, Kept, Piped, ExitFailsPending, Tailing, Alive
  <1>29. QED
    BY <1>1, <1>2, <1>3, <1>4, <1>5, <1>6, <1>7, <1>8, <1>9, <1>10, <1>11, <1>12,
       <1>13, <1>14, <1>15, <1>16, <1>17, <1>18, <1>19, <1>20, <1>21, <1>22, <1>23,
       <1>24, <1>25, <1>26, <1>27, <1>28, NextCases

-----------------------------------------------------------------------------
(* A set that changes by one member for another does not grow.              *)
LEMMA Swapped ==
  ASSUME NEW S, IsFiniteSet(S), NEW x \in S, NEW y, NEW T, T \subseteq (S \ {x}) \cup {y}
  PROVE  IsFiniteSet(T) /\ Cardinality(T) <= Cardinality(S)
<1> DEFINE R == S \ {x}
           U == R \cup {y}
<1>1. IsFiniteSet(R) /\ Cardinality(R) = Cardinality(S) - 1 /\ Cardinality(S) \in Nat
  BY FS_RemoveElement, FS_CardinalityType
<1>2. IsFiniteSet(U) /\ Cardinality(U) <= Cardinality(R) + 1
  <2> HIDE DEF R
  <2>1. IsFiniteSet(U)
    BY <1>1, FS_AddElement
  <2>2. Cardinality(U) = IF y \in R THEN Cardinality(R) ELSE Cardinality(R) + 1
    BY <1>1, FS_AddElement
  <2>3. Cardinality(R) \in Nat
    BY <1>1, FS_CardinalityType
  <2>4. QED
    BY <2>1, <2>2, <2>3
<1>3. T \in SUBSET U
  OBVIOUS
<1> HIDE DEF R, U
<1>4. IsFiniteSet(T) /\ Cardinality(T) <= Cardinality(U)
  BY <1>2, <1>3, FS_Subset
<1>5. Cardinality(T) \in Nat /\ Cardinality(U) \in Nat
  BY <1>2, <1>4, FS_CardinalityType
<1>6. QED
  BY <1>1, <1>2, <1>4, <1>5

(* A set with no more members than one has no two of them.                  *)
LEMMA AtMostOne ==
  ASSUME NEW S, IsFiniteSet(S), Cardinality(S) <= 1, NEW x \in S, NEW y \in S
  PROVE  x = y
<1>1. IsFiniteSet(S \ {x}) /\ Cardinality(S \ {x}) = Cardinality(S) - 1
  BY FS_RemoveElement
<1>2. Cardinality(S \ {x}) \in Nat /\ Cardinality(S) \in Nat
  BY <1>1, FS_CardinalityType
<1>3. Cardinality(S \ {x}) = 0
  BY <1>1, <1>2
<1>4. S \ {x} = {}
  BY <1>1, <1>3, FS_EmptySet
<1>5. QED
  BY <1>4

(* One line of succession ends and another begins.                          *)
LEMMA LineSwapped ==
  ASSUME NEW x \in Lines, NEW y,
         \A w \in Workers : Standing(w)' =>
            <<"worker", w>> = y \/ (Standing(w) /\ <<"worker", w>> # x),
         \A w \in Workers : Tailing(w)' =>
            <<"exit", w>> = y \/ (Tailing(w) /\ <<"exit", w>> # x),
         \A t \in Spawners : Coming(t)' =>
            <<"thread", t>> = y \/ (Coming(t) /\ <<"thread", t>> # x)
  PROVE  Lines' \subseteq (Lines \ {x}) \cup {y}
  BY DEF Lines, Spawners

(* No line begins.                                                          *)
LEMMA LinesShrunk ==
  ASSUME \A w \in Workers : Standing(w)' => Standing(w),
         \A w \in Workers : Tailing(w)' => Tailing(w),
         \A t \in Spawners : Coming(t)' => Coming(t)
  PROVE  Lines' \subseteq Lines
  BY DEF Lines, Spawners

\* What a step does to the lines.
Fewer   == crossed' = crossed /\ Lines' \subseteq Lines
Handed  == crossed' = crossed /\ \E x \in Lines : \E y : Lines' \subseteq (Lines \ {x}) \cup {y}
Crossed == \E t \in Restarts :
              /\ tpc[t] = "take" /\ tpc'[t] = "untie"
              /\ crossed' = IF Lines # {} THEN crossed \cup {t} ELSE crossed
              /\ Lines' \subseteq Lines \cup {<<"thread", t>>}

LEMMA LinesStep ==
  TypeOK /\ OwnChild /\ Handles /\ [Next]_vars => Fewer \/ Handed \/ Crossed
  <1> SUFFICES ASSUME TypeOK, OwnChild, Handles, [Next]_vars
               PROVE  Fewer \/ Handed \/ Crossed
    OBVIOUS
  <1> USE HostAssumption DEF TypeOK, OwnChild, Spawning, Spawners, Threads, Handles,
          Holding,
        Standing, InHand, Tailing, Coming, Alive
  <1>1. ASSUME NEW t \in Spawners, NEW w \in Workers, SpawnChild(t, w) PROVE Handed
    <2> DEFINE x == <<"thread", t>>
               y == <<"worker", w>>
    <2>1. x \in Lines
      BY <1>1 DEF SpawnChild, At, Goto, past, Lines
    <2>2. \A v \in Workers :
             Standing(v)' => <<"worker", v>> = y \/ (Standing(v) /\ <<"worker", v>> # x)
      BY <1>1 DEF SpawnChild, At, Goto, past
    <2>3. \A v \in Workers :
             Tailing(v)' => <<"exit", v>> = y \/ (Tailing(v) /\ <<"exit", v>> # x)
      BY <1>1 DEF SpawnChild, At, Goto, past
    <2>4. \A u \in Spawners :
             Coming(u)' => <<"thread", u>> = y \/ (Coming(u) /\ <<"thread", u>> # x)
      BY <1>1 DEF SpawnChild, At, Goto, past
    <2>5. crossed' = crossed
      BY <1>1 DEF SpawnChild, At, Goto, past
    <2> HIDE DEF Standing, Tailing, Coming, Spawners, x, y
    <2>6. Lines' \subseteq (Lines \ {x}) \cup {y}
      BY <2>1, <2>2, <2>3, <2>4, LineSwapped
    <2>7. QED
      BY <2>1, <2>5, <2>6 DEF Handed
  <1>2. ASSUME NEW t \in Spawners, SpawnFails(t) PROVE Fewer
    <2>1. \A v \in Workers : Standing(v)' => Standing(v)
      BY <1>2 DEF SpawnFails, At, Goto, past
    <2>2. \A v \in Workers : Tailing(v)' => Tailing(v)
      BY <1>2 DEF SpawnFails, At, Goto, past
    <2>3. \A u \in Spawners : Coming(u)' => Coming(u)
      BY <1>2 DEF SpawnFails, At, Goto, past
    <2>4. crossed' = crossed
      BY <1>2 DEF SpawnFails, At, Goto, past
    <2> HIDE DEF Standing, Tailing, Coming, Spawners
    <2>5. QED
      BY <2>1, <2>2, <2>3, <2>4, LinesShrunk DEF Fewer
  <1>3. ASSUME NEW t \in Spawners, KeepChild(t) PROVE Fewer
    <2>1. \A v \in Workers : Standing(v)' => Standing(v)
      BY <1>3 DEF KeepChild, Displace, At, Goto
    <2>2. \A v \in Workers : Tailing(v)' => Tailing(v)
      BY <1>3 DEF KeepChild, Displace, At, Goto
    <2>3. \A u \in Spawners : Coming(u)' => Coming(u)
      BY <1>3 DEF KeepChild, Displace, At, Goto
    <2>4. crossed' = crossed
      BY <1>3 DEF KeepChild, Displace, At, Goto
    <2> HIDE DEF Standing, Tailing, Coming, Spawners
    <2>5. QED
      BY <2>1, <2>2, <2>3, <2>4, LinesShrunk DEF Fewer
  <1>4. ASSUME NEW t \in Spawners, KeepStdin(t) PROVE Fewer
    <2>1. \A v \in Workers : Standing(v)' => Standing(v)
      BY <1>4 DEF KeepStdin, At, Goto, past
    <2>2. \A v \in Workers : Tailing(v)' => Tailing(v)
      BY <1>4 DEF KeepStdin, At, Goto, past
    <2>3. \A u \in Spawners : Coming(u)' => Coming(u)
      BY <1>4 DEF KeepStdin, At, Goto, past
    <2>4. crossed' = crossed
      BY <1>4 DEF KeepStdin, At, Goto, past
    <2> HIDE DEF Standing, Tailing, Coming, Spawners
    <2>5. QED
      BY <2>1, <2>2, <2>3, <2>4, LinesShrunk DEF Fewer
  <1>5. ASSUME NEW t \in Spawners, Schedule(t) PROVE Fewer
    <2>1. \A v \in Workers : Standing(v)' => Standing(v)
      BY <1>5 DEF Schedule, At, Goto, past
    <2>2. \A v \in Workers : Tailing(v)' => Tailing(v)
      BY <1>5 DEF Schedule, At, Goto, past
    <2>3. \A u \in Spawners : Coming(u)' => Coming(u)
      BY <1>5 DEF Schedule, At, Goto, past
    <2>4. crossed' = crossed
      BY <1>5 DEF Schedule, At, Goto, past
    <2> HIDE DEF Standing, Tailing, Coming, Spawners
    <2>5. QED
      BY <2>1, <2>2, <2>3, <2>4, LinesShrunk DEF Fewer
  <1>6. ASSUME NEW t \in Spawners, CheckGeneration(t) PROVE Fewer
    <2>1. \A v \in Workers : Standing(v)' => Standing(v)
      BY <1>6 DEF CheckGeneration, At, Goto, past
    <2>2. \A v \in Workers : Tailing(v)' => Tailing(v)
      BY <1>6 DEF CheckGeneration, At, Goto, past
    <2>3. \A u \in Spawners : Coming(u)' => Coming(u)
      BY <1>6 DEF CheckGeneration, At, Goto, past
    <2>4. crossed' = crossed
      BY <1>6 DEF CheckGeneration, At, Goto, past
    <2> HIDE DEF Standing, Tailing, Coming, Spawners
    <2>5. QED
      BY <2>1, <2>2, <2>3, <2>4, LinesShrunk DEF Fewer
  <1>7. ASSUME NEW t \in Spawners, CheckSlot(t) PROVE Fewer
    <2>1. \A v \in Workers : Standing(v)' => Standing(v)
      BY <1>7 DEF CheckSlot, At, Goto, past
    <2>2. \A v \in Workers : Tailing(v)' => Tailing(v)
      BY <1>7 DEF CheckSlot, At, Goto, past
    <2>3. \A u \in Spawners : Coming(u)' => Coming(u)
      BY <1>7 DEF CheckSlot, At, Goto, past
    <2>4. crossed' = crossed
      BY <1>7 DEF CheckSlot, At, Goto, past
    <2> HIDE DEF Standing, Tailing, Coming, Spawners
    <2>5. QED
      BY <2>1, <2>2, <2>3, <2>4, LinesShrunk DEF Fewer
  <1>8. ASSUME NEW t \in Restarts \cup {Quit}, Bump(t) PROVE Fewer
    <2>1. \A v \in Workers : Standing(v)' => Standing(v)
      BY <1>8 DEF Bump, At, Goto, past
    <2>2. \A v \in Workers : Tailing(v)' => Tailing(v)
      BY <1>8 DEF Bump, At, Goto, past
    <2>3. \A u \in Spawners : Coming(u)' => Coming(u)
      BY <1>8 DEF Bump, At, Goto, past
    <2>4. crossed' = crossed
      BY <1>8 DEF Bump, At, Goto, past
    <2> HIDE DEF Standing, Tailing, Coming, Spawners
    <2>5. QED
      BY <2>1, <2>2, <2>3, <2>4, LinesShrunk DEF Fewer
  <1>9. ASSUME NEW t \in Restarts \cup {Quit}, TakeWorker(t) PROVE Fewer \/ Crossed
    <2>1. CASE t = Quit \/ slot # NoWorker
      <3>1. \A v \in Workers : Standing(v)' => Standing(v)
        BY <1>9, <2>1 DEF TakeWorker, Displace, At, Goto
      <3>2. \A v \in Workers : Tailing(v)' => Tailing(v)
        BY <1>9 DEF TakeWorker, Displace, At, Goto
      <3>3. \A u \in Spawners : Coming(u)' => Coming(u)
        BY <1>9, <2>1 DEF TakeWorker, Displace, At, Goto
      <3>4. crossed' = crossed
        BY <1>9, <2>1 DEF TakeWorker
      <3> HIDE DEF Standing, Tailing, Coming, Spawners
      <3>5. QED
        BY <3>1, <3>2, <3>3, <3>4, LinesShrunk DEF Fewer
    <2>2. CASE t # Quit /\ slot = NoWorker
      <3>1. \A v \in Workers : Standing(v)' => Standing(v)
        BY <1>9, <2>2 DEF TakeWorker, Displace, At, Goto
      <3>2. \A v \in Workers : Tailing(v)' => Tailing(v)
        BY <1>9 DEF TakeWorker, Displace, At, Goto
      <3>3. \A u \in Spawners : Coming(u)' => Coming(u) \/ u = t
        BY <1>9, <2>2 DEF TakeWorker, Displace, At, Goto
      <3>4. /\ tpc[t] = "take" /\ tpc'[t] = "untie"
            /\ crossed' = IF Lines # {} THEN crossed \cup {t} ELSE crossed
        BY <1>9, <2>2 DEF TakeWorker, At, Goto
      <3> HIDE DEF Standing, Tailing, Coming, Spawners
      <3>5. Lines' \subseteq Lines \cup {<<"thread", t>>}
        BY <3>1, <3>2, <3>3 DEF Lines
      <3>6. QED
        BY <2>2, <3>4, <3>5 DEF Crossed
    <2>3. QED
      BY <2>1, <2>2
  <1>10. ASSUME NEW t \in Restarts \cup {Quit}, TakeStdin(t) PROVE Fewer
    <2>1. \A v \in Workers : Standing(v)' => Standing(v)
      BY <1>10 DEF TakeStdin, At, Goto, past
    <2>2. \A v \in Workers : Tailing(v)' => Tailing(v)
      BY <1>10 DEF TakeStdin, At, Goto, past
    <2>3. \A u \in Spawners : Coming(u)' => Coming(u)
      BY <1>10 DEF TakeStdin, At, Goto, past
    <2>4. crossed' = crossed
      BY <1>10 DEF TakeStdin, At, Goto, past
    <2> HIDE DEF Standing, Tailing, Coming, Spawners
    <2>5. QED
      BY <2>1, <2>2, <2>3, <2>4, LinesShrunk DEF Fewer
  <1>11. ASSUME NEW t \in Restarts \cup {Quit}, KillWorker(t) PROVE Fewer \/ Handed
    <2>1. \A v \in Workers : Tailing(v)' => Tailing(v)
      BY <1>11 DEF KillWorker, At, Goto, past
    <2>2. crossed' = crossed
      BY <1>11 DEF KillWorker, At, Goto, past
    <2>3. CASE t = Quit \/ child[t] = NoWorker
      <3>1. \A v \in Workers : Standing(v)' => Standing(v)
        BY <1>11, <2>3 DEF KillWorker, At, Goto, past
      <3>2. \A u \in Spawners : Coming(u)' => Coming(u)
        BY <1>11, <2>3 DEF KillWorker, At, Goto, past
      <3> HIDE DEF Standing, Tailing, Coming, Spawners
      <3>3. QED
        BY <2>1, <2>2, <3>1, <3>2, LinesShrunk DEF Fewer
    <2>4. CASE t # Quit /\ child[t] # NoWorker
      <3> DEFINE x == <<"worker", child[t]>>
                 y == <<"thread", t>>
      <3>1. x \in Lines
        BY <1>11, <2>4 DEF KillWorker, At, Goto, past, Lines
      <3>2. \A v \in Workers :
               Standing(v)' => <<"worker", v>> = y \/ (Standing(v) /\ <<"worker", v>> # x)
        BY <1>11, <2>4 DEF KillWorker, At, Goto, past
      <3>3. \A u \in Spawners :
               Coming(u)' => <<"thread", u>> = y \/ (Coming(u) /\ <<"thread", u>> # x)
        BY <1>11, <2>4 DEF KillWorker, At, Goto, past
      <3>4. \A v \in Workers :
               Tailing(v)' => <<"exit", v>> = y \/ (Tailing(v) /\ <<"exit", v>> # x)
        BY <2>1
      <3> HIDE DEF Standing, Tailing, Coming, Spawners, x, y
      <3>5. Lines' \subseteq (Lines \ {x}) \cup {y}
        BY <3>1, <3>2, <3>3, <3>4, LineSwapped
      <3>6. QED
        BY <2>2, <3>1, <3>5 DEF Handed
    <2>5. QED
      BY <2>3, <2>4
  <1>12. ASSUME NEW w \in Workers, Reap(w) PROVE Handed
    <2> DEFINE x == <<"worker", slot>>
               y == <<"exit", w>>
    <2>1. x \in Lines
      BY <1>12 DEF Reap, Watching, past, Lines
    <2>2. \A v \in Workers :
             Standing(v)' => <<"worker", v>> = y \/ (Standing(v) /\ <<"worker", v>> # x)
      BY <1>12 DEF Reap, Watching, past
    <2>3. \A v \in Workers :
             Tailing(v)' => <<"exit", v>> = y \/ (Tailing(v) /\ <<"exit", v>> # x)
      BY <1>12 DEF Reap, Watching, past
    <2>4. \A u \in Spawners :
             Coming(u)' => <<"thread", u>> = y \/ (Coming(u) /\ <<"thread", u>> # x)
      BY <1>12 DEF Reap, Watching, past
    <2>5. crossed' = crossed
      BY <1>12 DEF Reap, Watching, past
    <2> HIDE DEF Standing, Tailing, Coming, Spawners, x, y
    <2>6. Lines' \subseteq (Lines \ {x}) \cup {y}
      BY <2>1, <2>2, <2>3, <2>4, LineSwapped
    <2>7. QED
      BY <2>1, <2>5, <2>6 DEF Handed
  <1>13. ASSUME NEW w \in Workers, Unready(w) PROVE Fewer
    <2>1. \A v \in Workers : Standing(v)' => Standing(v)
      BY <1>13 DEF Unready, Watching, past
    <2>2. \A v \in Workers : Tailing(v)' => Tailing(v)
      BY <1>13 DEF Unready, Watching, past
    <2>3. \A u \in Spawners : Coming(u)' => Coming(u)
      BY <1>13 DEF Unready, Watching, past
    <2>4. crossed' = crossed
      BY <1>13 DEF Unready, Watching, past
    <2> HIDE DEF Standing, Tailing, Coming, Spawners
    <2>5. QED
      BY <2>1, <2>2, <2>3, <2>4, LinesShrunk DEF Fewer
  <1>14. ASSUME NEW w \in Workers, CloseStdin(w) PROVE Fewer
    <2>1. \A v \in Workers : Standing(v)' => Standing(v)
      BY <1>14 DEF CloseStdin, Watching, past
    <2>2. \A v \in Workers : Tailing(v)' => Tailing(v)
      BY <1>14 DEF CloseStdin, Watching, past
    <2>3. \A u \in Spawners : Coming(u)' => Coming(u)
      BY <1>14 DEF CloseStdin, Watching, past
    <2>4. crossed' = crossed
      BY <1>14 DEF CloseStdin, Watching, past
    <2> HIDE DEF Standing, Tailing, Coming, Spawners
    <2>5. QED
      BY <2>1, <2>2, <2>3, <2>4, LinesShrunk DEF Fewer
  <1>15. ASSUME NEW w \in Workers, Drain(w) PROVE Handed
    <2> DEFINE x == <<"exit", w>>
               y == <<"thread", w>>
    <2>1. x \in Lines
      BY <1>15 DEF Drain, Watching, FailPending, Goto, past, Lines
    <2>2. \A v \in Workers :
             Standing(v)' => <<"worker", v>> = y \/ (Standing(v) /\ <<"worker", v>> # x)
      BY <1>15 DEF Drain, Watching, FailPending, Goto, past
    <2>3. \A v \in Workers :
             Tailing(v)' => <<"exit", v>> = y \/ (Tailing(v) /\ <<"exit", v>> # x)
      BY <1>15 DEF Drain, Watching, FailPending, Goto, past
    <2>4. \A u \in Spawners :
             Coming(u)' => <<"thread", u>> = y \/ (Coming(u) /\ <<"thread", u>> # x)
      BY <1>15 DEF Drain, Watching, FailPending, Goto, past
    <2>5. crossed' = crossed
      BY <1>15 DEF Drain, Watching, FailPending, Goto, past
    <2> HIDE DEF Standing, Tailing, Coming, Spawners, x, y
    <2>6. Lines' \subseteq (Lines \ {x}) \cup {y}
      BY <2>1, <2>2, <2>3, <2>4, LineSwapped
    <2>7. QED
      BY <2>1, <2>5, <2>6 DEF Handed
  <1>16. ASSUME NEW w \in Workers, Initialised(w) PROVE Fewer
    <2>1. \A v \in Workers : Standing(v)' => Standing(v)
      BY <1>16 DEF Initialised, WorkerStep, past
    <2>2. \A v \in Workers : Tailing(v)' => Tailing(v)
      BY <1>16 DEF Initialised, WorkerStep, past
    <2>3. \A u \in Spawners : Coming(u)' => Coming(u)
      BY <1>16 DEF Initialised, WorkerStep, past
    <2>4. crossed' = crossed
      BY <1>16 DEF Initialised, WorkerStep, past
    <2> HIDE DEF Standing, Tailing, Coming, Spawners
    <2>5. QED
      BY <2>1, <2>2, <2>3, <2>4, LinesShrunk DEF Fewer
  <1>17. ASSUME NEW w \in Workers, Wedge(w) PROVE Fewer
    <2>1. \A v \in Workers : Standing(v)' => Standing(v)
      BY <1>17 DEF Wedge, WorkerStep, past
    <2>2. \A v \in Workers : Tailing(v)' => Tailing(v)
      BY <1>17 DEF Wedge, WorkerStep, past
    <2>3. \A u \in Spawners : Coming(u)' => Coming(u)
      BY <1>17 DEF Wedge, WorkerStep, past
    <2>4. crossed' = crossed
      BY <1>17 DEF Wedge, WorkerStep, past
    <2> HIDE DEF Standing, Tailing, Coming, Spawners
    <2>5. QED
      BY <2>1, <2>2, <2>3, <2>4, LinesShrunk DEF Fewer
  <1>18. ASSUME NEW w \in Workers, Die(w) PROVE Fewer
    <2>1. \A v \in Workers : Standing(v)' => Standing(v)
      BY <1>18 DEF Die, WorkerStep, past
    <2>2. \A v \in Workers : Tailing(v)' => Tailing(v)
      BY <1>18 DEF Die, WorkerStep, past
    <2>3. \A u \in Spawners : Coming(u)' => Coming(u)
      BY <1>18 DEF Die, WorkerStep, past
    <2>4. crossed' = crossed
      BY <1>18 DEF Die, WorkerStep, past
    <2> HIDE DEF Standing, Tailing, Coming, Spawners
    <2>5. QED
      BY <2>1, <2>2, <2>3, <2>4, LinesShrunk DEF Fewer
  <1>19. CASE UNCHANGED handleVars
    BY <1>19 DEF handleVars, Fewer, Lines
  <1>20. CASE UNCHANGED vars
    BY <1>20 DEF vars, hostVars, past, Fewer, Lines
  <1> HIDE HostAssumption DEF TypeOK, OwnChild, Spawning, Spawners, Threads, Handles,
          Holding,
        Standing, InHand, Tailing, Coming, Alive
  <1>21. QED
    BY <1>1, <1>2, <1>3, <1>4, <1>5, <1>6, <1>7, <1>8, <1>9, <1>10, <1>11, <1>12,
       <1>13, <1>14, <1>15, <1>16, <1>17, <1>18, <1>19, <1>20, HandleCases

\* A restart is counted once, when it is past its look at the slot.
Counted ==
    /\ IsFiniteSet(Lines) /\ IsFiniteSet(crossed)
    /\ \A t \in crossed : tpc[t] \notin {"idle", "take"}
    /\ OneLine

(* A thread that has taken the worker does not do so again.                 *)
LEMMA CrossedOnce ==
  TypeOK /\ [Next]_vars =>
     \A t \in Restarts : tpc[t] \notin {"idle", "take"} => tpc'[t] \notin {"idle", "take"}
  <1> SUFFICES ASSUME TypeOK, [Next]_vars,
                      NEW t \in Restarts, tpc[t] \notin {"idle", "take"}
               PROVE  tpc'[t] \notin {"idle", "take"}
    OBVIOUS
  <1> USE HostAssumption DEF TypeOK, Spawners, Threads, At, Goto
  <1>1. ASSUME NEW u \in Spawners, NEW w \in Workers, SpawnChild(u, w)
        PROVE  tpc'[t] \notin {"idle", "take"}
    BY <1>1 DEF SpawnChild
  <1>2. ASSUME NEW u \in Spawners, SpawnFails(u) \/ KeepChild(u) \/ KeepStdin(u)
        PROVE  tpc'[t] \notin {"idle", "take"}
    BY <1>2 DEF SpawnFails, KeepChild, KeepStdin
  <1>3. ASSUME NEW u \in Spawners, Schedule(u) \/ CheckGeneration(u) \/ CheckSlot(u)
        PROVE  tpc'[t] \notin {"idle", "take"}
    BY <1>3 DEF Schedule, CheckGeneration, CheckSlot
  <1>4. ASSUME NEW u \in Restarts \cup {Quit}, Bump(u)
        PROVE  tpc'[t] \notin {"idle", "take"}
    BY <1>4 DEF Bump
  <1>5. ASSUME NEW u \in Restarts \cup {Quit}, TakeWorker(u) \/ TakeStdin(u) \/ KillWorker(u)
        PROVE  tpc'[t] \notin {"idle", "take"}
    BY <1>5 DEF TakeWorker, TakeStdin, KillWorker
  <1>6. ASSUME NEW w \in Workers, Reap(w) \/ Unready(w) \/ CloseStdin(w) \/ Drain(w)
        PROVE  tpc'[t] \notin {"idle", "take"}
    BY <1>6 DEF Reap, Unready, CloseStdin, Drain
  <1>7. ASSUME NEW w \in Workers, Initialised(w) \/ Wedge(w) \/ Die(w)
        PROVE  tpc'[t] \notin {"idle", "take"}
    BY <1>7 DEF Initialised, Wedge, Die, WorkerStep
  <1>8. CASE UNCHANGED handleVars
    BY <1>8 DEF handleVars
  <1>9. CASE UNCHANGED vars
    BY <1>9 DEF vars, hostVars
  <1>10. QED
    BY <1>1, <1>2, <1>3, <1>4, <1>5, <1>6, <1>7, <1>8, <1>9, HandleCases

(* No step makes more lines than there are crossed restarts to blame.       *)
LEMMA CountStep ==
  TypeOK /\ OwnChild /\ Handles /\ Counted /\ [Next]_vars => Counted'
  <1> SUFFICES ASSUME TypeOK, OwnChild, Handles, Counted, [Next]_vars PROVE Counted'
    OBVIOUS
  <1>1. Cardinality(Lines) \in Nat /\ Cardinality(crossed) \in Nat
    BY FS_CardinalityType DEF Counted
  <1>2. \A t \in Restarts : tpc[t] \notin {"idle", "take"} => tpc'[t] \notin {"idle", "take"}
    BY CrossedOnce
  <1>3. CASE Fewer
    <2>1. IsFiniteSet(Lines') /\ Cardinality(Lines') <= Cardinality(Lines)
      BY <1>3, FS_Subset DEF Fewer, Counted
    <2>2. Cardinality(Lines') \in Nat
      BY <2>1, FS_CardinalityType
    <2>3. QED
      BY <1>1, <1>2, <1>3, <2>1, <2>2 DEF Fewer, Counted, OneLine, TypeOK
  <1>4. CASE Handed
    <2> PICK x \in Lines : \E y : Lines' \subseteq (Lines \ {x}) \cup {y}
      BY <1>4 DEF Handed
    <2>1. PICK y : Lines' \subseteq (Lines \ {x}) \cup {y}
      OBVIOUS
    <2>2. IsFiniteSet(Lines') /\ Cardinality(Lines') <= Cardinality(Lines)
      BY <2>1, Swapped DEF Counted
    <2>3. Cardinality(Lines') \in Nat
      BY <2>2, FS_CardinalityType
    <2>4. QED
      BY <1>1, <1>2, <1>4, <2>2, <2>3 DEF Handed, Counted, OneLine, TypeOK
  <1>5. CASE Crossed
    <2>1. PICK t \in Restarts :
             /\ tpc[t] = "take" /\ tpc'[t] = "untie"
             /\ crossed' = IF Lines # {} THEN crossed \cup {t} ELSE crossed
             /\ Lines' \subseteq Lines \cup {<<"thread", t>>}
      BY <1>5 DEF Crossed
    <2>2. t \notin crossed
      BY <2>1 DEF Counted
    <2> DEFINE more == Lines \cup {<<"thread", t>>}
    <2>3. /\ IsFiniteSet(more)
          /\ Cardinality(more) = IF <<"thread", t>> \in Lines THEN Cardinality(Lines)
                                 ELSE Cardinality(Lines) + 1
      BY FS_AddElement DEF Counted
    <2>4. IsFiniteSet(Lines') /\ Cardinality(Lines') <= Cardinality(more)
      BY <2>1, <2>3, FS_Subset
    <2>5. Cardinality(Lines') \in Nat /\ Cardinality(more) \in Nat
      BY <2>3, <2>4, FS_CardinalityType
    <2> HIDE DEF more
    <2>6. Cardinality(Lines') <= Cardinality(Lines) + 1
      BY <1>1, <2>3, <2>4, <2>5
    <2>7. tpc'[t] \notin {"idle", "take"}
      BY <2>1
    <2>8. CASE Lines = {}
      <3>1. Cardinality(Lines) = 0 /\ crossed' = crossed
        BY <2>1, <2>8, FS_EmptySet
      <3>2. QED
        BY <1>1, <1>2, <2>4, <2>5, <2>6, <3>1 DEF Counted, OneLine, TypeOK
    <2>9. CASE Lines # {}
      <3>1. crossed' = crossed \cup {t}
        BY <2>1, <2>9
      <3>2. IsFiniteSet(crossed') /\ Cardinality(crossed') = Cardinality(crossed) + 1
        BY <2>2, <3>1, FS_AddElement DEF Counted
      <3>3. QED
        BY <1>1, <1>2, <2>4, <2>5, <2>6, <2>7, <3>1, <3>2 DEF Counted, OneLine, TypeOK
    <2>10. QED
      BY <2>8, <2>9
  <1>6. QED
    BY <1>3, <1>4, <1>5, LinesStep

-----------------------------------------------------------------------------
(* All of it together is kept by every step.                                *)
LEMMA LinesInductive ==
  Spec => [](IInv /\ Handles /\ Placed /\ Piped /\ ExitFailsPending /\ Counted)
<1>1. Init => Handles /\ Placed /\ Piped /\ ExitFailsPending
  BY HostAssumption
     DEF Init, Handles, Holding, Placed, Kept, Alive, Piped, ExitFailsPending, Spawners, Threads
<1>2. Init => Counted
  <2> SUFFICES ASSUME Init PROVE Counted
    OBVIOUS
  <2>1. Lines = {<<"thread", Boot>>}
    BY HostAssumption DEF Init, Lines, Standing, InHand, Tailing, Coming, Alive,
       Spawners, Threads
  <2>2. IsFiniteSet(Lines) /\ Cardinality(Lines) = 1
    BY <2>1, FS_Singleton
  <2>3. crossed = {} /\ IsFiniteSet(crossed) /\ Cardinality(crossed) = 0
    BY FS_EmptySet DEF Init
  <2>4. QED
    BY <2>2, <2>3 DEF Counted, OneLine
<1>3. IInv /\ Handles /\ Placed /\ Piped /\ ExitFailsPending /\ Counted /\ [Next]_vars =>
        Handles' /\ Placed' /\ Piped' /\ ExitFailsPending' /\ Counted'
  BY HandleStep, PlaceStep, PipeStep, ToldStep, CountStep DEF IInv
<1>4. QED
  BY <1>1, <1>2, <1>3, Inductive, PTL DEF Spec

(* A worker has one successor at most and an exit is handled once, however  *)
(* watchers, respawn timers, failed spawns, manual restarts and the end of  *)
(* the application interleave, but for one more line per restart that found *)
(* the slot of worker.rs empty while another thread was on its way.         *)
THEOREM OneSuccessor == Spec => []OneLine
  BY LinesInductive, PTL DEF Counted

(* architecture.md's promise that a restart cannot double-spawn holds as    *)
(* long as no restart finds the slot empty with a spawn under way: until    *)
(* then at most one worker process lives.                                   *)
THEOREM NeverTwoProcesses == Spec => [](crossed = {} => OneProcess)
<1>1. Counted /\ TypeOK => (crossed = {} => OneProcess)
  <2> SUFFICES ASSUME Counted, TypeOK, crossed = {},
                      NEW v \in Workers, NEW w \in Workers, Alive(v), Alive(w)
               PROVE  v = w
    BY DEF OneProcess
  <2>1. Cardinality(Lines) <= 1
    BY FS_EmptySet, FS_CardinalityType DEF Counted, OneLine
  <2>2. <<"worker", v>> \in Lines /\ <<"worker", w>> \in Lines
    BY DEF Lines, Standing
  <2>3. <<"worker", v>> = <<"worker", w>>
    BY <2>1, <2>2, AtMostOne DEF Counted
  <2>4. QED
    BY <2>3
<1>2. QED
  BY <1>1, LinesInductive, PTL DEF IInv

(* A call that waits for a dead worker is told by the watcher that finds    *)
(* its exit (worker.rs), through any restarts, unless the worker was        *)
(* displaced from the slot.                                                 *)
THEOREM DeadCallsAreFailed == Spec => []ExitFailsPending
  BY LinesInductive, PTL

(* As long as no restart has crossed a spawn, a watcher that closes the     *)
(* stdin in StdinState (worker.rs) closes that of a dead worker, although   *)
(* the slot may have been refilled since its own worker died.               *)
THEOREM OnlyDeadClosed == Spec => ClosesOnlyDead
<1> DEFINE Closed == \A w \in Workers : watcher[w] = "close" /\ watcher'[w] = "drain" =>
                        stdin = NoWorker \/ ~Alive(stdin) \/ crossed # {}
<1>1. TypeOK /\ Counted => Closed
  <2> SUFFICES ASSUME TypeOK, Counted, NEW w \in Workers,
                      watcher[w] = "close", stdin # NoWorker, Alive(stdin), crossed = {}
               PROVE  FALSE
    OBVIOUS
  <2>1. Cardinality(Lines) <= 1
    BY FS_EmptySet, FS_CardinalityType DEF Counted, OneLine
  <2>2. <<"exit", w>> \in Lines /\ <<"worker", stdin>> \in Lines
    BY DEF Lines, Standing, Tailing, TypeOK
  <2>3. <<"exit", w>> = <<"worker", stdin>>
    BY <2>1, <2>2, AtMostOne DEF Counted
  <2>4. QED
    BY <2>3
<1>2. QED
  BY <1>1, LinesInductive, PTL DEF ClosesOnlyDead, IInv
=============================================================================
