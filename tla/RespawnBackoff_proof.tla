------------------------ MODULE RespawnBackoff_proof ------------------------
(***************************************************************************)
(* The ladder of RespawnBackoff, for every length of it and every uptime   *)
(* that counts as healthy.  The strengthening is that restart_attempt,     *)
(* which a healthy exit does not reset, never falls behind the crashes in  *)
(* a row.                                                                  *)
(***************************************************************************)
EXTENDS RespawnBackoff, TLAPS

IInv == TypeOK /\ streak <= attempt /\ CrashLoopSlowsDown

(* The first scheduled respawn and every later one keep the invariant.      *)
LEMMA LadderInductive == IInv /\ [Next]_vars => IInv'
  <1> SUFFICES ASSUME IInv, [Next]_vars PROVE IInv'
    OBVIOUS
  <1> USE BackoffAssumption DEF IInv, TypeOK, CrashLoopSlowsDown
  <1>1. CASE Tick
    BY <1>1 DEF Tick, Clamp
  <1>2. CASE Exits
    <2>1. CASE uptime = Healthy
      BY <1>2, <2>1 DEF Exits, Schedule, next_attempt, Clamp
    <2>2. CASE uptime # Healthy
      BY <1>2, <2>2 DEF Exits, Schedule, next_attempt, Clamp
    <2>3. QED
      BY <2>1, <2>2
  <1>3. CASE Respawned
    BY <1>3 DEF Respawned
  <1>4. CASE RespawnFails
    BY <1>4 DEF RespawnFails, Schedule, Clamp
  <1>5. ASSUME NEW s \in {"up", "off"}, Restarted(s) PROVE IInv'
    BY <1>5 DEF Restarted
  <1>6. CASE UNCHANGED vars
    BY <1>6 DEF vars
  <1>7. QED
    BY <1>1, <1>2, <1>3, <1>4, <1>5, <1>6 DEF Next

(* Every value stays in its range: the index into BACKOFF is never past its *)
(* end (backoff_delay).                                                     *)
THEOREM LadderTypes == Spec => []TypeOK
<1>1. Init => IInv
  BY BackoffAssumption DEF Init, IInv, TypeOK, CrashLoopSlowsDown
<1>2. QED
  BY <1>1, LadderInductive, PTL DEF Spec, IInv

(* A worker that keeps crashing is started later and later, whatever        *)
(* happens in between (the watcher's and schedule_respawn's bookkeeping of  *)
(* restart_attempt).                                                        *)
THEOREM LadderClimbs == Spec => []CrashLoopSlowsDown
<1>1. Init => IInv
  BY BackoffAssumption DEF Init, IInv, TypeOK, CrashLoopSlowsDown
<1>2. QED
  BY <1>1, LadderInductive, PTL DEF Spec, IInv
=============================================================================
