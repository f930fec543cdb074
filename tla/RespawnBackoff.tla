--------------------------- MODULE RespawnBackoff ---------------------------
(***************************************************************************)
(* How long the host waits before it starts a worker again: the backoff    *)
(* ladder of src-tauri/src/worker.rs (BACKOFF, backoff_delay, next_attempt *)
(* and the restart_attempt of the diagnostics).  Which thread does it, and *)
(* when it must not, is the matter of WorkerHost; here one worker at a     *)
(* time runs, exits and is started again.                                  *)
(***************************************************************************)
EXTENDS Naturals

CONSTANTS
    TopRung,   \* the last index of BACKOFF
    Healthy    \* HEALTHY_UPTIME, in ticks

ASSUME BackoffAssumption == TopRung \in Nat /\ Healthy \in Nat \ {0}

VARIABLES
    state,    \* "up", "waiting" for a respawn, or "off" after a failed restart
    uptime,   \* d.spawned_at.elapsed(), up to Healthy
    attempt,  \* restart_attempt, up to the first value backoff_delay clamps
    rung,     \* the index of BACKOFF the last respawn was scheduled with
    streak    \* history: the exits and failed respawns in a row since a worker
              \* was healthy or the user restarted one, up to TopRung + 1 (the
              \* first spawn is no respawn)

vars == <<state, uptime, attempt, rung, streak>>

Clamp(n, top) == IF n > top THEN top ELSE n

\* The setup of lib.rs started a worker, or could not and scheduled a respawn
\* with the lowest rung, without advancing the counter.
Init ==
    /\ state \in {"up", "waiting"}
    /\ uptime = 0
    /\ attempt = 0
    /\ rung = 0
    /\ streak = 0

-----------------------------------------------------------------------------
Tick ==
    /\ state = "up"
    /\ uptime' = Clamp(uptime + 1, Healthy)
    /\ UNCHANGED <<state, attempt, rung, streak>>

next_attempt(a, healthy) == IF healthy THEN 0 ELSE a

\* schedule_respawn, with the rung backoff_delay takes.
Schedule(a) == state' = "waiting" /\ rung' = Clamp(a, TopRung)

\* Mutant of Exits: the counter is not advanced.
ExitsInPlace ==
    /\ state = "up"
    /\ Schedule(next_attempt(attempt, uptime = Healthy))
    /\ attempt' = attempt
    /\ streak' = IF uptime = Healthy THEN 1 ELSE Clamp(streak + 1, TopRung + 1)
    /\ uptime' = 0

\* The watcher's bookkeeping: the wait depends on the uptime, the counter
\* advances in any case.
Exits ==
    /\ state = "up"
    /\ Schedule(next_attempt(attempt, uptime = Healthy))
    /\ attempt' = Clamp(attempt + 1, TopRung + 1)
    /\ streak' = IF uptime = Healthy THEN 1 ELSE Clamp(streak + 1, TopRung + 1)
    /\ uptime' = 0

Respawned ==
    /\ state = "waiting"
    /\ state' = "up"
    /\ UNCHANGED <<uptime, attempt, rung, streak>>

\* The timer could not start the worker and schedules itself again.
RespawnFails ==
    /\ state = "waiting"
    /\ Schedule(attempt)
    /\ attempt' = Clamp(attempt + 1, TopRung + 1)
    /\ streak' = Clamp(streak + 1, TopRung + 1)
    /\ UNCHANGED uptime

\* worker_restart, whose spawn succeeds ("up") or fails ("off").
Restarted(s) ==
    /\ state' = s
    /\ attempt' = 0
    /\ streak' = 0
    /\ uptime' = 0
    /\ UNCHANGED rung

Next ==
    \/ Tick \/ Exits \/ Respawned \/ RespawnFails
    \/ \E s \in {"up", "off"} : Restarted(s)

Spec == Init /\ [][Next]_vars

-----------------------------------------------------------------------------
(* Properties                                                              *)

\* The type invariant; rung is an index of BACKOFF.
TypeOK ==
    /\ state \in {"up", "waiting", "off"}
    /\ uptime \in 0 .. Healthy
    /\ attempt \in 0 .. TopRung + 1
    /\ rung \in 0 .. TopRung
    /\ streak \in 0 .. TopRung + 1

\* The k-th crash or failed respawn in a row is followed by a wait of the k-th
\* rung of the ladder at least: a crash loop cannot spin.
CrashLoopSlowsDown ==
    state = "waiting" /\ streak > 0 => rung >= Clamp(streak - 1, TopRung)
=============================================================================
