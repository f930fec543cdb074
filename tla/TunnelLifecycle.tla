--------------------------- MODULE TunnelLifecycle ---------------------------
(***************************************************************************)
(* What the worker promises about each tunnel, whatever the interleaving   *)
(* of the calls: a tunnel goes one way, from the start request to running, *)
(* to a stop or an error, and to being gone; a failed start never runs;    *)
(* a tunnel that is gone never comes back; no step moves two tunnels; and  *)
(* a stop is confirmed only for a tunnel that is gone.                     *)
(***************************************************************************)
EXTENDS Naturals

CONSTANT Tunnels

VARIABLES
    phase,      \* where each tunnel is in its life
    confirmed   \* the tunnels whose stop was answered

vars == <<phase, confirmed>>

Phases == {"new", "starting", "failed", "running", "stopping", "gone"}

Init ==
    /\ phase = [t \in Tunnels |-> "new"]
    /\ confirmed = {}

Move(t, from, to) ==
    /\ phase[t] \in from
    /\ phase' = [phase EXCEPT ![t] = to]

Requested(t) == Move(t, {"new"}, "starting") /\ UNCHANGED confirmed
Failed(t)    == Move(t, {"new", "starting"}, "failed") /\ UNCHANGED confirmed
Started(t)   == Move(t, {"starting"}, "running") /\ UNCHANGED confirmed
StopAsked(t) == Move(t, {"running"}, "stopping") /\ UNCHANGED confirmed

\* The tunnel leaves the list: an error took it, or its stop completed and
\* was answered in the same step.
Gone(t) ==
    /\ Move(t, {"running", "stopping"}, "gone")
    /\ confirmed' \in {confirmed, confirmed \cup {t}}

\* A stop of a tunnel that an error or another stop removed first.
Confirmed(t) ==
    /\ phase[t] = "gone"
    /\ confirmed' = confirmed \cup {t}
    /\ UNCHANGED phase

Next == \E t \in Tunnels :
    Requested(t) \/ Failed(t) \/ Started(t) \/ StopAsked(t) \/ Gone(t) \/ Confirmed(t)

Spec == Init /\ [][Next]_vars
=============================================================================
