--------------------------- MODULE SimulationClock ---------------------------
(***************************************************************************)
(* What the engine of a world promises about time: the clock is single.      *)
(* Ticks are numbered 1, 2, ... up to MaxTicks, one follows another and never  *)
(* overlaps it, and apart from the first, which ends the bootstrap, a tick     *)
(* begins only in a running world.  A world that has made its last tick        *)
(* stops; the host may pause or stop it at any moment, which does not cut     *)
(* short the tick in progress.                                             *)
(***************************************************************************)
EXTENDS Integers

CONSTANT MaxTicks   \* a natural number

VARIABLES st,        \* what the host sees
          now,       \* ticks begun
          busy,      \* a tick is in progress
          launched   \* the bootstrap is over

clockVars == <<st, now, busy, launched>>

ClockInit ==
    /\ st = "idle"
    /\ now = 0
    /\ busy = FALSE
    /\ launched = FALSE

Bootstrap ==
    /\ st = "idle"
    /\ st' = "bootstrapping"
    /\ UNCHANGED <<now, busy, launched>>

\* The next tick begins, or there is none left.
Proceed ==
    /\ ~busy
    /\ \/ now < MaxTicks /\ now' = now + 1 /\ busy' = TRUE /\ st' = "running"
       \/ now = MaxTicks /\ st' = "stopped" /\ UNCHANGED <<now, busy>>

Launch ==
    /\ st # "idle"
    /\ ~launched
    /\ launched' = TRUE
    /\ Proceed

NextTick ==
    /\ launched
    /\ st = "running"
    /\ Proceed
    /\ UNCHANGED launched

EndTick ==
    /\ busy
    /\ busy' = FALSE
    /\ UNCHANGED <<st, now, launched>>

HostHalts ==
    /\ st # "idle"
    /\ st' \in {"paused", "stopped"}
    /\ UNCHANGED <<now, busy, launched>>

ClockNext == Bootstrap \/ Launch \/ NextTick \/ EndTick \/ HostHalts

ClockSpec == ClockInit /\ [][ClockNext]_clockVars
=============================================================================
