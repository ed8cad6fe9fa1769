----------------------------- MODULE MCScheduling -----------------------------
(***************************************************************************)
(* Two agents that nothing connects: one with budgets of a tick, an hour and a    *)
(* life and no schedule, with which nobody chats, and one with a sleep cycle that   *)
(* wraps, a cooldown, a quota and a lifetime budget that chats spend too.  A        *)
(* behaviour is one of one of them; the other rests.                           *)
(***************************************************************************)
EXTENDS Scheduling

VARIABLES part, now, state, at, deeds, diary, purse, late

agent == <<now, state, at, deeds, diary, purse, late>>

Scheduled == INSTANCE Scheduling WITH
    ActiveFrom <- 3, ActiveTo <- 1, Period <- 4, Cooldown <- 2, Quota <- 2, Hour <- 12,
    PerTick <- NoLimit, PerHour <- NoLimit, Lifetime <- 4, Policy <- "degrade",
    Costs <- {0, 1}, ChatCosts <- {2}, ChatCap <- 4, Iterations <- 2, MaxTick <- 16,
    tick <- now, status <- state, pc <- at, done <- deeds, sched <- diary, usage <- purse,
    past <- late

MCInit == Init /\ Scheduled!Init /\ part \in {"budget", "schedule"}

MCNext ==
    /\ UNCHANGED part
    /\ \/ part = "budget" /\ Next /\ UNCHANGED agent
       \/ part = "schedule" /\ Scheduled!Next /\ UNCHANGED vars

MCSpec == MCInit /\ [][MCNext]_<<part, vars, agent>>

\* What the agent with a schedule records is as far apart as its cooldown says, within its
\* quota and outside its sleep; and although nobody asks the budget for a chat, at most one
\* iteration begins once chats have used the lifetime budget up.
RoutineIsKept == Scheduled!ScheduleIsKept /\ []Scheduled!OneIterationPastLife
=============================================================================
