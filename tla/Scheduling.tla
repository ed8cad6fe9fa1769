----------------------------- MODULE Scheduling -----------------------------
(***************************************************************************)
(* When one PersonAgent acts: its activity schedule (ActivityScheduler), its  *)
(* token budget (TokenBudgetTracker) and the checks of BaseAgent and           *)
(* PersonAgent.tick that consult them.  Schedules and budgets are kept per     *)
(* agent and read by nobody else, so one agent is the whole system here; that *)
(* its tick is one among many is the business of WorldEngine.  Users who chat *)
(* with the agent (ChatPlugin) use its tracked model, and so its budget, too. *)
(***************************************************************************)
EXTENDS Integers

CONSTANTS
    ActiveFrom, ActiveTo, Period, \* the sleepCycle; Period = 0 for none
    Cooldown,   \* cooldownTicks
    Quota,      \* actionsPerHour, or NoLimit
    Hour,       \* hourPeriod of both trackers (default 60)
    PerTick, PerHour, Lifetime,   \* the tokenBudget, each a limit or NoLimit
    Policy,     \* its policy
    Costs,      \* tokens that the model calls of one iteration may use
    ChatCosts,  \* tokens that a chat may use, {} without the ChatPlugin
    ChatCap,    \* bound: once so many tokens are used the chats are over
    Iterations, \* iterationsPerTick
    MaxTick     \* bound: ticks of an execution

NoLimit == -1
Limit == Nat \cup {NoLimit}

ASSUME SchedulingAssumption ==
    /\ {ActiveFrom, ActiveTo, Period, Cooldown, ChatCap, MaxTick} \subseteq Nat
    /\ Hour \in Nat \ {0}
    /\ {Quota, PerTick, PerHour, Lifetime} \subseteq Limit
    /\ Policy \in {"pause", "stop", "degrade"}
    /\ Costs \subseteq Nat
    /\ ChatCosts \subseteq Nat
    /\ Iterations \in Nat \ {0}

VARIABLES
    tick,   \* the tick in progress
    status, \* the agent's lifecycle status
    pc,     \* where its tick() is
    done,   \* actions of this tick() so far
    sched,  \* the scheduler's state for the agent
    usage,  \* the tracker's state for the agent
    past    \* history: iterations begun with the lifetime budget used up

vars == <<tick, status, pc, done, sched, usage, past>>

\* `known` is FALSE before the first record of the agent.
ScheduleState == [known : BOOLEAN, last : Nat, count : Nat, hourStart : Nat]
Usage == [known : BOOLEAN, tick : Nat, hour : Nat, lifetime : Nat, hourReset : Nat]

TypeOK ==
    /\ tick \in Nat
    /\ status \in {"running", "paused", "stopped"}
    /\ pc \in {"between", "selected", "context", "llm"}
    /\ done \in 0..Iterations
    /\ sched \in ScheduleState
    /\ usage \in Usage
    /\ past \in Nat

Init ==
    /\ tick = 0
    /\ status = "running"
    /\ pc = "between"
    /\ done = 0
    /\ sched = [known |-> FALSE, last |-> 0, count |-> 0, hourStart |-> 0]
    /\ usage = [known |-> FALSE, tick |-> 0, hour |-> 0, lifetime |-> 0, hourReset |-> 0]
    /\ past = 0

-----------------------------------------------------------------------------
(***************************************************************************)
(* ActivityScheduler.  The activeTickRatio, a hash of agent and tick, is the  *)
(* free choice between Sleep and the other steps of a selected agent.        *)
(***************************************************************************)
Between(position, from, to) ==
    IF from <= to THEN position >= from /\ position < to
                  ELSE position >= from \/ position < to

\* Fault: the hour activeTo belongs to the active part of the cycle.
AwakeInclusive(t) ==
    IF Period = 0 THEN TRUE ELSE Between(t % Period, ActiveFrom, ActiveTo + 1)

Awake(t) == IF Period = 0 THEN TRUE ELSE Between(t % Period, ActiveFrom, ActiveTo)

\* Fault: the cooldown is over one tick early.
RestedEarly(t) == sched.known => t - sched.last >= Cooldown - 1

Rested(t) == sched.known => t - sched.last >= Cooldown

\* Fault: the action that fills the quota is not the last one.
WithinQuotaLate == sched.known /\ Quota # NoLimit => sched.count <= Quota

WithinQuota == sched.known /\ Quota # NoLimit => sched.count < Quota

ShouldActivate == Awake(tick) /\ Rested(tick) /\ WithinQuota

RecordAction ==
    LET fresh == ~sched.known \/ tick - sched.hourStart >= Hour
    IN  sched' = [known |-> TRUE, last |-> tick,
                  count |-> IF fresh THEN 1 ELSE sched.count + 1,
                  hourStart |-> IF fresh THEN tick ELSE sched.hourStart]

-----------------------------------------------------------------------------
(***************************************************************************)
(* TokenBudgetTracker.                                                     *)
(***************************************************************************)
Exceeded(limit, used) == limit # NoLimit /\ used >= limit

\* Fault: only the budget of the tick is looked at between iterations.
CanProceedThisTick == usage.known => ~Exceeded(PerTick, usage.tick)

LifeIsOver == usage.known /\ Exceeded(Lifetime, usage.lifetime)

CanProceed ==
    usage.known => /\ ~Exceeded(PerTick, usage.tick)
                   /\ ~Exceeded(PerHour, usage.hour)
                   /\ ~Exceeded(Lifetime, usage.lifetime)

Record(tokens) ==
    usage' = [known |-> TRUE, tick |-> usage.tick + tokens,
              hour |-> usage.hour + tokens, lifetime |-> usage.lifetime + tokens,
              hourReset |-> usage.hourReset]

\* Every tracked agent at the start of a tick.
ResetAllTicks(t) ==
    usage' = IF usage.known /\ t - usage.hourReset >= Hour
             THEN [usage EXCEPT !.tick = 0, !.hour = 0, !.hourReset = t]
             ELSE [usage EXCEPT !.tick = 0]

\* applyBudgetPolicy; degrade leaves the status alone.
AfterPolicy ==
    CASE Policy = "pause" -> "paused" [] Policy = "stop" -> "stopped"
      [] Policy = "degrade" -> status

-----------------------------------------------------------------------------
(***************************************************************************)
(* The tick.                                                               *)
(***************************************************************************)
\* An active agent is handed to the batch executor, or left out by the ratio
\* that the world has for agents without a schedule.
BeginTick ==
    /\ pc = "between"
    /\ tick < MaxTick
    /\ tick' = tick + 1
    /\ ResetAllTicks(tick + 1)
    /\ pc' \in IF status = "running" THEN {"selected", "between"} ELSE {"between"}
    /\ done' = 0
    /\ UNCHANGED <<status, sched, past>>

\* shouldSkipTick: paused or stopped meanwhile, or the schedule says no.
Sleep ==
    /\ pc = "selected"
    /\ pc' = "between"
    /\ UNCHANGED <<tick, status, done, sched, usage, past>>

\* shouldSkipTick: the budget is used up and the policy strikes.
SkipOverBudget ==
    /\ pc = "selected"
    /\ status = "running" /\ ShouldActivate
    /\ ~CanProceed
    /\ status' = AfterPolicy
    /\ pc' = "between"
    /\ UNCHANGED <<tick, done, sched, usage, past>>

\* Fault: the budget is only asked between iterations.
MayTickUnasked == status = "running" /\ ShouldActivate

MayTick == status = "running" /\ ShouldActivate /\ CanProceed

\* Nothing happened around the agent: it rests, which counts as an action.
Rest ==
    /\ pc = "selected"
    /\ MayTick
    /\ RecordAction
    /\ pc' = "between"
    /\ UNCHANGED <<tick, status, done, usage, past>>

\* resetTick, then the context is gathered.
BeginThinking ==
    /\ pc = "selected"
    /\ MayTick
    /\ usage' = [usage EXCEPT !.tick = 0]
    /\ pc' = "context"
    /\ UNCHANGED <<tick, status, done, sched, past>>

MayIterate == status = "running" /\ done < Iterations /\ (done > 0 => CanProceed)

NextIteration ==
    /\ pc = "context"
    /\ MayIterate
    /\ pc' = "llm"
    /\ past' = past + IF LifeIsOver THEN 1 ELSE 0
    /\ UNCHANGED <<tick, status, done, sched, usage>>

\* The calls of one iteration are tracked as they return.
Answer ==
    /\ pc = "llm"
    /\ \E tokens \in Costs : Record(tokens)
    /\ done' = done + 1
    /\ pc' = "context"
    /\ UNCHANGED <<tick, status, sched, past>>

\* A later call of the iteration, or what follows it, fails: the tokens are
\* spent, the action is not recorded.
Fail ==
    /\ pc = "llm"
    /\ \E tokens \in Costs : Record(tokens)
    /\ pc' = "between"
    /\ UNCHANGED <<tick, status, done, sched, past>>

\* No iteration is left, or one of the checks before it stops the loop.
EndThinking ==
    /\ pc = "context"
    /\ IF done > 0 THEN RecordAction ELSE UNCHANGED sched
    /\ pc' = "between"
    /\ UNCHANGED <<tick, status, done, usage, past>>

\* The host (or a control agent) pauses, resumes or stops the agent.
Command ==
    /\ \/ status = "running" /\ status' \in {"paused", "stopped"}
       \/ status = "paused" /\ status' \in {"running", "stopped"}
    /\ UNCHANGED <<tick, pc, done, sched, usage, past>>

\* A chat is answered.  Nobody asks the budget, and a chat that began while the
\* agent was running may end in any status.
Chat ==
    /\ usage.lifetime < ChatCap
    /\ \E tokens \in ChatCosts : Record(tokens)
    /\ UNCHANGED <<tick, status, pc, done, sched, past>>

TickStep ==
    \/ Sleep \/ SkipOverBudget \/ Rest \/ BeginThinking \/ NextIteration
    \/ Answer \/ Fail \/ EndThinking

Next == BeginTick \/ TickStep \/ Command \/ Chat

Spec == Init /\ [][Next]_vars

-----------------------------------------------------------------------------
(***************************************************************************)
(* Properties.                                                             *)
(***************************************************************************)
\* As long as nobody chats with the agent a budget is overrun by one iteration at
\* most, however the iterations of a tick, failed ones included, add up and whenever
\* the host resumes a paused agent: the checks before the first iteration and
\* between two of them leave no gap.
OverrunIsOneIteration ==
    \A b \in {<<PerTick, usage.tick>>, <<PerHour, usage.hour>>,
              <<Lifetime, usage.lifetime>>} :
        b[1] > 0 => \E tokens \in Costs \cup {0} : b[2] < b[1] + tokens

\* An agent begins at most one iteration with its lifetime budget used up, whatever
\* its policy, whoever chats with it and however often the host resumes it: the
\* check of shouldSkipTick may be out of date once, when a chat is answered
\* while the agent gathers its context.
OneIterationPastLife == past <= 1

\* Two recorded actions are at least cooldownTicks apart.
CooldownHolds ==
    [][(sched.known /\ sched' # sched) => (sched'.last - sched.last >= Cooldown)]_vars

\* Nobody acts in its sleep, not even when the cycle wraps.
NobodyActsAsleep ==
    [][(sched' # sched) => (Period = 0 \/ (tick - ActiveFrom) % Period
                                            < (ActiveTo - ActiveFrom) % Period)]_vars

\* Within one hour of the scheduler no more actions are recorded than the quota.
QuotaHolds ==
    (Quota \notin {0, NoLimit} /\ sched.known) =>
        sched.count <= Quota

\* What an agent records keeps its schedule: as many actions in an hour as the quota has,
\* as far apart as the cooldown says, and none in its sleep, although the schedule is asked
\* once, before the context is gathered, and the action recorded after the last iteration.
ScheduleIsKept == []QuotaHolds /\ CooldownHolds /\ NobodyActsAsleep

\* The quota is one per hour: an hour after its start it blocks nobody.
QuotaIsHourly ==
    (pc = "selected" /\ sched.known /\ tick - sched.hourStart >= Hour) => WithinQuota
=============================================================================
