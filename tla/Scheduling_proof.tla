-------------------------- MODULE Scheduling_proof --------------------------
(***************************************************************************)
(* Theorems about Scheduling, for every schedule, budget and policy, every    *)
(* cost of an iteration and of a chat, and any number of ticks; and about     *)
(* the hooks of a tick, for any plugins, actions, rules and consents.        *)
(***************************************************************************)
EXTENDS Scheduling, Plugins, SequenceTheorems, WellFoundedInduction, TLAPS

(***************************************************************************)
(* With or without chats.  The range of `done` needs that a call is only under *)
(* way in an iteration that is left; that the budget is overstepped once needs *)
(* that until then no iteration began beyond it.                             *)
(***************************************************************************)
IterationLeft == pc = "llm" => done < Iterations

LastIteration ==
    /\ past <= 1
    /\ ~LifeIsOver => past = 0
    /\ pc = "context" /\ done = 0 => past = 0

Base == TypeOK /\ IterationLeft /\ LastIteration

(***************************************************************************)
(* Without chats.  A bound on what is used cannot be inductive by itself: it   *)
(* needs that the budget was looked at since the last record when a model call *)
(* is made.                                                                *)
(***************************************************************************)
NothingUsedYet ==
    ~usage.known => usage.tick = 0 /\ usage.hour = 0 /\ usage.lifetime = 0

Checked == (pc = "llm" \/ (pc = "context" /\ done = 0)) => CanProceed

IInv == Base /\ OverrunIsOneIteration /\ NothingUsedYet /\ Checked

-----------------------------------------------------------------------------
LEMMA RecordActionTyped ==
    ASSUME TypeOK, RecordAction PROVE sched' \in ScheduleState
<1>1. sched.count + 1 \in Nat /\ sched.hourStart \in Nat /\ tick \in Nat
    BY DEF TypeOK, ScheduleState
<1>. QED
    BY <1>1 DEF RecordAction, ScheduleState

LEMMA RecordTyped ==
    ASSUME TypeOK, NEW tokens \in Nat, Record(tokens)
    PROVE  usage' \in Usage /\ usage'.known /\ usage'.lifetime >= usage.lifetime
<1>1. /\ usage.tick \in Nat /\ usage.hour \in Nat /\ usage.lifetime \in Nat
      /\ usage.hourReset \in Nat
    BY DEF TypeOK, Usage
<1>2. /\ usage'.known
      /\ usage'.lifetime = usage.lifetime + tokens
    BY DEF Record
<1>3. usage' \in Usage
    BY <1>1 DEF Record, Usage
<1>. QED
    BY <1>1, <1>2, <1>3

\* What every step does to the tracker: nothing is ever forgotten of a lifetime.
LEMMA UsageStep ==
    ASSUME TypeOK, [Next]_vars
    PROVE  /\ usage' \in Usage
           /\ usage.known => usage'.known
           /\ usage'.lifetime >= usage.lifetime
<1>1. usage \in Usage /\ usage.lifetime \in Nat
    BY DEF TypeOK, Usage
<1>2. CASE UNCHANGED usage
    BY <1>1, <1>2
<1>3. CASE BeginTick
  <2>1. tick + 1 \in Nat
      BY DEF TypeOK
  <2>2. usage' \in Usage /\ usage'.known = usage.known /\ usage'.lifetime = usage.lifetime
      BY <1>1, <1>3, <2>1 DEF BeginTick, ResetAllTicks, Usage
  <2>. QED
      BY <1>1, <2>2
<1>4. CASE BeginThinking
  <2>1. usage' \in Usage /\ usage'.known = usage.known /\ usage'.lifetime = usage.lifetime
      BY <1>1, <1>4 DEF BeginThinking, Usage
  <2>. QED
      BY <1>1, <2>1
<1>5. CASE Answer \/ Fail \/ Chat
  <2>1. PICK tokens \in Nat : Record(tokens)
      BY <1>5, SchedulingAssumption DEF Answer, Fail, Chat
  <2>. QED
      BY <2>1, RecordTyped
<1>. QED
    BY <1>2, <1>3, <1>4, <1>5
    DEF Next, TickStep, Sleep, SkipOverBudget, Rest, NextIteration, EndThinking,
        Command, vars

LEMMA BaseInit == Init => Base
<1>. SUFFICES ASSUME Init PROVE Base
    OBVIOUS
<1>1. TypeOK
    BY SchedulingAssumption DEF Init, TypeOK, ScheduleState, Usage
<1>2. IterationLeft /\ LastIteration
    BY DEF Init, IterationLeft, LastIteration
<1>. QED
    BY <1>1, <1>2 DEF Base

\* Types and the room for an iteration.
LEMMA TypeNext == ASSUME Base, [Next]_vars PROVE TypeOK' /\ IterationLeft'
<1>. USE DEF Base
<1>1. usage' \in Usage
    BY UsageStep
<1>2. CASE BeginTick
    BY <1>1, <1>2, SchedulingAssumption DEF BeginTick, TypeOK, IterationLeft
<1>3. CASE Sleep \/ SkipOverBudget \/ Rest \/ EndThinking
  <2>1. done' = done /\ tick' = tick /\ pc' = "between" /\ past' = past
      BY <1>3 DEF Sleep, SkipOverBudget, Rest, EndThinking
  <2>2. sched' \in ScheduleState
      BY <1>3, RecordActionTyped DEF Sleep, SkipOverBudget, Rest, EndThinking, TypeOK
  <2>3. status' \in {"running", "paused", "stopped"}
      BY <1>3, SchedulingAssumption
      DEF Sleep, SkipOverBudget, Rest, EndThinking, AfterPolicy, TypeOK
  <2>. QED
      BY <1>1, <2>1, <2>2, <2>3 DEF TypeOK, IterationLeft
<1>4. CASE BeginThinking
    BY <1>1, <1>4 DEF BeginThinking, TypeOK, IterationLeft
<1>5. CASE NextIteration
    BY <1>1, <1>5 DEF NextIteration, MayIterate, TypeOK, IterationLeft
<1>6. CASE Answer
  <2>1. pc = "llm" /\ pc' = "context" /\ done' = done + 1
      BY <1>6 DEF Answer
  <2>2. done' \in 0..Iterations
      BY <2>1, SchedulingAssumption DEF TypeOK, IterationLeft
  <2>. QED
      BY <1>1, <1>6, <2>1, <2>2 DEF Answer, TypeOK, IterationLeft
<1>7. CASE Fail
    BY <1>1, <1>7 DEF Fail, TypeOK, IterationLeft
<1>8. CASE Command \/ Chat \/ UNCHANGED vars
    BY <1>1, <1>8 DEF Command, Chat, TypeOK, IterationLeft, vars
<1>. QED
    BY <1>2, <1>3, <1>4, <1>5, <1>6, <1>7, <1>8 DEF Next, TickStep

LEMMA LifeGoesOneWay == ASSUME TypeOK, [Next]_vars, LifeIsOver PROVE LifeIsOver'
<1>1. /\ usage.lifetime \in Nat /\ usage'.lifetime \in Nat
      /\ usage'.known /\ usage'.lifetime >= usage.lifetime
    BY UsageStep DEF LifeIsOver, TypeOK, Usage
<1>2. Lifetime \in Limit
    BY SchedulingAssumption
<1>. QED
    BY <1>1, <1>2 DEF LifeIsOver, Exceeded, Limit, NoLimit

LEMMA LastNext == ASSUME Base, [Next]_vars PROVE LastIteration'
<1>. USE DEF Base
<1>1. LifeIsOver => LifeIsOver'
    BY LifeGoesOneWay
<1>2. CASE NextIteration
  <2>1. /\ past' = past + IF LifeIsOver THEN 1 ELSE 0
        /\ pc = "context" /\ pc' = "llm" /\ done' = done
      BY <1>2 DEF NextIteration
  <2>2. CASE LifeIsOver
    <3>1. done = 0
        BY <1>2, <2>2, SchedulingAssumption
        DEF NextIteration, MayIterate, CanProceed, LifeIsOver, TypeOK
    <3>2. past = 0
        BY <2>1, <3>1 DEF LastIteration
    <3>. QED
        BY <1>1, <2>1, <2>2, <3>2 DEF LastIteration
  <2>3. CASE ~LifeIsOver
      BY <2>1, <2>3 DEF LastIteration
  <2>. QED
      BY <2>2, <2>3
<1>3. CASE BeginThinking
  <2>1. ~LifeIsOver
      BY <1>3 DEF BeginThinking, MayTick, CanProceed, LifeIsOver
  <2>. QED
      BY <1>3, <2>1 DEF BeginThinking, LastIteration
<1>4. CASE Answer
  <2>1. past' = past /\ done' # 0
      BY <1>4, SchedulingAssumption DEF Answer, TypeOK
  <2>. QED
      BY <1>1, <2>1 DEF LastIteration
<1>5. CASE BeginTick \/ Sleep \/ SkipOverBudget \/ Rest \/ EndThinking \/ Fail
  <2>1. past' = past /\ pc' # "context"
      BY <1>5 DEF BeginTick, Sleep, SkipOverBudget, Rest, EndThinking, Fail
  <2>. QED
      BY <1>1, <2>1 DEF LastIteration
<1>6. CASE Command \/ Chat \/ UNCHANGED vars
  <2>1. past' = past /\ pc' = pc /\ done' = done
      BY <1>6 DEF Command, Chat, vars
  <2>. QED
      BY <1>1, <2>1 DEF LastIteration
<1>. QED
    BY <1>2, <1>3, <1>4, <1>5, <1>6 DEF Next, TickStep

LEMMA BaseNext == Base /\ [Next]_vars => Base'
BY TypeNext, LastNext DEF Base

-----------------------------------------------------------------------------
\* One counter: it may be overrun by the tokens of one iteration.
Within(limit, used) ==
    limit > 0 => \E tokens \in Costs \cup {0} : used < limit + tokens

LEMMA OverrunParts ==
    OverrunIsOneIteration <=> /\ Within(PerTick, usage.tick)
                              /\ Within(PerHour, usage.hour)
                              /\ Within(Lifetime, usage.lifetime)
BY DEF OverrunIsOneIteration, Within

LEMMA WithinAtReset == ASSUME NEW limit \in Limit PROVE Within(limit, 0)
BY DEF Within, Limit, NoLimit

LEMMA WithinAtRecord ==
    ASSUME NEW limit \in Limit, NEW used \in Nat, NEW tokens \in Costs,
           ~Exceeded(limit, used)
    PROVE  Within(limit, used + tokens)
<1>. SUFFICES ASSUME limit > 0 PROVE used + tokens < limit + tokens
    BY DEF Within
<1>1. limit \in Nat /\ tokens \in Nat /\ used < limit
    BY SchedulingAssumption DEF Limit, NoLimit, Exceeded
<1>. QED
    BY <1>1

LEMMA Limits == PerTick \in Limit /\ PerHour \in Limit /\ Lifetime \in Limit
BY SchedulingAssumption

\* A record, made at a moment when the budget allowed the call.
LEMMA RecordKeeps ==
    ASSUME TypeOK, NothingUsedYet, CanProceed, NEW tokens \in Costs, Record(tokens)
    PROVE  usage' \in Usage /\ usage'.known /\ OverrunIsOneIteration'
<1>1. tokens \in Nat
    BY SchedulingAssumption
<1>2. /\ usage'.known
      /\ usage'.tick = usage.tick + tokens
      /\ usage'.hour = usage.hour + tokens
      /\ usage'.lifetime = usage.lifetime + tokens
    BY DEF Record
<1>3. /\ usage.tick \in Nat /\ usage.hour \in Nat /\ usage.lifetime \in Nat
      /\ usage.hourReset \in Nat
    BY DEF TypeOK, Usage
<1>4. usage' \in Usage
    BY <1>1, RecordTyped
<1>5. CASE usage.known
  <2>1. ~Exceeded(PerTick, usage.tick) /\ ~Exceeded(PerHour, usage.hour)
        /\ ~Exceeded(Lifetime, usage.lifetime)
      BY <1>5 DEF CanProceed
  <2>2. Within(PerTick, usage'.tick) /\ Within(PerHour, usage'.hour)
        /\ Within(Lifetime, usage'.lifetime)
      BY <1>2, <1>3, <2>1, Limits, WithinAtRecord
  <2>. QED
      BY <1>2, <1>4, <2>2 DEF OverrunIsOneIteration, Within
<1>6. CASE ~usage.known
  <2>1. usage'.tick = tokens /\ usage'.hour = tokens /\ usage'.lifetime = tokens
      BY <1>1, <1>2, <1>6 DEF NothingUsedYet
  <2>2. \A limit \in Limit : Within(limit, tokens)
      BY <1>1 DEF Within, Limit, NoLimit
  <2>. QED
      BY <1>2, <1>4, <2>1, <2>2, Limits DEF OverrunIsOneIteration, Within
<1>. QED
    BY <1>5, <1>6

\* A reset of the counter of the tick, with or without that of the hour.
LEMMA ResetKeeps ==
    ASSUME IInv, usage' \in Usage, usage'.known = usage.known, usage'.tick = 0,
           usage'.hour \in {usage.hour, 0}, usage'.lifetime = usage.lifetime
    PROVE  OverrunIsOneIteration' /\ NothingUsedYet'
<1>1. NothingUsedYet'
    BY DEF IInv, NothingUsedYet
<1>2. Within(PerHour, usage.hour) /\ Within(Lifetime, usage.lifetime)
    BY OverrunParts DEF IInv
<1>3. Within(PerTick, usage'.tick) /\ Within(PerHour, usage'.hour)
      /\ Within(Lifetime, usage'.lifetime)
    BY <1>2, Limits, WithinAtReset
<1>. QED
    BY <1>1, <1>3 DEF OverrunIsOneIteration, Within

LEMMA InitHolds == Init => IInv
<1>. SUFFICES ASSUME Init PROVE IInv
    OBVIOUS
<1>1. NothingUsedYet /\ Checked
    BY DEF Init, NothingUsedYet, Checked
<1>2. usage.tick = 0 /\ usage.hour = 0 /\ usage.lifetime = 0
    BY DEF Init
<1>3. OverrunIsOneIteration
    BY <1>2, Limits, WithinAtReset, OverrunParts
<1>. QED
    BY <1>1, <1>3, BaseInit DEF IInv

LEMMA NextHolds == ASSUME ChatCosts = {} PROVE IInv /\ [Next]_vars => IInv'
<1>. SUFFICES ASSUME IInv, [Next]_vars PROVE IInv'
    OBVIOUS
<1>. USE DEF IInv, Base
<1>1. Base' /\ usage' \in Usage
    BY BaseNext, UsageStep
<1>2. CASE BeginTick
  <2>1. tick + 1 \in Nat
      BY DEF TypeOK
  <2>2. /\ usage'.known = usage.known /\ usage'.tick = 0
        /\ usage'.hour \in {usage.hour, 0} /\ usage'.lifetime = usage.lifetime
      BY <1>2, <2>1 DEF BeginTick, ResetAllTicks, TypeOK, Usage
  <2>3. OverrunIsOneIteration' /\ NothingUsedYet'
      BY <1>1, <2>2, ResetKeeps
  <2>4. Checked'
      BY <1>2 DEF BeginTick, Checked
  <2>. QED
      BY <1>1, <2>3, <2>4
<1>3. CASE Sleep \/ SkipOverBudget \/ Rest \/ EndThinking
  <2>1. usage' = usage /\ pc' = "between"
      BY <1>3 DEF Sleep, SkipOverBudget, Rest, EndThinking
  <2>. QED
      BY <1>1, <2>1 DEF OverrunIsOneIteration, NothingUsedYet, Checked
<1>4. CASE BeginThinking
  <2>1. /\ usage'.known = usage.known /\ usage'.tick = 0
        /\ usage'.hour = usage.hour /\ usage'.lifetime = usage.lifetime
      BY <1>4 DEF BeginThinking, TypeOK, Usage
  <2>2. OverrunIsOneIteration' /\ NothingUsedYet'
      BY <1>1, <2>1, ResetKeeps
  <2>3. usage.tick \in Nat /\ PerTick \in Limit
      BY Limits DEF TypeOK, Usage
  <2>4. ~Exceeded(PerTick, usage.tick) => ~Exceeded(PerTick, 0)
      BY <2>3 DEF Exceeded, Limit, NoLimit
  <2>5. CanProceed'
      BY <1>4, <2>1, <2>4 DEF BeginThinking, MayTick, CanProceed
  <2>. QED
      BY <1>1, <2>2, <2>5 DEF Checked
<1>5. CASE NextIteration
  <2>1. usage' = usage /\ done' = done /\ pc' = "llm"
      BY <1>5 DEF NextIteration
  <2>2. CanProceed
    <3>1. done = 0 \/ done > 0
        BY SchedulingAssumption DEF TypeOK
    <3>. QED
        BY <1>5, <3>1 DEF NextIteration, MayIterate, Checked
  <2>. QED
      BY <1>1, <2>1, <2>2
      DEF OverrunIsOneIteration, NothingUsedYet, Checked, CanProceed
<1>6. CASE Answer
  <2>1. PICK tokens \in Costs : Record(tokens)
      BY <1>6 DEF Answer
  <2>2. pc = "llm" /\ pc' = "context" /\ done' = done + 1
      BY <1>6 DEF Answer
  <2>3. usage'.known /\ OverrunIsOneIteration'
      BY <2>1, <2>2, RecordKeeps DEF Checked
  <2>4. done' # 0
      BY <2>2, SchedulingAssumption DEF TypeOK
  <2>. QED
      BY <1>1, <2>2, <2>3, <2>4 DEF NothingUsedYet, Checked
<1>7. CASE Fail
  <2>1. PICK tokens \in Costs : Record(tokens)
      BY <1>7 DEF Fail
  <2>2. pc = "llm" /\ pc' = "between"
      BY <1>7 DEF Fail
  <2>3. usage'.known /\ OverrunIsOneIteration'
      BY <2>1, <2>2, RecordKeeps DEF Checked
  <2>. QED
      BY <1>1, <2>2, <2>3 DEF NothingUsedYet, Checked
<1>8. CASE Command \/ UNCHANGED vars
  <2>1. pc' = pc /\ done' = done /\ usage' = usage
      BY <1>8 DEF Command, vars
  <2>. QED
      BY <1>1, <2>1 DEF OverrunIsOneIteration, NothingUsedYet, Checked, CanProceed
<1>9. ~Chat
    BY DEF Chat
<1>. QED
    BY <1>2, <1>3, <1>4, <1>5, <1>6, <1>7, <1>8, <1>9 DEF Next, TickStep

LEMMA BaseInvariance == Spec => []Base
BY BaseInit, BaseNext, PTL DEF Spec

-----------------------------------------------------------------------------
\* Every variable keeps its type: the iterations of a tick stay within
\* iterationsPerTick, and no counter of the scheduler or the tracker leaves Nat.
THEOREM TypeCorrect == Spec => []TypeOK
BY BaseInvariance, PTL DEF Base

\* In its whole life an agent begins at most one iteration with its lifetime budget
\* used up, whatever its policy and whoever chats with it.
THEOREM LifetimeHolds == Spec => []OneIterationPastLife
<1>1. Base => OneIterationPastLife
    BY DEF Base, LastIteration, OneIterationPastLife
<1>. QED
    BY <1>1, BaseInvariance, PTL

\* Without chats the tokens of a tick, an hour and a life exceed their budgets by
\* less than one iteration of PersonAgent.tick uses, whatever the policy, the
\* failures, the resets of the hour and the commands in between.
THEOREM OverrunBound == ASSUME ChatCosts = {} PROVE Spec => []OverrunIsOneIteration
<1>1. IInv => OverrunIsOneIteration
    BY DEF IInv
<1>2. IInv /\ [Next]_vars => IInv'
    BY NextHolds
<1>. QED
    BY <1>1, <1>2, InitHolds, PTL DEF Spec

(***************************************************************************)
(* The schedule is asked once in a tick: the answer still holds when the action  *)
(* is recorded, because nothing else in the tick changes what it depends on.    *)
(***************************************************************************)
StillActive == pc \in {"context", "llm"} => ShouldActivate

ScheduleInv == Base /\ StillActive /\ QuotaHolds

LEMMA RecordWithinQuota ==
    ASSUME TypeOK, QuotaHolds, ShouldActivate, RecordAction PROVE QuotaHolds'
<1>1. sched.count \in Nat /\ Quota \in Limit
    BY SchedulingAssumption DEF TypeOK, ScheduleState
<1>. QED
    BY <1>1 DEF QuotaHolds, ShouldActivate, WithinQuota, RecordAction, Limit, NoLimit

\* Every step leaves the scheduler alone, or records an action that it allows.
LEMMA RecordsAreAllowed ==
    ASSUME ScheduleInv, [Next]_vars
    PROVE  UNCHANGED sched \/ (ShouldActivate /\ RecordAction)
<1>1. CASE Rest
    BY <1>1 DEF Rest, MayTick
<1>2. CASE EndThinking
    BY <1>2 DEF EndThinking, ScheduleInv, StillActive
<1>3. CASE BeginTick \/ Sleep \/ SkipOverBudget \/ BeginThinking \/ NextIteration
           \/ Answer \/ Fail \/ Command \/ Chat \/ UNCHANGED vars
    BY <1>3 DEF BeginTick, Sleep, SkipOverBudget, BeginThinking, NextIteration,
                Answer, Fail, Command, Chat, vars
<1>. QED
    BY <1>1, <1>2, <1>3 DEF Next, TickStep

LEMMA ScheduleStep == ScheduleInv /\ [Next]_vars => ScheduleInv'
<1>. SUFFICES ASSUME ScheduleInv, [Next]_vars PROVE ScheduleInv'
    OBVIOUS
<1>1. Base'
    BY BaseNext DEF ScheduleInv
<1>2. QuotaHolds'
  <2>1. CASE UNCHANGED sched
      BY <2>1 DEF ScheduleInv, QuotaHolds
  <2>2. CASE ShouldActivate /\ RecordAction
      BY <2>2, RecordWithinQuota DEF ScheduleInv, Base
  <2>. QED
      BY <2>1, <2>2, RecordsAreAllowed
<1>3. StillActive'
  <2>1. CASE BeginThinking
      BY <2>1 DEF BeginThinking, MayTick, StillActive, ShouldActivate, Rested, WithinQuota
  <2>2. CASE NextIteration \/ Answer \/ Command \/ Chat \/ UNCHANGED vars
    <3>1. tick' = tick /\ sched' = sched
        BY <2>2 DEF NextIteration, Answer, Command, Chat, vars
    <3>2. pc' \in {"context", "llm"} => pc \in {"context", "llm"}
        BY <2>2 DEF NextIteration, Answer, Command, Chat, vars
    <3>3. ShouldActivate' <=> ShouldActivate
        BY <3>1 DEF ShouldActivate, Rested, WithinQuota
    <3>. QED
        BY <3>2, <3>3 DEF ScheduleInv, StillActive
  <2>3. CASE BeginTick \/ Sleep \/ SkipOverBudget \/ Rest \/ Fail \/ EndThinking
      BY <2>3 DEF BeginTick, Sleep, SkipOverBudget, Rest, Fail, EndThinking, StillActive
  <2>. QED
      BY <2>1, <2>2, <2>3 DEF Next, TickStep
<1>. QED
    BY <1>1, <1>2, <1>3 DEF ScheduleInv

\* Whatever happens between the check of the schedule and the record of the action, the
\* actions of an agent are as far apart as its cooldown says, and within its quota.
THEOREM ScheduleHolds == Spec => []QuotaHolds /\ CooldownHolds
<1>1. Init => ScheduleInv
    BY BaseInit DEF Init, ScheduleInv, StillActive, QuotaHolds
<1>2. ScheduleInv => QuotaHolds
    BY DEF ScheduleInv
<1>3. ScheduleInv /\ [Next]_vars =>
          [(sched.known /\ sched' # sched) => (sched'.last - sched.last >= Cooldown)]_vars
  <2>. SUFFICES ASSUME ScheduleInv, [Next]_vars, sched.known, sched' # sched
                PROVE  sched'.last - sched.last >= Cooldown
      OBVIOUS
  <2>1. ShouldActivate /\ RecordAction
      BY RecordsAreAllowed
  <2>. QED
      BY <2>1 DEF ShouldActivate, Rested, RecordAction
<1>. QED
    BY <1>1, <1>2, <1>3, ScheduleStep, PTL DEF Spec, CooldownHolds

-----------------------------------------------------------------------------
(***************************************************************************)
(* The hooks of a tick.  What was offered to the plugins is told by where the   *)
(* tick has come to: of an action on its way the plugins up to the cursor have   *)
(* been called, once each (OnItsWay); of those that are notified the ones that   *)
(* no longer wait (ToldOnce), the parallel ones before the others.  The gate is   *)
(* one plugin, and the action keeps its type until it (OneGate), so its rule is    *)
(* that of the action the agent made.                                        *)
(***************************************************************************)
Shapes == Form \cup {Undefined}
OfferRecord == [hook : HookNames, plugin : PluginRecord, item : Nat, form : Shapes \cup {"raw"},
                failed : BOOLEAN]

HookTypes ==
    /\ net \in NetRecord /\ chain \in Seq(PluginRecord)
    /\ at \in [hook : HookNames, item : Nat, cursor : Nat]
    /\ promised \subseteq DOMAIN chain /\ queue \subseteq DOMAIN chain
    /\ current \in Shapes \cup {"raw"} /\ (at.hook = "onAgentAction" => current \in Shapes)
    /\ transformed \in Seq(Shapes) /\ offered \in Seq(OfferRecord)

\* The chain begins with the plugins of the start, and no two of it have one name, nor are gates.
ChainInv ==
    /\ \A k \in DOMAIN net.plugins : k \in DOMAIN chain /\ chain[k] = net.plugins[k]
    /\ \A k, l \in DOMAIN chain : chain[k].name = chain[l].name => k = l
    /\ \A p, q \in ToSet(chain) \cup net.late : p.does = "gate" /\ q.does = "gate" => p.name = q.name

\* The hooks follow each other, and so do the items of one.
PlaceInv ==
    /\ at.cursor <= Len(chain)
    /\ at.hook \in Transforming => promised = {} /\ queue = {} /\ at.item >= 1
    /\ at.hook \notin Transforming => at.item = 0
    /\ at.hook \in {"onStimulusEmit", "onWorldTick"} => transformed = <<>> /\ DOMAIN looked = {}
    /\ at.hook = "onAgentAction" =>
          at.item = Len(transformed) + 1 /\ \A item \in DOMAIN looked : item <= at.item
    /\ DOMAIN looked \subseteq DOMAIN net.actions
Made(o) ==
    /\ o.hook = "onWorldTick" => at.hook # "onStimulusEmit"
    /\ o.hook = "onAgentAction" =>
          /\ at.hook \in {"onAgentAction", "onAgentActionsBatch"}
          /\ at.hook = "onAgentAction" => o.item <= at.item
    /\ o.hook = "onAgentActionsBatch" => at.hook = "onAgentActionsBatch"
OffersInv == \A i \in DOMAIN offered : Made(offered[i])

\* An action that has been through the chain, and the plugins behind a gate.
AllOnce(hook, item) ==
    \A k \in DOMAIN net.plugins : Has(net.plugins[k], hook) => Once(net.plugins[k], Offers(hook, item))
Passed(item) ==
    LET calls == Offers("onAgentAction", item)
    IN  /\ AllOnce("onAgentAction", item) /\ HandedOn(calls, item)
        /\ Kept(calls) = {} => transformed[item] = Start(item)
        /\ Hidden(item) /\ transformed[item] # Undefined => transformed[item].payload \notin Clear
Gated(item) ==
    \A i \in Offers("onAgentAction", item) :
        Hidden(item) /\ Behind(i) /\ offered[i].form # Undefined => offered[i].form.payload \notin Clear
ItemsInv == (\A item \in DOMAIN transformed : Passed(item)) /\ \A item \in Nat : Gated(item)

\* The action that is on its way.
OnItsWay(item, cursor) ==
    LET calls == Offers("onAgentAction", item)
    IN  /\ \A i \in calls : \E k \in DOMAIN chain : k <= cursor /\ offered[i].plugin = chain[k]
        /\ \A k \in DOMAIN chain :
              k <= cursor /\ Has(chain[k], "onAgentAction") => Once(chain[k], calls)
        /\ HandedOn(calls, item)
        /\ Kept(calls) = {} => current = Start(item)
        /\ \A i \in calls : (\A j \in calls : j <= i) /\ offered[i].failed => offered[i].form = current
        /\ current # Undefined =>
              /\ item \in DOMAIN net.actions
              /\ (\A i \in calls : offered[i].plugin.does # "gate") =>
                    current.type = net.actions[item].type
              /\ Hidden(item) => current.payload \notin Clear
WayInv == at.hook = "onAgentAction" => OnItsWay(at.item, at.cursor)

\* The plugins that are notified, and those that still have to be.
ToldOnce(hook, left) ==
    /\ \A k \in left : Has(chain[k], hook) /\ \A i \in Offers(hook, 0) : offered[i].plugin # chain[k]
    /\ \A k \in DOMAIN net.plugins :
          Has(chain[k], hook) /\ k \notin left => Once(chain[k], Offers(hook, 0))
    /\ InOrder(Offers(hook, 0))
BeingTold(hook) ==
    /\ ToldOnce(hook, promised \cup queue)
    /\ (\A k \in promised : chain[k].parallel) /\ \A k \in queue : ~chain[k].parallel
    /\ \A i \in Offers(hook, 0) : ~offered[i].plugin.parallel =>
          /\ promised = {}
          /\ \A k \in queue : \E l \in DOMAIN chain : l < k /\ offered[i].plugin = chain[l]
NoticesInv ==
    /\ at.hook \notin Transforming => BeingTold(at.hook)
    /\ at.hook \in {"onAgentAction", "onAgentActionsBatch"} => ToldOnce("onWorldTick", {})

HooksInv == HookTypes /\ ChainInv /\ PlaceInv /\ OffersInv /\ ItemsInv /\ WayInv /\ NoticesInv

-----------------------------------------------------------------------------
\* What one more call of a plugin changes.
OneOffer(o) ==
    /\ DOMAIN offered = 1..Len(offered) /\ Len(offered) \in Nat
    /\ DOMAIN offered' = 1..(Len(offered) + 1)
    /\ \A i \in DOMAIN offered : offered'[i] = offered[i]
    /\ offered'[Len(offered) + 1] = o
LEMMA OfferOne ==
    ASSUME NEW o \in OfferRecord, offered \in Seq(OfferRecord), offered' = Append(offered, o)
    PROVE  OneOffer(o) /\ offered' \in Seq(OfferRecord)
BY AppendProperties, LenProperties DEF OneOffer

SameOffers(hook, item) ==
    Offers(hook, item)' = Offers(hook, item) /\ \A i \in Offers(hook, item) : offered'[i] = offered[i]
LEMMA OffersGrow ==
    ASSUME NEW o, OneOffer(o), NEW hook, NEW item
    PROVE  /\ o.hook # hook \/ o.item # item => SameOffers(hook, item)
           /\ o.hook = hook /\ o.item = item =>
                 Offers(hook, item)' = Offers(hook, item) \cup {Len(offered) + 1}
           /\ \A i \in Offers(hook, item) :
                 offered'[i] = offered[i] /\ i \in Nat /\ i < Len(offered) + 1
<1>1. \A i : i \in DOMAIN offered' <=> i \in DOMAIN offered \/ i = Len(offered) + 1
    BY DEF OneOffer
<1>. QED
    BY <1>1 DEF OneOffer, SameOffers, Offers

LEMMA OffersStay ==
    ASSUME UNCHANGED offered, NEW hook, NEW item
    PROVE  SameOffers(hook, item)
BY DEF SameOffers, Offers

\* What the net and the chain keep.
Steady ==
    /\ net'.plugins = net.plugins /\ net'.actions = net.actions /\ net'.rules = net.rules
    /\ \A k \in DOMAIN chain : k \in DOMAIN chain' /\ chain'[k] = chain[k]

LEMMA OnceStays ==
    ASSUME NEW hook, NEW item, SameOffers(hook, item), NEW p, Once(p, Offers(hook, item))
    PROVE  Once(p, Offers(hook, item))'
BY DEF SameOffers, Once

LEMMA OrderStays ==
    ASSUME Steady, NEW hook, NEW item, SameOffers(hook, item), InOrder(Offers(hook, item))
    PROVE  InOrder(Offers(hook, item))'
<1>1. \A p, q : Stands(p, q) => Stands(p, q)'
    BY DEF Steady, Stands
<1>. QED
    BY <1>1 DEF SameOffers, InOrder

LEMMA StartStays ==
    ASSUME Steady, NEW item
    PROVE  Start(item)' = Start(item)
BY DEF Steady, Start

LEMMA HandedStays ==
    ASSUME Steady, NEW item, SameOffers("onAgentAction", item),
           HandedOn(Offers("onAgentAction", item), item)
    PROVE  /\ HandedOn(Offers("onAgentAction", item), item)'
           /\ Kept(Offers("onAgentAction", item))' = Kept(Offers("onAgentAction", item))
<1>. DEFINE calls == Offers("onAgentAction", item)
<1>1. calls' = calls /\ \A i \in calls : offered'[i] = offered[i]
    BY DEF SameOffers
<1>2. Kept(calls)' = Kept(calls)
    BY <1>1 DEF Kept
<1>3. Start(item)' = Start(item)
    BY StartStays
<1>. HIDE DEF calls
<1>4. HandedOn(calls, item)
    BY DEF calls
<1>5. HandedOn(calls, item)'
    BY <1>1, <1>2, <1>3, <1>4 DEF HandedOn
<1>. QED
    BY <1>2, <1>5 DEF calls

\* What an item has been through stays what it was.
SeenAs(item) ==
    /\ item \in DOMAIN looked' <=> item \in DOMAIN looked
    /\ item \in DOMAIN looked => looked'[item] = looked[item]
LEMMA HiddenStays ==
    ASSUME Steady, NEW item, SeenAs(item)
    PROVE  Hidden(item)' <=> Hidden(item)
BY DEF Steady, SeenAs, Hidden, Rule, Reduces

LEMMA GatedStays ==
    ASSUME Steady, NEW item, SeenAs(item), SameOffers("onAgentAction", item), Gated(item)
    PROVE  Gated(item)'
<1>. DEFINE calls == Offers("onAgentAction", item)
<1>1. calls' = calls /\ \A i \in calls : offered'[i] = offered[i]
    BY DEF SameOffers
<1>2. \A i \in calls : offered[i].item = item
    BY DEF Offers
<1>3. Hidden(item)' <=> Hidden(item)
    BY HiddenStays
<1>. SUFFICES ASSUME NEW i \in calls, Hidden(item), Behind(i)', offered[i].form # Undefined
              PROVE  offered[i].form.payload \notin Clear
    BY <1>1, <1>3 DEF Gated
<1>4. Behind(i)
  <2>1. PICK j \in calls' : j < i /\ offered'[j].plugin.does = "gate"
      BY <1>1, <1>2 DEF Behind
  <2>. QED
      BY <1>1, <1>2, <2>1 DEF Behind
<1>. QED
    BY <1>4 DEF Gated

LEMMA PassedStays ==
    ASSUME Steady, NEW item, SeenAs(item), SameOffers("onAgentAction", item), Passed(item),
           transformed'[item] = transformed[item]
    PROVE  Passed(item)'
<1>1. AllOnce("onAgentAction", item)'
    BY OnceStays DEF Passed, AllOnce, Steady, Has
<1>2. Hidden(item)' <=> Hidden(item)
    BY HiddenStays
<1>3. /\ HandedOn(Offers("onAgentAction", item), item)'
      /\ Kept(Offers("onAgentAction", item))' = Kept(Offers("onAgentAction", item))
      /\ Start(item)' = Start(item)
    BY HandedStays, StartStays DEF Passed
<1>. QED
    BY <1>1, <1>2, <1>3 DEF Passed

LEMMA ToldStays ==
    ASSUME Steady, ChainInv, NEW hook, NEW left \in SUBSET DOMAIN chain, SameOffers(hook, 0),
           ToldOnce(hook, left)
    PROVE  ToldOnce(hook, left)'
<1>1. /\ \A k \in left : chain'[k] = chain[k]
      /\ \A k \in DOMAIN net.plugins : chain'[k] = chain[k]
      /\ net'.plugins = net.plugins
    BY DEF Steady, ChainInv
<1>2. InOrder(Offers(hook, 0))'
    BY OrderStays DEF ToldOnce
<1>3. \A k \in left : Has(chain'[k], hook) /\ \A i \in Offers(hook, 0)' : offered'[i].plugin # chain'[k]
    BY <1>1 DEF ToldOnce, SameOffers
<1>4. ASSUME NEW k \in DOMAIN net.plugins, Has(chain[k], hook), k \notin left
      PROVE  Once(chain[k], Offers(hook, 0))'
    <2>1. PICK p : p = chain[k]
        OBVIOUS
    <2>2. Once(p, Offers(hook, 0))
        BY <1>4, <2>1 DEF ToldOnce
    <2>3. Once(p, Offers(hook, 0))'
        BY <2>2, OnceStays
    <2>. QED
        BY <1>1, <2>1, <2>3
<1>. QED
    BY <1>1, <1>2, <1>3, <1>4 DEF ToldOnce, Has

LEMMA WayStays ==
    ASSUME Steady, chain \in Seq(PluginRecord), chain' \in Seq(PluginRecord), NEW item, NEW cursor \in Nat,
           cursor <= Len(chain), SeenAs(item), SameOffers("onAgentAction", item),
           UNCHANGED current, OnItsWay(item, cursor)
    PROVE  OnItsWay(item, cursor)'
<1>. DEFINE calls == Offers("onAgentAction", item)
<1>1. calls' = calls /\ \A i \in calls : offered'[i] = offered[i]
    BY DEF SameOffers
<1>2. Hidden(item)' <=> Hidden(item)
    BY HiddenStays
<1>3. /\ HandedOn(calls, item)'
      /\ Kept(calls)' = Kept(calls)
      /\ Start(item)' = Start(item)
    BY HandedStays, StartStays DEF OnItsWay
<1>4. \A k \in DOMAIN chain' : k <= cursor => k \in DOMAIN chain /\ chain'[k] = chain[k]
    BY LenProperties DEF Steady
<1>5. ASSUME NEW k \in DOMAIN chain', k <= cursor, Has(chain'[k], "onAgentAction")
      PROVE  Once(chain[k], calls)'
    <2>1. PICK p : p = chain[k]
        OBVIOUS
    <2>2. Once(p, calls)
        BY <1>4, <1>5, <2>1 DEF OnItsWay
    <2>3. Once(p, calls)'
        BY <2>2, OnceStays
    <2>. QED
        BY <1>4, <1>5, <2>1, <2>3
<1>6. \A i \in calls' : \E k \in DOMAIN chain' : k <= cursor /\ offered'[i].plugin = chain'[k]
    BY <1>1 DEF OnItsWay, Steady
<1>7. /\ \A i \in calls : (\A j \in calls : j <= i) /\ offered[i].failed => offered[i].form = current
      /\ Kept(calls) = {} => current = Start(item)
      /\ current # Undefined =>
              /\ item \in DOMAIN net.actions
              /\ (\A i \in calls : offered[i].plugin.does # "gate") =>
                    current.type = net.actions[item].type
              /\ Hidden(item) => current.payload \notin Clear
    BY DEF OnItsWay
<1>. HIDE DEF calls
<1>8. /\ \A i \in calls' : (\A j \in calls' : j <= i) /\ offered'[i].failed => offered'[i].form = current'
      /\ Kept(calls)' = {} => current' = Start(item)'
    BY <1>1, <1>3, <1>7
<1>9. current' # Undefined =>
              /\ item \in DOMAIN net'.actions
              /\ (\A i \in calls' : offered'[i].plugin.does # "gate") =>
                    current'.type = net'.actions[item].type
              /\ Hidden(item)' => current'.payload \notin Clear
    BY <1>1, <1>2, <1>7 DEF Steady
<1>. USE DEF calls
<1>. QED
    BY <1>3, <1>5, <1>6, <1>8, <1>9 DEF OnItsWay

LEMMA TellingStays ==
    ASSUME Steady, ChainInv, promised \subseteq DOMAIN chain, queue \subseteq DOMAIN chain, NEW hook,
           SameOffers(hook, 0), UNCHANGED <<promised, queue>>, BeingTold(hook)
    PROVE  BeingTold(hook)'
<1>1. ToldOnce(hook, promised \cup queue)'
    <2>1. PICK left \in SUBSET DOMAIN chain : left = promised \cup queue
        OBVIOUS
    <2>2. ToldOnce(hook, left)'
        BY <2>1, ToldStays DEF BeingTold
    <2>3. left = promised' \cup queue'
        BY <2>1
    <2>. QED
        BY <2>2, <2>3
<1>2. \A k \in promised \cup queue : chain'[k] = chain[k]
    BY DEF Steady
<1>3. \A i \in Offers(hook, 0)' : ~offered'[i].plugin.parallel =>
          /\ promised' = {}
          /\ \A k \in queue' : \E l \in DOMAIN chain' : l < k /\ offered'[i].plugin = chain'[l]
    BY DEF Steady, SameOffers, BeingTold
<1>. QED
    BY <1>1, <1>2, <1>3 DEF BeingTold

\* The steps that touch no hook: registering a plugin and changing a consent.
LEMMA Resting ==
    ASSUME HooksInv, Steady, net' \in NetRecord, chain' \in Seq(PluginRecord), ChainInv',
           UNCHANGED <<at, current, promised, queue, transformed, offered, looked>>
    PROVE  HooksInv'
<1>1. DOMAIN chain \subseteq DOMAIN chain' /\ Len(chain) <= Len(chain')
    BY LenProperties DEF Steady, HooksInv, HookTypes
<1>2. HookTypes'
    BY <1>1 DEF HooksInv, HookTypes
<1>3. PlaceInv'
    <2>1. at.cursor \in Nat /\ Len(chain) \in Nat /\ Len(chain') \in Nat
        BY LenProperties DEF HooksInv, HookTypes
    <2>. QED
        BY <1>1, <2>1 DEF HooksInv, PlaceInv, Steady
<1>4. OffersInv'
    BY DEF HooksInv, OffersInv, Made
<1>5. \A hook, item : SameOffers(hook, item)
    BY OffersStay
<1>6. \A item : SeenAs(item)
    BY DEF SeenAs
<1>7. ItemsInv'
    BY <1>5, <1>6, PassedStays, GatedStays DEF HooksInv, ItemsInv
<1>8. WayInv'
    <2>. SUFFICES ASSUME at.hook = "onAgentAction"
                  PROVE  OnItsWay(at.item, at.cursor)'
        BY DEF WayInv
    <2>1. PICK item, cursor \in Nat : item = at.item /\ cursor = at.cursor /\ cursor <= Len(chain)
        BY DEF HooksInv, HookTypes, PlaceInv
    <2>2. OnItsWay(item, cursor)
        BY <2>1 DEF HooksInv, WayInv
    <2>3. OnItsWay(item, cursor)'
        BY <1>5, <1>6, <2>1, <2>2, WayStays DEF HooksInv, HookTypes
    <2>. QED
        BY <2>1, <2>3
<1>9. NoticesInv'
    <2>1. at.hook \notin Transforming => BeingTold(at.hook)'
        <3>1. PICK hook : hook = at.hook
            OBVIOUS
        <3>2. hook \notin Transforming => BeingTold(hook)'
            BY <1>5, <3>1, TellingStays DEF HooksInv, HookTypes, NoticesInv
        <3>. QED
            BY <3>1, <3>2
    <2>2. at.hook \in {"onAgentAction", "onAgentActionsBatch"} => ToldOnce("onWorldTick", {})'
        <3>1. ToldOnce("onWorldTick", {}) => ToldOnce("onWorldTick", {})'
            BY <1>5, ToldStays DEF HooksInv
        <3>. QED
            BY <3>1 DEF HooksInv, NoticesInv
    <2>. QED
        BY <2>1, <2>2 DEF NoticesInv
<1>. QED
    BY <1>2, <1>3, <1>4, <1>7, <1>8, <1>9 DEF HooksInv

\* What the gate lets through.
LEMMA RuleTypes ==
    ASSUME net \in NetRecord, NEW type
    PROVE  /\ Rule(type).required \in BOOLEAN /\ Rule(type).level \in {"none", "partial", "strict"}
           /\ Rule(type).tools \in BOOLEAN
<1>1. CategoryForAction(type) \in {"tool_inputs", "social_graph", "telemetry", "memory"}
    BY DEF CategoryForAction
<1>. QED
    BY <1>1 DEF Rule, NetRecord

LEMMA GateHolds ==
    ASSUME net \in NetRecord, NEW action \in Form, NEW given
    PROVE  /\ Gate(action, given) \in Form
           /\ (\/ Rule(action.type).level # "none"
               \/ action.type = "tool_call" /\ Reduces(action.type, given))
              => Gate(action, given).payload \notin Clear
<1>1. /\ Rule(action.type).level \in {"none", "partial", "strict"}
      /\ action.type \in ActionTypes /\ action.payload \in Payloads
    BY RuleTypes DEF Form
<1>. DEFINE less == RedactPayload(action.payload, Rule(action.type).level)
<1>2. less \in Payloads /\ (Rule(action.type).level # "none" => less \notin Clear)
    BY <1>1 DEF RedactPayload, Payloads, Clear
<1>3. [action EXCEPT !.payload = less] = [type |-> action.type, payload |-> less]
    BY DEF Form
<1>. HIDE DEF less
<1>4. CASE Reduces(action.type, given) /\ (action.type = "tool_call" \/ ~Rule(action.type).tools)
    <2>1. Gate(action, given) = [type |-> "observe", payload |-> "notice"]
        BY <1>4 DEF Gate
    <2>. QED
        BY <2>1 DEF Form, ActionTypes, Payloads, Clear
<1>5. CASE ~(Reduces(action.type, given) /\ (action.type = "tool_call" \/ ~Rule(action.type).tools))
    <2>1. Gate(action, given) = [type |-> action.type, payload |-> less]
        BY <1>3, <1>5 DEF Gate, less
    <2>2. Gate(action, given) \in Form
        BY <1>1, <1>2, <2>1 DEF Form
    <2>. QED
        BY <1>2, <1>5, <2>1, <2>2
<1>. QED
    BY <1>4, <1>5

\* The least of a set of numbers, and so the plugin that comes next.
Below == OpToRel(<, Nat)
LEMMA LeastIs ==
    ASSUME NEW S \in SUBSET Nat, S # {}
    PROVE  Min(S) \in S /\ \A m \in S : Min(S) <= m
<1>1. IsWellFoundedOn(Below, Nat)
    BY NatLessThanWellFounded DEF Below
<1>2. PICK n \in S : \A m \in S : ~(<<m, n>> \in Below)
    BY <1>1, WFMin
<1>3. \A m \in S : ~(m < n)
    BY <1>2 DEF OpToRel, Below
<1>4. n \in Nat /\ \A m \in S : m \in Nat /\ n <= m
    BY <1>3
<1>. QED
    BY <1>4 DEF Min

Reaches(k, hook, cursor) ==
    /\ k \in DOMAIN chain /\ k \in Nat /\ k > cursor /\ Has(chain[k], hook)
    /\ \A l \in DOMAIN chain : l > cursor /\ l < k => ~Has(chain[l], hook)
LEMMA NextIs ==
    ASSUME HookTypes, NextPlugin # {}
    PROVE  Reaches(Min(NextPlugin), at.hook, at.cursor)
<1>1. NextPlugin \in SUBSET Nat
    BY LenProperties DEF NextPlugin, HookTypes
<1>2. PICK k : k = Min(NextPlugin)
    OBVIOUS
<1>3. k \in NextPlugin /\ \A m \in NextPlugin : k <= m
    BY <1>1, <1>2, LeastIs
<1>4. \A l \in DOMAIN chain : l \in Nat
    BY LenProperties DEF HookTypes
<1>5. at.cursor \in Nat
    BY DEF HookTypes
<1>. QED
    BY <1>2, <1>3, <1>4, <1>5 DEF NextPlugin, Reaches

\* What a plugin makes of the action it is offered.
Turned(item, o) ==
    /\ o.hook = "onAgentAction" /\ o.item = item /\ o.form = current
    /\ o.failed => current' = current
    /\ o.plugin.does # "gate" /\ current' # Undefined =>
          /\ current # Undefined /\ current'.type = current.type
          /\ current.payload \notin Clear => current'.payload \notin Clear
    /\ o.plugin.does # "gate" \/ o.failed => SeenAs(item)
    /\ o.plugin.does = "gate" /\ ~o.failed =>
          current # Undefined /\ (Hidden(item)' => current'.payload \notin Clear)

\* The plugins an action has seen stand before the cursor, so of two gates none is among them.
LEMMA OneGate ==
    ASSUME ChainInv, NEW item, NEW cursor \in Nat, OnItsWay(item, cursor),
           NEW k, Reaches(k, "onAgentAction", cursor)
    PROVE  /\ \A i \in Offers("onAgentAction", item) : offered[i].plugin # chain[k]
           /\ chain[k].does = "gate" =>
                \A i \in Offers("onAgentAction", item) : offered[i].plugin.does # "gate"
<1>1. \A i \in Offers("onAgentAction", item) : \E l \in DOMAIN chain : l <= cursor /\ offered[i].plugin = chain[l]
    BY DEF OnItsWay
<1>2. \A l \in DOMAIN chain : l <= cursor => l # k
    BY DEF Reaches
<1>3. \A l \in DOMAIN chain : l # k => chain[l] # chain[k] /\ (chain[k].does = "gate" => chain[l].does # "gate")
    <2>1. \A l \in DOMAIN chain : chain[l] \in ToSet(chain)
        BY DEF ToSet
    <2>. QED
        BY <2>1 DEF ChainInv, Reaches
<1>. QED
    BY <1>1, <1>2, <1>3

LEMMA WayGoesOn ==
    ASSUME chain \in Seq(PluginRecord), ChainInv, UNCHANGED <<net, chain>>,
           NEW item \in Nat, NEW cursor \in Nat, OnItsWay(item, cursor),
           NEW k, Reaches(k, "onAgentAction", cursor),
           NEW o, OneOffer(o), o.plugin = chain[k], Turned(item, o)
    PROVE  OnItsWay(item, k)'
<1>. DEFINE calls == Offers("onAgentAction", item)
<1>. PICK n \in Nat : n = Len(offered) + 1
    BY DEF OneOffer
<1>1. /\ calls' = calls \cup {n}
      /\ \A i \in calls : offered'[i] = offered[i] /\ i \in Nat /\ i < n
      /\ offered'[n] = o
    <2>1. o.hook = "onAgentAction" /\ o.item = item
        BY DEF Turned
    <2>2. calls' = calls \cup {n}
        <3>1. /\ o.hook = "onAgentAction" /\ o.item = item =>
                    Offers("onAgentAction", item)' = Offers("onAgentAction", item) \cup {Len(offered) + 1}
            BY OffersGrow
        <3>. QED
            BY <2>1, <3>1
    <2>3. \A i \in calls : offered'[i] = offered[i] /\ i \in Nat /\ i < n
        BY OffersGrow
    <2>. QED
        BY <2>2, <2>3 DEF OneOffer
<1>2. /\ o.plugin = chain[k] /\ o.form = current /\ (o.failed => current' = current)
      /\ \A i \in calls : offered[i].plugin # chain[k]
      /\ chain[k].does = "gate" => \A i \in calls : offered[i].plugin.does # "gate"
    BY OneGate DEF Turned
<1>3. Steady
    BY DEF Steady
<1>4. \A i \in calls' : \E l \in DOMAIN chain : l <= k /\ offered'[i].plugin = chain[l]
    <2>1. \A i \in calls : \E l \in DOMAIN chain : l <= cursor /\ offered[i].plugin = chain[l]
        BY DEF OnItsWay
    <2>2. k \in DOMAIN chain /\ k > cursor /\ k \in Nat
        BY DEF Reaches
    <2>3. \A l \in DOMAIN chain : l \in Nat
        BY LenProperties
    <2>. QED
        BY <1>1, <1>2, <2>1, <2>2, <2>3
<1>5. ASSUME NEW l \in DOMAIN chain, l <= k, Has(chain[l], "onAgentAction")
      PROVE  Once(chain[l], calls)'
    <2>1. PICK p : p = chain[l]
        OBVIOUS
    <2>2. CASE l = k
        <3>1. \E i \in calls' : offered'[i].plugin = p /\ \A j \in calls' : offered'[j].plugin = p => j = i
            BY <1>1, <1>2, <2>1, <2>2
        <3>. QED
            BY <2>1, <3>1 DEF Once
    <2>3. CASE l # k
        <3>1. l <= cursor
            BY <1>5, <2>3, LenProperties DEF Reaches
        <3>2. Once(p, calls) /\ p # chain[k]
            BY <1>5, <2>1, <2>3, <3>1 DEF OnItsWay, ChainInv, Reaches
        <3>3. Once(p, calls)'
            BY <1>1, <1>2, <3>2 DEF Once
        <3>. QED
            BY <2>1, <3>3
    <2>. QED
        BY <2>2, <2>3
<1>6. Kept(calls)' = IF o.failed THEN Kept(calls) ELSE Kept(calls) \cup {n}
    BY <1>1 DEF Kept
<1>7. Start(item)' = Start(item)
    BY <1>3, StartStays
<1>8. /\ HandedOn(calls, item)
      /\ Kept(calls) = {} => current = Start(item)
      /\ \A i \in calls : (\A j \in calls : j <= i) /\ offered[i].failed => offered[i].form = current
      /\ current # Undefined =>
              /\ item \in DOMAIN net.actions
              /\ (\A i \in calls : offered[i].plugin.does # "gate") =>
                    current.type = net.actions[item].type
              /\ Hidden(item) => current.payload \notin Clear
    BY DEF OnItsWay
<1>9. Kept(calls) \subseteq calls
    BY DEF Kept
<1>. HIDE DEF calls
<1>10. HandedOn(calls, item)'
    <2>1. ASSUME NEW i \in calls', \A j \in Kept(calls)' : j >= i
          PROVE  offered'[i].form = Start(item)
        <3>1. CASE i \in calls
            BY <1>1, <1>6, <1>8, <2>1, <3>1 DEF HandedOn
        <3>2. CASE i = n
            <4>1. \A j \in Kept(calls) : j \in Kept(calls)' /\ j \in Nat /\ j < n
                BY <1>1, <1>6, <1>9
            <4>2. Kept(calls) = {}
                BY <2>1, <3>2, <4>1
            <4>. QED
                BY <1>1, <1>2, <1>8, <3>2, <4>2
        <3>. QED
            BY <1>1, <2>1, <3>1, <3>2
    <2>2. ASSUME NEW i \in calls', NEW j \in calls', offered'[i].failed, i < j,
                 \A l \in calls' : l <= i \/ l >= j
          PROVE  offered'[j].form = offered'[i].form
        <3>1. i \in calls /\ offered'[i] = offered[i]
            BY <1>1, <2>2
        <3>2. CASE j \in calls
            BY <1>1, <1>8, <2>2, <3>1, <3>2 DEF HandedOn
        <3>3. CASE j = n
            BY <1>1, <1>2, <1>8, <2>2, <3>1, <3>3
        <3>. QED
            BY <1>1, <2>2, <3>2, <3>3
    <2>. QED
        BY <1>7, <2>1, <2>2 DEF HandedOn
<1>11. Kept(calls)' = {} => current' = Start(item)'
    BY <1>2, <1>6, <1>7, <1>8
<1>12. \A i \in calls' : (\A j \in calls' : j <= i) /\ offered'[i].failed => offered'[i].form = current'
    BY <1>1, <1>2
<1>13. ASSUME current' # Undefined
       PROVE  /\ item \in DOMAIN net.actions
              /\ (\A i \in calls' : offered'[i].plugin.does # "gate") =>
                    current'.type = net.actions[item].type
              /\ Hidden(item)' => current'.payload \notin Clear
    <2>1. CASE o.plugin.does = "gate" /\ ~o.failed
        BY <1>1, <1>8, <2>1 DEF Turned
    <2>2. CASE o.failed
        <3>1. Hidden(item)' <=> Hidden(item)
            BY <1>3, <2>2, HiddenStays DEF Turned
        <3>. QED
            BY <1>1, <1>2, <1>8, <1>13, <2>2, <3>1
    <2>3. CASE o.plugin.does # "gate"
        <3>1. Hidden(item)' <=> Hidden(item)
            BY <1>3, <2>3, HiddenStays DEF Turned
        <3>2. current # Undefined /\ current'.type = current.type
              /\ (current.payload \notin Clear => current'.payload \notin Clear)
            BY <1>13, <2>3 DEF Turned
        <3>. QED
            BY <1>1, <1>8, <3>1, <3>2
    <2>. QED
        BY <2>1, <2>2, <2>3
<1>. USE DEF calls
<1>14. HandedOn(calls, item)' /\ (Kept(calls)' = {} => current' = Start(item)')
    BY <1>10, <1>11
<1>. QED
    BY <1>4, <1>5, <1>12, <1>13, <1>14 DEF OnItsWay

\* Nothing in clear is offered behind the gate.
LEMMA GateGoesOn ==
    ASSUME ChainInv, UNCHANGED <<net, chain>>,
           NEW item \in Nat, NEW cursor \in Nat, OnItsWay(item, cursor), Gated(item),
           NEW k, Reaches(k, "onAgentAction", cursor),
           NEW o, OneOffer(o), o.plugin = chain[k], Turned(item, o)
    PROVE  Gated(item)'
<1>. DEFINE calls == Offers("onAgentAction", item)
<1>. PICK n \in Nat : n = Len(offered) + 1
    BY DEF OneOffer
<1>1. /\ calls' = calls \cup {n}
      /\ \A i \in calls : offered'[i] = offered[i] /\ i \in Nat /\ i < n
      /\ offered'[n] = o
      /\ \A i \in calls' : offered'[i].item = item
    BY OffersGrow DEF Turned, OneOffer, Offers
<1>2. \A i \in calls : offered[i].item = item
    BY DEF Offers
<1>3. Steady
    BY DEF Steady
<1>4. SUFFICES ASSUME NEW i \in calls', Hidden(item)', Behind(i)', offered'[i].form # Undefined
               PROVE  offered'[i].form.payload \notin Clear
    BY DEF Gated
<1>5. PICK j \in calls : j < i /\ offered[j].plugin.does = "gate"
    BY <1>1, <1>4 DEF Behind
<1>6. o.plugin.does # "gate" /\ Hidden(item)
    BY <1>3, <1>4, <1>5, OneGate, HiddenStays DEF Turned
<1>7. CASE i \in calls
    <2>1. Behind(i)
        BY <1>2, <1>5, <1>7 DEF Behind
    <2>. QED
        BY <1>1, <1>4, <1>6, <1>7, <2>1 DEF Gated
<1>8. CASE i = n
    BY <1>1, <1>4, <1>6, <1>8 DEF OnItsWay, Turned
<1>. QED
    BY <1>1, <1>4, <1>7, <1>8

\* One plugin transforms the action.
LEMMA ReturnsAre ==
    ASSUME HookTypes, NEW item, NEW p \in PluginRecord, NEW form \in Shapes,
           NEW given, given = consent[net.actions[item].agent],
           at.hook = "onAgentAction", at.item = item
    PROVE  /\ Returned(p, form) \in Shapes \/ (p.does = "gate" /\ form = Undefined)
           /\ p.does = "gate" => Returned(p, form) = Gate(form, given)
           /\ p.does # "gate" /\ Returned(p, form) # Undefined =>
                 /\ form # Undefined /\ Returned(p, form).type = form.type
                 /\ form.payload \notin Clear => Returned(p, form).payload \notin Clear
<1>1. p.does \in {"keep", "enrich", "forget", "cancel", "gate"}
    BY DEF PluginRecord
<1>2. CASE p.does \in {"forget", "cancel"}
    <2>1. Returned(p, form) = Undefined
        BY <1>2 DEF Returned
    <2>. QED
        BY <1>2, <2>1 DEF Shapes
<1>3. CASE p.does = "enrich" /\ form # Undefined
    <2>1. form \in Form /\ form.payload \in Payloads /\ form.type \in ActionTypes
        BY <1>3 DEF Shapes, Form
    <2>2. Returned(p, form) = [form EXCEPT !.payload = IF @ = "raw" THEN "enriched" ELSE @]
        BY <1>3 DEF Returned
    <2>3. Returned(p, form) =
             [type |-> form.type, payload |-> IF form.payload = "raw" THEN "enriched" ELSE form.payload]
        BY <2>1, <2>2 DEF Form
    <2>4. Returned(p, form) \in Form
        BY <2>1, <2>3 DEF Form, Payloads
    <2>. QED
        BY <1>3, <2>1, <2>3, <2>4 DEF Shapes, Clear
<1>4. CASE p.does = "keep" \/ (p.does = "enrich" /\ form = Undefined)
    <2>1. Returned(p, form) = form
        BY <1>4 DEF Returned
    <2>. QED
        BY <1>4, <2>1
<1>5. CASE p.does = "gate"
    <2>1. Returned(p, form) = Gate(form, given)
        BY <1>5 DEF Returned
    <2>2. form \in Form => Gate(form, given) \in Form
        BY GateHolds DEF HookTypes
    <2>. QED
        BY <1>5, <2>1, <2>2 DEF Shapes
<1>. QED
    BY <1>1, <1>2, <1>3, <1>4, <1>5

LEMMA TurnIs ==
    ASSUME HooksInv, at.hook = "onAgentAction", NEW failed \in BOOLEAN, TransformOne(failed)
    PROVE  /\ Reaches(Min(NextPlugin), "onAgentAction", at.cursor)
           /\ \E o \in OfferRecord : OneOffer(o) /\ o.plugin = chain[Min(NextPlugin)] /\ Turned(at.item, o)
           /\ offered' \in Seq(OfferRecord)
           /\ current' \in Shapes
           /\ at.item \in DOMAIN net.actions
           /\ \A i : i # at.item => SeenAs(i)
           /\ DOMAIN looked' \subseteq DOMAIN looked \cup {at.item}
<1>1. PICK k, item, form, p :
          k = Min(NextPlugin) /\ item = at.item /\ form = current /\ p = chain[k]
    OBVIOUS
<1>2. PICK o : o = [hook |-> "onAgentAction", plugin |-> p, item |-> item, form |-> form, failed |-> failed]
    OBVIOUS
<1>3. Reaches(k, "onAgentAction", at.cursor)
    BY <1>1, NextIs DEF HooksInv, TransformOne
<1>4. p \in PluginRecord /\ item \in Nat /\ form \in Shapes
    BY <1>1, <1>3 DEF HooksInv, HookTypes, Reaches
<1>5. o \in OfferRecord
    BY <1>2, <1>4 DEF OfferRecord, HookNames
<1>6. offered' = Append(offered, o)
    BY <1>1, <1>2 DEF TransformOne, Offer
<1>7. OneOffer(o) /\ offered' \in Seq(OfferRecord)
    BY <1>5, <1>6, OfferOne DEF HooksInv, HookTypes
<1>8. PICK given : given = consent[net.actions[item].agent]
    OBVIOUS
<1>9. /\ failed => current' = form
      /\ ~failed => current' = Returned(p, form)
      /\ p.does = "gate" /\ form = Undefined => failed
      /\ p.does # "gate" \/ failed => looked' = looked
      /\ p.does = "gate" /\ ~failed =>
            looked' = [i \in DOMAIN looked \cup {item} |-> IF i = item
                          THEN consent[net.actions[i].agent] ELSE looked[i]]
    BY <1>1 DEF TransformOne, AfterError
<1>10. /\ Returned(p, form) \in Shapes \/ (p.does = "gate" /\ form = Undefined)
       /\ p.does = "gate" => Returned(p, form) = Gate(form, given)
       /\ p.does # "gate" /\ Returned(p, form) # Undefined =>
             /\ form # Undefined /\ Returned(p, form).type = form.type
             /\ form.payload \notin Clear => Returned(p, form).payload \notin Clear
    BY <1>1, <1>4, <1>8, ReturnsAre DEF HooksInv
<1>11. current' \in Shapes
    BY <1>4, <1>9, <1>10
<1>12. (\A i : i # item => SeenAs(i)) /\ DOMAIN looked' \subseteq DOMAIN looked \cup {item}
    <2>1. CASE p.does # "gate" \/ failed
        BY <1>9, <2>1 DEF SeenAs
    <2>2. CASE p.does = "gate" /\ ~failed
        BY <1>9, <2>2 DEF SeenAs
    <2>. QED
        BY <2>1, <2>2
<1>13. item \in DOMAIN net.actions
    <2>1. net.actions \in Seq([agent : Actors, type : ActionTypes])
        BY DEF HooksInv, HookTypes, NetRecord
    <2>2. item \in Nat /\ item >= 1 /\ item <= Len(net.actions)
        BY <1>1, <1>4 DEF HooksInv, PlaceInv, Transforming, TransformOne, Items
    <2>. QED
        BY <2>1, <2>2, LenProperties
<1>14. p.does = "gate" /\ ~failed => form # Undefined /\ (Hidden(item)' => current'.payload \notin Clear)
    <2>. SUFFICES ASSUME p.does = "gate", ~failed, Hidden(item)'
                  PROVE  current'.payload \notin Clear
        BY <1>9
    <2>1. form \in Form /\ form # Undefined
        BY <1>4, <1>9 DEF Shapes
    <2>2. form.type = net.actions[item].type
        <3>1. PICK cursor \in Nat : cursor = at.cursor
            BY DEF HooksInv, HookTypes
        <3>2. OnItsWay(item, cursor)
            BY <1>1, <3>1 DEF HooksInv, WayInv
        <3>3. \A i \in Offers("onAgentAction", item) : offered[i].plugin.does # "gate"
            BY <1>1, <1>3, <3>1, <3>2, OneGate DEF HooksInv
        <3>. QED
            BY <1>1, <2>1, <3>2, <3>3 DEF OnItsWay
    <2>3. looked'[item] = given
        BY <1>8, <1>9
    <2>4. net' = net
        BY DEF TransformOne
    <2>5. \/ Rule(form.type).level # "none"
          \/ form.type = "tool_call" /\ Reduces(form.type, given)
        BY <2>2, <2>3, <2>4 DEF Hidden, Rule, Reduces
    <2>6. Gate(form, given).payload \notin Clear
        BY <2>1, <2>5, GateHolds DEF HooksInv, HookTypes
    <2>. QED
        BY <1>9, <1>10, <2>6
<1>15. Turned(item, o)
    <2>1. p.does # "gate" \/ failed => SeenAs(item)
        BY <1>9 DEF SeenAs
    <2>2. p.does # "gate" /\ current' # Undefined =>
              /\ form # Undefined /\ current'.type = form.type
              /\ form.payload \notin Clear => current'.payload \notin Clear
        BY <1>9, <1>10
    <2>. QED
        BY <1>1, <1>2, <1>9, <1>14, <2>1, <2>2 DEF Turned
<1>. QED
    BY <1>1, <1>2, <1>3, <1>5, <1>7, <1>11, <1>12, <1>13, <1>15

LEMMA TransformAction ==
    ASSUME HooksInv, at.hook = "onAgentAction", NEW failed \in BOOLEAN, TransformOne(failed)
    PROVE  HooksInv'
<1>1. PICK k, item, cursor : k = Min(NextPlugin) /\ item = at.item /\ cursor = at.cursor
    OBVIOUS
<1>2. PICK o \in OfferRecord : OneOffer(o) /\ o.plugin = chain[k] /\ Turned(item, o)
    BY <1>1, TurnIs
<1>3. /\ Reaches(k, "onAgentAction", cursor) /\ offered' \in Seq(OfferRecord) /\ current' \in Shapes
      /\ item \in DOMAIN net.actions /\ (\A i : i # item => SeenAs(i))
      /\ DOMAIN looked' \subseteq DOMAIN looked \cup {item}
    BY <1>1, TurnIs
<1>4. /\ UNCHANGED <<net, chain, promised, queue, transformed>>
      /\ at' = [hook |-> "onAgentAction", item |-> item, cursor |-> k]
    BY <1>1 DEF TransformOne, Place
<1>5. item \in Nat /\ cursor \in Nat /\ k \in Nat /\ k <= Len(chain) /\ k \in DOMAIN chain
    BY <1>1, <1>3, LenProperties DEF HooksInv, HookTypes, Reaches
<1>6. Steady
    BY <1>4 DEF Steady
<1>7. OnItsWay(item, cursor) /\ Gated(item)
    BY <1>1, <1>5 DEF HooksInv, WayInv, ItemsInv
<1>8. \A hook, it : hook # "onAgentAction" \/ it # item => SameOffers(hook, it)
    BY <1>2, OffersGrow DEF Turned
<1>9. HookTypes'
    BY <1>3, <1>4, <1>5 DEF HooksInv, HookTypes, HookNames
<1>10. ChainInv'
    BY <1>4 DEF HooksInv, ChainInv
<1>11. PlaceInv'
    BY <1>1, <1>3, <1>4, <1>5 DEF HooksInv, HookTypes, PlaceInv, Transforming
<1>12. OffersInv'
    <2>1. \A i \in DOMAIN offered' : (i \in DOMAIN offered /\ offered'[i] = offered[i]) \/ offered'[i] = o
        BY <1>2 DEF OneOffer
    <2>2. o.hook = "onAgentAction" /\ o.item = item
        BY <1>2 DEF Turned
    <2>3. at'.hook = at.hook /\ at'.item = at.item
        BY <1>1, <1>4
    <2>4. \A i \in DOMAIN offered' : Made(offered[i])'
        BY <1>1, <1>5, <2>1, <2>2, <2>3 DEF HooksInv, OffersInv, Made
    <2>. QED
        BY <2>4 DEF OffersInv
<1>13. ItemsInv'
    <2>1. ASSUME NEW it \in DOMAIN transformed'
          PROVE  Passed(it)'
        <3>1. it # item
            BY <1>1, <1>4, LenProperties DEF HooksInv, HookTypes, PlaceInv
        <3>2. Passed(it)
            BY <1>4 DEF HooksInv, ItemsInv
        <3>. QED
            BY <1>3, <1>4, <1>6, <1>8, <3>1, <3>2, PassedStays
    <2>2. ASSUME NEW it \in Nat
          PROVE  Gated(it)'
        <3>1. Gated(it)
            BY DEF HooksInv, ItemsInv
        <3>2. CASE it # item
            BY <1>3, <1>6, <1>8, <3>1, <3>2, GatedStays
        <3>3. Gated(item)'
            BY <1>2, <1>3, <1>4, <1>5, <1>7, GateGoesOn DEF HooksInv
        <3>. QED
            BY <3>2, <3>3
    <2>. QED
        BY <2>1, <2>2 DEF ItemsInv
<1>14. WayInv'
    <2>1. OnItsWay(item, k)'
        BY <1>2, <1>3, <1>4, <1>5, <1>7, WayGoesOn DEF HooksInv, HookTypes
    <2>2. at'.item = item /\ at'.cursor = k
        BY <1>4
    <2>. QED
        BY <2>1, <2>2 DEF WayInv
<1>15. NoticesInv'
    <2>1. ToldOnce("onWorldTick", {})'
        BY <1>6, <1>8, ToldStays DEF HooksInv, NoticesInv
    <2>. QED
        BY <1>4, <2>1 DEF NoticesInv, Transforming
<1>. QED
    BY <1>9, <1>10, <1>11, <1>12, <1>13, <1>14, <1>15 DEF HooksInv

\* The actions that have been through the chain are not touched by the other hooks.
LEMMA ItemsStay ==
    ASSUME HooksInv, Steady, UNCHANGED <<transformed, looked>>,
           \A item : SameOffers("onAgentAction", item)
    PROVE  ItemsInv'
<1>1. \A item : SeenAs(item)
    BY DEF SeenAs
<1>. QED
    BY <1>1, PassedStays, GatedStays DEF HooksInv, ItemsInv

LEMMA TransformStimulus ==
    ASSUME HooksInv, at.hook = "onStimulusEmit", NEW failed \in BOOLEAN, TransformOne(failed)
    PROVE  HooksInv'
<1>1. PICK k, p, item, form : k = Min(NextPlugin) /\ p = chain[k] /\ item = at.item /\ form = current
    OBVIOUS
<1>2. PICK o : o = [hook |-> "onStimulusEmit", plugin |-> p, item |-> item, form |-> form, failed |-> failed]
    OBVIOUS
<1>3. k \in DOMAIN chain /\ k \in Nat /\ k <= Len(chain)
    BY <1>1, NextIs, LenProperties DEF HooksInv, HookTypes, TransformOne, Reaches
<1>4. p \in PluginRecord /\ item \in Nat /\ form \in Shapes \cup {"raw"}
    BY <1>1, <1>3 DEF HooksInv, HookTypes
<1>5. o \in OfferRecord /\ offered' = Append(offered, o)
    BY <1>1, <1>2, <1>4 DEF OfferRecord, HookNames, TransformOne, Offer
<1>6. OneOffer(o) /\ offered' \in Seq(OfferRecord)
    BY <1>5, OfferOne DEF HooksInv, HookTypes
<1>7. \A hook, it : hook # "onStimulusEmit" => SameOffers(hook, it)
    BY <1>2, <1>6, OffersGrow
<1>8. /\ UNCHANGED <<net, chain, promised, queue, transformed, looked>>
      /\ at' = [hook |-> "onStimulusEmit", item |-> item, cursor |-> k]
      /\ current' \in {form, Returned(p, form)}
    BY <1>1 DEF TransformOne, Place, AfterError
<1>9. current' \in Shapes \cup {"raw"}
    <2>1. p.does \in {"keep", "enrich", "forget", "cancel", "gate"}
        BY <1>4 DEF PluginRecord
    <2>2. Returned(p, form) \in {form, Undefined}
        BY <2>1 DEF Returned
    <2>. QED
        BY <1>4, <1>8, <2>2 DEF Shapes
<1>10. Steady
    BY <1>8 DEF Steady
<1>11. HookTypes'
    BY <1>3, <1>4, <1>6, <1>8, <1>9 DEF HooksInv, HookTypes, HookNames
<1>12. ChainInv'
    BY <1>8 DEF HooksInv, ChainInv
<1>13. PlaceInv'
    BY <1>1, <1>3, <1>8 DEF HooksInv, PlaceInv, Transforming
<1>14. OffersInv'
    <2>1. \A i \in DOMAIN offered' : (i \in DOMAIN offered /\ offered'[i] = offered[i]) \/ offered'[i] = o
        BY <1>6 DEF OneOffer
    <2>2. \A i \in DOMAIN offered' : Made(offered[i])'
        BY <1>2, <1>8, <2>1 DEF HooksInv, OffersInv, Made
    <2>. QED
        BY <2>2 DEF OffersInv
<1>15. ItemsInv'
    BY <1>7, <1>8, <1>10, ItemsStay
<1>16. WayInv' /\ NoticesInv'
    BY <1>8 DEF WayInv, NoticesInv, Transforming
<1>. QED
    BY <1>11, <1>12, <1>13, <1>14, <1>15, <1>16 DEF HooksInv

LEMMA StimulusEnds ==
    ASSUME HooksInv, at.hook = "onStimulusEmit", TransformEnds
    PROVE  HooksInv'
<1>1. PICK item \in Nat : item = at.item
    BY DEF HooksInv, HookTypes
<1>2. /\ UNCHANGED <<net, chain, promised, queue, transformed, offered, looked>>
      /\ at' = [hook |-> "onStimulusEmit", item |-> item + 1, cursor |-> 0] /\ current' = "raw"
    BY <1>1 DEF TransformEnds, Place
<1>3. Steady /\ \A hook, it : SameOffers(hook, it)
    BY <1>2, OffersStay DEF Steady
<1>4. HookTypes' /\ ChainInv' /\ OffersInv'
    BY <1>1, <1>2 DEF HooksInv, HookTypes, HookNames, ChainInv, OffersInv, Made
<1>5. PlaceInv'
    BY <1>1, <1>2, LenProperties DEF HooksInv, HookTypes, PlaceInv, Transforming
<1>6. ItemsInv'
    BY <1>2, <1>3, ItemsStay
<1>7. WayInv' /\ NoticesInv'
    BY <1>2 DEF WayInv, NoticesInv, Transforming
<1>. QED
    BY <1>4, <1>5, <1>6, <1>7 DEF HooksInv

\* An action that nothing has been done to yet.
LEMMA StartIs ==
    ASSUME net \in NetRecord, NEW item \in Nat, item >= 1
    PROVE  /\ Start(item) \in Shapes
           /\ Start(item) # Undefined =>
                 item \in DOMAIN net.actions /\ Start(item).type = net.actions[item].type
<1>1. net.actions \in Seq([agent : Actors, type : ActionTypes])
    BY DEF NetRecord
<1>2. CASE item > Len(net.actions)
    BY <1>2 DEF Start, Shapes
<1>3. CASE ~(item > Len(net.actions))
    <2>1. item \in DOMAIN net.actions
        BY <1>1, <1>3, LenProperties
    <2>2. net.actions[item] \in [agent : Actors, type : ActionTypes]
        <3>1. PICK S : S = [agent : Actors, type : ActionTypes]
            OBVIOUS
        <3>2. net.actions \in Seq(S)
            BY <1>1, <3>1
        <3>3. net.actions[item] \in S
            BY <2>1, <3>2
        <3>. QED
            BY <3>1, <3>3
    <2>3. Start(item) = [type |-> net.actions[item].type, payload |-> "raw"]
        BY <1>3 DEF Start
    <2>. QED
        BY <2>1, <2>2, <2>3 DEF Shapes, Form, Payloads
<1>. QED
    BY <1>2, <1>3

LEMMA FreshItem ==
    ASSUME net \in NetRecord, chain \in Seq(PluginRecord), UNCHANGED <<net, chain>>,
           NEW item \in Nat, item >= 1, current' = Start(item),
           Offers("onAgentAction", item)' = {}, item \notin DOMAIN looked'
    PROVE  OnItsWay(item, 0)' /\ current' \in Shapes
<1>1. Start(item)' = Start(item)
    BY DEF Start
<1>2. ~Hidden(item)'
    BY DEF Hidden
<1>3. \A k \in DOMAIN chain : ~(k <= 0)
    BY LenProperties
<1>4. HandedOn(Offers("onAgentAction", item), item)'
    BY DEF HandedOn
<1>. QED
    BY <1>1, <1>2, <1>3, <1>4, StartIs DEF OnItsWay

LEMMA ActionEnds ==
    ASSUME HooksInv, at.hook = "onAgentAction", TransformEnds
    PROVE  HooksInv'
<1>1. PICK item \in Nat, cursor \in Nat, form \in Shapes : item = at.item /\ cursor = at.cursor /\ form = current
    BY DEF HooksInv, HookTypes
<1>2. /\ UNCHANGED <<net, chain, promised, queue, offered, looked>>
      /\ at' = [hook |-> "onAgentAction", item |-> item + 1, cursor |-> 0]
      /\ current' = Start(item + 1) /\ NextPlugin = {} /\ transformed' = Append(transformed, form)
    BY <1>1 DEF TransformEnds, Place
<1>3. /\ transformed \in Seq(Shapes) /\ Len(transformed) \in Nat /\ item = Len(transformed) + 1
      /\ promised = {} /\ queue = {} /\ \A it \in DOMAIN looked : it <= item
    BY <1>1, LenProperties DEF HooksInv, HookTypes, PlaceInv, Transforming
<1>4. /\ transformed' \in Seq(Shapes) /\ Len(transformed') = item /\ DOMAIN transformed' = 1..item
      /\ DOMAIN transformed = 1..(item - 1)
      /\ transformed'[item] = form /\ \A it \in DOMAIN transformed : transformed'[it] = transformed[it]
    BY <1>2, <1>3, AppendProperties, LenProperties
<1>5. Steady /\ (\A hook, it : SameOffers(hook, it)) /\ \A it : SeenAs(it)
    BY <1>2, OffersStay DEF Steady, SeenAs
<1>6. Offers("onAgentAction", item + 1)' = {} /\ item + 1 \notin DOMAIN looked'
    BY <1>1, <1>2, <1>3 DEF HooksInv, OffersInv, Made, Offers
<1>7. OnItsWay(item + 1, 0)' /\ current' \in Shapes
    <2>1. PICK next \in Nat : next = item + 1 /\ next >= 1
        OBVIOUS
    <2>2. OnItsWay(next, 0)' /\ current' \in Shapes
        BY <1>2, <1>6, <2>1, FreshItem DEF HooksInv, HookTypes
    <2>. QED
        BY <2>1, <2>2
<1>8. HookTypes'
    BY <1>2, <1>4, <1>7 DEF HooksInv, HookTypes, HookNames
<1>9. ChainInv' /\ OffersInv'
    <2>1. ChainInv'
        BY <1>2 DEF HooksInv, ChainInv
    <2>2. \A i \in DOMAIN offered : offered[i].item \in Nat
        <3>1. offered \in Seq(OfferRecord)
            BY DEF HooksInv, HookTypes
        <3>2. \A i \in DOMAIN offered : offered[i] \in OfferRecord
            BY <3>1
        <3>. QED
            BY <3>2 DEF OfferRecord
    <2>3. \A i \in DOMAIN offered : Made(offered[i])'
        BY <1>1, <1>2, <2>2 DEF HooksInv, OffersInv, Made
    <2>. QED
        BY <1>2, <2>1, <2>3 DEF OffersInv
<1>10. PlaceInv'
    <2>1. \A it \in DOMAIN looked' : it <= item + 1
        <3>1. DOMAIN looked \subseteq Nat
            BY LenProperties DEF HooksInv, HookTypes, PlaceInv, NetRecord
        <3>. QED
            BY <1>2, <1>3, <3>1
    <2>. QED
        BY <1>2, <1>3, <1>4, <2>1, LenProperties DEF HooksInv, HookTypes, PlaceInv, Transforming
<1>11. Passed(item)'
    <2>1. OnItsWay(item, cursor)
        BY <1>1 DEF HooksInv, WayInv
    <2>2. AllOnce("onAgentAction", item)'
        <3>1. ASSUME NEW k \in DOMAIN net.plugins, Has(net.plugins[k], "onAgentAction")
              PROVE  Once(net.plugins[k], Offers("onAgentAction", item))'
            <4>1. PICK p : p = net.plugins[k]
                OBVIOUS
            <4>2. k \in DOMAIN chain /\ chain[k] = p
                BY <4>1 DEF HooksInv, ChainInv
            <4>3. k <= cursor
                BY <1>1, <1>2, <3>1, <4>1, <4>2, LenProperties DEF NextPlugin, HooksInv, HookTypes
            <4>4. Once(p, Offers("onAgentAction", item))
                BY <2>1, <3>1, <4>1, <4>2, <4>3 DEF OnItsWay
            <4>5. Once(p, Offers("onAgentAction", item))'
                BY <1>5, <4>4, OnceStays
            <4>. QED
                BY <1>2, <4>1, <4>5
        <3>. QED
            BY <1>2, <3>1 DEF AllOnce, Has
    <2>3. /\ HandedOn(Offers("onAgentAction", item), item)'
          /\ Kept(Offers("onAgentAction", item))' = Kept(Offers("onAgentAction", item))
          /\ Start(item)' = Start(item)
        BY <1>5, <2>1, HandedStays, StartStays DEF OnItsWay
    <2>4. Hidden(item)' <=> Hidden(item)
        BY <1>5, HiddenStays
    <2>. QED
        BY <1>1, <1>4, <2>1, <2>2, <2>3, <2>4 DEF Passed, OnItsWay
<1>12. ItemsInv'
    <2>1. ASSUME NEW it \in DOMAIN transformed', it # item
          PROVE  Passed(it)'
        <3>1. it \in DOMAIN transformed
            BY <1>4, <2>1
        <3>2. Passed(it) /\ transformed'[it] = transformed[it]
            BY <1>4, <3>1 DEF HooksInv, ItemsInv
        <3>. QED
            BY <1>5, <3>2, PassedStays
    <2>2. \A it \in Nat : Gated(it)'
        BY <1>5, GatedStays DEF HooksInv, ItemsInv
    <2>. QED
        BY <1>11, <2>1, <2>2 DEF ItemsInv
<1>13. WayInv'
    BY <1>2, <1>7 DEF WayInv
<1>14. NoticesInv'
    <2>1. ToldOnce("onWorldTick", {})'
        BY <1>5, ToldStays DEF HooksInv, NoticesInv
    <2>. QED
        BY <1>2, <2>1 DEF NoticesInv, Transforming
<1>. QED
    BY <1>8, <1>9, <1>10, <1>12, <1>13, <1>14 DEF HooksInv

\* A plugin that is notified: it has not been called before, and who keeps the order comes last.
LEMMA ToldOneMore ==
    ASSUME ChainInv, UNCHANGED <<net, chain>>, NEW hook, NEW left \in SUBSET DOMAIN chain,
           NEW k \in left, ToldOnce(hook, left), NEW o, OneOffer(o),
           o.hook = hook, o.item = 0, o.plugin = chain[k],
           \A i \in Offers(hook, 0) : ~offered[i].plugin.parallel =>
               ~o.plugin.parallel /\ Stands(offered[i].plugin, o.plugin)
    PROVE  ToldOnce(hook, left \ {k})'
<1>. DEFINE calls == Offers(hook, 0)
<1>. PICK n \in Nat : n = Len(offered) + 1
    BY DEF OneOffer
<1>1. /\ calls' = calls \cup {n}
      /\ \A i \in calls : offered'[i] = offered[i] /\ i \in Nat /\ i < n
      /\ offered'[n] = o
    <2>1. calls' = calls \cup {n}
        <3>1. \A i : i \in DOMAIN offered' <=> i \in DOMAIN offered \/ i = n
            BY DEF OneOffer
        <3>. QED
            BY <3>1 DEF OneOffer, Offers
    <2>2. \A i \in calls : offered'[i] = offered[i] /\ i \in Nat /\ i < n
        BY OffersGrow
    <2>. QED
        BY <2>1, <2>2 DEF OneOffer
<1>2. \A l \in DOMAIN chain : l # k => chain[l] # chain[k]
    BY DEF ChainInv
<1>3. \A i \in calls : offered[i].plugin # o.plugin
    BY DEF ToldOnce
<1>4. \A l \in left \ {k} : Has(chain[l], hook) /\ \A i \in calls' : offered'[i].plugin # chain[l]
    BY <1>1, <1>2 DEF ToldOnce
<1>5. ASSUME NEW l \in DOMAIN net.plugins, Has(chain[l], hook), l \notin left \ {k}
      PROVE  Once(chain[l], calls)'
    <2>1. PICK p : p = chain[l]
        OBVIOUS
    <2>2. CASE l = k
        <3>1. Once(p, calls)'
            BY <1>1, <1>3, <2>1, <2>2 DEF Once
        <3>. QED
            BY <2>1, <3>1
    <2>3. CASE l # k
        <3>1. Once(p, calls) /\ p # o.plugin
            BY <1>2, <1>5, <2>1, <2>3 DEF ToldOnce, ChainInv
        <3>2. Once(p, calls)'
            BY <1>1, <3>1 DEF Once
        <3>. QED
            BY <2>1, <3>2
    <2>. QED
        BY <2>2, <2>3
<1>6. InOrder(calls)'
    <2>1. \A p, q : Stands(p, q)' <=> Stands(p, q)
        BY DEF Stands
    <2>2. ASSUME NEW i \in calls', NEW j \in calls', i < j, ~offered'[i].plugin.parallel
          PROVE  ~offered'[j].plugin.parallel /\ Stands(offered'[i].plugin, offered'[j].plugin)
        <3>1. i \in calls
            BY <1>1, <2>2
        <3>2. CASE j \in calls
            BY <1>1, <2>2, <3>1, <3>2 DEF ToldOnce, InOrder
        <3>3. CASE j = n
            BY <1>1, <2>2, <3>1, <3>3
        <3>. QED
            BY <1>1, <3>2, <3>3
    <2>3. \A i, j \in calls' : i < j /\ ~offered'[i].plugin.parallel =>
             ~offered'[j].plugin.parallel /\ Stands(offered[i].plugin, offered[j].plugin)'
        <3>1. ASSUME NEW i \in calls', NEW j \in calls', i < j, ~offered'[i].plugin.parallel
              PROVE  ~offered'[j].plugin.parallel /\ Stands(offered[i].plugin, offered[j].plugin)'
            <4>1. PICK p, q : p = offered'[i].plugin /\ q = offered'[j].plugin
                OBVIOUS
            <4>2. ~q.parallel /\ Stands(p, q)
                BY <2>2, <3>1, <4>1
            <4>3. Stands(p, q)'
                BY <2>1, <4>2
            <4>. QED
                BY <4>1, <4>2, <4>3
        <3>. QED
            BY <3>1
    <2>. QED
        BY <2>3 DEF InOrder
<1>. QED
    BY <1>4, <1>5, <1>6 DEF ToldOnce

LEMMA NoticeStep ==
    ASSUME HooksInv, at.hook \notin Transforming,
           UNCHANGED <<net, chain, at, current, transformed, looked>>,
           promised' \subseteq promised, queue' \subseteq queue,
           NEW o, OneOffer(o), offered' \in Seq(OfferRecord), o.hook = at.hook, o.item = 0,
           BeingTold(at.hook)'
    PROVE  HooksInv'
<1>1. at.hook \in {"onWorldTick", "onAgentActionsBatch"}
    BY DEF HooksInv, HookTypes, HookNames, Transforming
<1>2. \A hook, it : hook # at.hook => SameOffers(hook, it)
    BY OffersGrow
<1>3. Steady
    BY DEF Steady
<1>4. HookTypes' /\ ChainInv' /\ PlaceInv'
    BY DEF HooksInv, HookTypes, ChainInv, PlaceInv
<1>5. OffersInv'
    <2>1. \A i \in DOMAIN offered' : (i \in DOMAIN offered /\ offered'[i] = offered[i]) \/ offered'[i] = o
        BY DEF OneOffer
    <2>2. \A i \in DOMAIN offered' : Made(offered[i])'
        BY <1>1, <2>1 DEF HooksInv, OffersInv, Made
    <2>. QED
        BY <2>2 DEF OffersInv
<1>6. ItemsInv'
    BY <1>1, <1>2, <1>3, ItemsStay
<1>7. WayInv'
    BY <1>1 DEF WayInv
<1>8. NoticesInv'
    <2>1. at.hook = "onAgentActionsBatch" => ToldOnce("onWorldTick", {})'
        BY <1>2, <1>3, ToldStays DEF HooksInv, NoticesInv
    <2>. QED
        BY <1>1, <2>1 DEF NoticesInv
<1>. QED
    BY <1>4, <1>5, <1>6, <1>7, <1>8 DEF HooksInv

LEMMA ParallelOne ==
    ASSUME HooksInv, NEW failed \in BOOLEAN, NEW k \in promised, ParallelEnds(k, failed)
    PROVE  HooksInv'
<1>1. PICK hook : hook = at.hook
    OBVIOUS
<1>2. hook \notin Transforming /\ at.item = 0 /\ BeingTold(hook)
    BY <1>1 DEF HooksInv, PlaceInv, NoticesInv
<1>3. promised \subseteq DOMAIN chain /\ queue \subseteq DOMAIN chain /\ hook \in HookNames
    BY <1>1 DEF HooksInv, HookTypes
<1>4. PICK o : o = [hook |-> hook, plugin |-> chain[k], item |-> 0, form |-> Undefined, failed |-> failed]
    OBVIOUS
<1>5. chain[k] \in PluginRecord
    BY <1>3 DEF HooksInv, HookTypes
<1>6. o \in OfferRecord /\ offered' = Append(offered, o)
    BY <1>1, <1>2, <1>3, <1>4, <1>5 DEF OfferRecord, Shapes, ParallelEnds, Offer
<1>7. OneOffer(o) /\ offered' \in Seq(OfferRecord)
    BY <1>6, OfferOne DEF HooksInv, HookTypes
<1>8. /\ UNCHANGED <<net, chain, at, current, queue, transformed, looked>>
      /\ promised' = promised \ {k}
    BY DEF ParallelEnds
<1>9. \A i \in Offers(hook, 0) : offered[i].plugin.parallel
    BY <1>2 DEF BeingTold
<1>10. k \notin queue
    BY <1>2 DEF BeingTold
<1>11. BeingTold(hook)'
    <2>1. PICK left \in SUBSET DOMAIN chain : left = promised \cup queue
        BY <1>3
    <2>2. ToldOnce(hook, left \ {k})'
        BY <1>2, <1>4, <1>7, <1>8, <1>9, <2>1, ToldOneMore DEF HooksInv, BeingTold
    <2>3. left \ {k} = promised' \cup queue'
        BY <1>8, <1>10, <2>1
    <2>4. \A i \in Offers(hook, 0)' : offered'[i].plugin.parallel
        <3>1. \A i \in Offers(hook, 0)' : i \in Offers(hook, 0) \/ i = Len(offered) + 1
            BY <1>4, <1>7, OffersGrow
        <3>2. \A i \in Offers(hook, 0) : offered'[i] = offered[i]
            BY <1>7, OffersGrow
        <3>3. offered'[Len(offered) + 1] = o /\ o.plugin.parallel
            BY <1>2, <1>4, <1>7 DEF OneOffer, BeingTold
        <3>. QED
            BY <1>9, <3>1, <3>2, <3>3
    <2>5. ToldOnce(hook, promised \cup queue)'
        BY <2>2, <2>3
    <2>. QED
        BY <1>2, <1>8, <2>4, <2>5 DEF BeingTold
<1>12. BeingTold(at.hook)'
    BY <1>1, <1>8, <1>11
<1>. QED
    BY <1>1, <1>2, <1>4, <1>7, <1>8, <1>12, NoticeStep

LEMMA SequentialNext ==
    ASSUME HooksInv, NEW failed \in BOOLEAN, SequentialOne(failed)
    PROVE  HooksInv'
<1>1. PICK hook : hook = at.hook
    OBVIOUS
<1>2. hook \notin Transforming /\ at.item = 0 /\ BeingTold(hook) /\ promised = {}
    BY <1>1 DEF HooksInv, PlaceInv, NoticesInv, SequentialOne, ParallelDone
<1>3. promised \subseteq DOMAIN chain /\ queue \subseteq DOMAIN chain /\ hook \in HookNames
    BY <1>1 DEF HooksInv, HookTypes
<1>4. PICK k : k = Min(queue)
    OBVIOUS
<1>5. k \in queue /\ (\A m \in queue : k <= m) /\ \A l \in DOMAIN chain : l \in Nat
    <2>1. \A l \in DOMAIN chain : l \in Nat
        BY LenProperties DEF HooksInv, HookTypes
    <2>2. queue \in SUBSET Nat /\ queue # {}
        BY <1>3, <2>1 DEF SequentialOne
    <2>. QED
        BY <1>4, <2>1, <2>2, LeastIs
<1>6. PICK o : o = [hook |-> hook, plugin |-> chain[k], item |-> 0, form |-> Undefined, failed |-> failed]
    OBVIOUS
<1>7. chain[k] \in PluginRecord
    BY <1>3, <1>5 DEF HooksInv, HookTypes
<1>8. o \in OfferRecord /\ offered' = Append(offered, o)
    BY <1>1, <1>2, <1>3, <1>4, <1>6, <1>7 DEF OfferRecord, Shapes, SequentialOne, Offer
<1>9. OneOffer(o) /\ offered' \in Seq(OfferRecord)
    BY <1>8, OfferOne DEF HooksInv, HookTypes
<1>10. /\ UNCHANGED <<net, chain, at, current, promised, transformed, looked>>
       /\ queue' = queue \ {k}
    BY <1>4 DEF SequentialOne
<1>11. \A i \in Offers(hook, 0) : ~offered[i].plugin.parallel => Stands(offered[i].plugin, chain[k])
    BY <1>2, <1>3, <1>5 DEF BeingTold, Stands
<1>12. ~chain[k].parallel
    BY <1>2, <1>5 DEF BeingTold
<1>13. BeingTold(hook)'
    <2>1. PICK left \in SUBSET DOMAIN chain : left = promised \cup queue /\ k \in left
        BY <1>3, <1>5
    <2>2. ToldOnce(hook, left \ {k})'
        BY <1>2, <1>6, <1>9, <1>10, <1>11, <1>12, <2>1, ToldOneMore DEF HooksInv, BeingTold
    <2>3. left \ {k} = promised' \cup queue'
        BY <1>2, <1>10, <2>1
    <2>4. \A i \in Offers(hook, 0)' : ~offered'[i].plugin.parallel =>
             \A m \in queue' : \E l \in DOMAIN chain : l < m /\ offered'[i].plugin = chain[l]
        <3>1. \A i \in Offers(hook, 0)' : i \in Offers(hook, 0) \/ i = Len(offered) + 1
            BY <1>6, <1>9, OffersGrow
        <3>2. \A i \in Offers(hook, 0) : offered'[i] = offered[i]
            BY <1>9, OffersGrow
        <3>3. offered'[Len(offered) + 1].plugin = chain[k]
            BY <1>6, <1>9 DEF OneOffer
        <3>4. \A m \in queue' : m \in queue /\ k < m /\ k \in DOMAIN chain
            BY <1>3, <1>5, <1>10
        <3>. QED
            BY <1>2, <3>1, <3>2, <3>3, <3>4 DEF BeingTold
    <2>5. ToldOnce(hook, promised \cup queue)'
        BY <2>2, <2>3
    <2>. QED
        BY <1>2, <1>10, <2>4, <2>5 DEF BeingTold
<1>14. BeingTold(at.hook)'
    BY <1>1, <1>10, <1>13
<1>. QED
    BY <1>1, <1>2, <1>6, <1>9, <1>10, <1>14, NoticeStep

\* A hook that starts has told nobody.
LEMMA Started ==
    ASSUME HooksInv, NEW hook \in {"onWorldTick", "onAgentActionsBatch"}, Offers(hook, 0) = {}, Notify(hook)
    PROVE  BeingTold(hook)'
<1>1. Offers(hook, 0)' = {} /\ chain' = chain
    BY DEF Notify, Offers
<1>2. InOrder(Offers(hook, 0))'
    BY <1>1 DEF InOrder
<1>3. net' = net /\ promised' = Parallel(hook) /\ queue' = InSequence(hook)
    BY DEF Notify
<1>4. \A k \in DOMAIN net.plugins : k \in DOMAIN chain
    BY DEF HooksInv, ChainInv
<1>5. ToldOnce(hook, promised \cup queue)'
    BY <1>1, <1>2, <1>3, <1>4 DEF ToldOnce, Parallel, InSequence
<1>. QED
    BY <1>1, <1>3, <1>5 DEF BeingTold, Parallel, InSequence

LEMMA NoticeStarts ==
    ASSUME HooksInv, OnWorldTick \/ OnBatch
    PROVE  HooksInv'
<1>1. PICK hook \in {"onWorldTick", "onAgentActionsBatch"} :
          /\ Notify(hook)
          /\ hook = "onWorldTick" => at.hook = "onStimulusEmit"
          /\ hook = "onAgentActionsBatch" => at.hook = "onAgentAction"
    BY DEF OnWorldTick, OnBatch
<1>2. Offers(hook, 0) = {}
    BY <1>1 DEF HooksInv, OffersInv, Made, Offers
<1>3. BeingTold(hook)'
    BY <1>1, <1>2, Started
<1>4. /\ UNCHANGED <<net, chain, current, transformed, offered, looked>>
      /\ at' = [hook |-> hook, item |-> 0, cursor |-> 0]
      /\ promised' = Parallel(hook) /\ queue' = InSequence(hook)
    BY <1>1 DEF Notify, Place
<1>5. Steady /\ \A h, it : SameOffers(h, it)
    BY <1>4, OffersStay DEF Steady
<1>6. HookTypes'
    BY <1>1, <1>4 DEF HooksInv, HookTypes, HookNames, Parallel, InSequence
<1>7. ChainInv'
    BY <1>4 DEF HooksInv, ChainInv
<1>8. PlaceInv'
    BY <1>1, <1>4, LenProperties DEF HooksInv, HookTypes, PlaceInv, Transforming
<1>9. OffersInv'
    <2>1. \A i \in DOMAIN offered : Made(offered[i])'
        BY <1>1, <1>4 DEF HooksInv, OffersInv, Made
    <2>. QED
        BY <1>4, <2>1 DEF OffersInv
<1>10. ItemsInv'
    BY <1>4, <1>5, ItemsStay
<1>11. WayInv'
    BY <1>1, <1>4 DEF WayInv
<1>12. NoticesInv'
    <2>1. hook = "onAgentActionsBatch" => ToldOnce("onWorldTick", {})'
        BY <1>1, <1>5, ToldStays DEF HooksInv, NoticesInv
    <2>2. at'.hook = hook
        BY <1>4
    <2>. QED
        BY <1>3, <2>1, <2>2 DEF NoticesInv
<1>. QED
    BY <1>6, <1>7, <1>8, <1>9, <1>10, <1>11, <1>12 DEF HooksInv

LEMMA AgentsHaveActed ==
    ASSUME HooksInv, AgentsAct
    PROVE  HooksInv'
<1>1. /\ UNCHANGED <<net, chain, promised, queue, transformed, offered, looked>>
      /\ at.hook = "onWorldTick" /\ promised = {} /\ queue = {}
      /\ at' = [hook |-> "onAgentAction", item |-> 1, cursor |-> 0] /\ current' = Start(1)
    BY DEF AgentsAct, Place
<1>2. Steady /\ \A h, it : SameOffers(h, it)
    BY <1>1, OffersStay DEF Steady
<1>3. transformed = <<>> /\ DOMAIN looked = {}
    BY <1>1 DEF HooksInv, PlaceInv
<1>4. Offers("onAgentAction", 1)' = {} /\ 1 \notin DOMAIN looked'
    BY <1>1, <1>3 DEF HooksInv, OffersInv, Made, Offers
<1>5. OnItsWay(1, 0)' /\ current' \in Shapes
    BY <1>1, <1>4, FreshItem DEF HooksInv, HookTypes
<1>6. HookTypes'
    BY <1>1, <1>5 DEF HooksInv, HookTypes, HookNames
<1>7. ChainInv'
    BY <1>1 DEF HooksInv, ChainInv
<1>8. PlaceInv'
    BY <1>1, <1>3, LenProperties DEF HooksInv, HookTypes, PlaceInv, Transforming
<1>9. OffersInv'
    <2>1. \A i \in DOMAIN offered : Made(offered[i])'
        BY <1>1 DEF HooksInv, OffersInv, Made
    <2>. QED
        BY <1>1, <2>1 DEF OffersInv
<1>10. ItemsInv'
    BY <1>1, <1>2, ItemsStay
<1>11. WayInv'
    BY <1>1, <1>5 DEF WayInv
<1>12. NoticesInv'
    <2>1. ToldOnce("onWorldTick", promised \cup queue)
        BY <1>1 DEF HooksInv, NoticesInv, Transforming, BeingTold
    <2>2. promised \cup queue = {}
        BY <1>1
    <2>3. ToldOnce("onWorldTick", {})'
        BY <1>2, <2>1, <2>2, ToldStays DEF HooksInv
    <2>. QED
        BY <1>1, <2>3 DEF NoticesInv, Transforming
<1>. QED
    BY <1>6, <1>7, <1>8, <1>9, <1>10, <1>11, <1>12 DEF HooksInv

LEMMA UseRests ==
    ASSUME HooksInv, NEW p \in net.late, Use(p)
    PROVE  HooksInv'
<1>1. net \in NetRecord /\ chain \in Seq(PluginRecord) /\ p \in PluginRecord
    BY DEF HooksInv, HookTypes, NetRecord
<1>2. net' = [net EXCEPT !.late = @ \ {p}] /\ chain' = IF p.name \in Names THEN chain ELSE Append(chain, p)
    BY DEF Use
<1>3. /\ net' = [plugins |-> net.plugins, late |-> net.late \ {p}, actions |-> net.actions,
                 stimuli |-> net.stimuli, changes |-> net.changes, rules |-> net.rules]
    BY <1>1, <1>2 DEF NetRecord
<1>4. net' \in NetRecord
    BY <1>1, <1>3 DEF NetRecord
<1>5. chain' \in Seq(PluginRecord) /\ \A k \in DOMAIN chain : k \in DOMAIN chain' /\ chain'[k] = chain[k]
    BY <1>1, <1>2, AppendProperties, LenProperties
<1>6. \A k \in DOMAIN chain' : (k \in DOMAIN chain /\ chain'[k] = chain[k])
                               \/ (k = Len(chain) + 1 /\ chain'[k] = p /\ p.name \notin Names)
    BY <1>1, <1>2, AppendProperties, LenProperties
<1>7. \A k, l \in DOMAIN chain' : chain'[k].name = chain'[l].name => k = l
    BY <1>6 DEF Names, HooksInv, ChainInv
<1>8. ToSet(chain)' \subseteq ToSet(chain) \cup net.late
    BY <1>6 DEF ToSet
<1>9. ChainInv'
    BY <1>3, <1>5, <1>7, <1>8 DEF HooksInv, ChainInv
<1>10. Steady
    BY <1>3, <1>5 DEF Steady
<1>. QED
    BY <1>4, <1>5, <1>9, <1>10, Resting DEF Use

LEMMA ConsentRests ==
    ASSUME HooksInv, NEW a, NEW given, SetConsent(a, given)
    PROVE  HooksInv'
<1>1. net \in NetRecord /\ net.changes > 0 /\ net' = [net EXCEPT !.changes = @ - 1]
    BY DEF HooksInv, HookTypes, SetConsent
<1>2. net' = [plugins |-> net.plugins, late |-> net.late, actions |-> net.actions,
              stimuli |-> net.stimuli, changes |-> net.changes - 1, rules |-> net.rules]
    BY <1>1 DEF NetRecord
<1>3. PICK n : n = net.changes - 1 /\ n \in Nat
    BY <1>1 DEF NetRecord
<1>4. net' \in NetRecord
    <2>1. net' = [plugins |-> net.plugins, late |-> net.late, actions |-> net.actions,
                  stimuli |-> net.stimuli, changes |-> n, rules |-> net.rules]
        BY <1>2, <1>3
    <2>. QED
        BY <1>1, <1>3, <2>1 DEF NetRecord
<1>5. chain' = chain
    BY DEF SetConsent
<1>6. ChainInv' /\ Steady
    BY <1>2, <1>5 DEF HooksInv, ChainInv, Steady
<1>7. chain' \in Seq(PluginRecord)
    BY <1>5 DEF HooksInv, HookTypes
<1>. QED
    BY <1>4, <1>6, <1>7, Resting DEF SetConsent

LEMMA HooksRest ==
    ASSUME HooksInv, UNCHANGED hookVars
    PROVE  HooksInv'
BY Resting DEF hookVars, HooksInv, HookTypes, ChainInv, Steady

LEMMA HooksBegin ==
    ASSUME HooksInit
    PROVE  HooksInv
<1>1. /\ net \in NetRecord
      /\ \A k, l \in DOMAIN net.plugins : net.plugins[k].name = net.plugins[l].name => k = l
      /\ \A p, q \in ToSet(net.plugins) \cup net.late :
            p.does = "gate" /\ q.does = "gate" => p.name = q.name
    BY NetsAreSound DEF HooksInit
<1>2. /\ chain = net.plugins /\ chain \in Seq(PluginRecord)
      /\ at = [hook |-> "onStimulusEmit", item |-> 1, cursor |-> 0]
      /\ current = "raw" /\ promised = {} /\ queue = {}
      /\ transformed = <<>> /\ offered = <<>> /\ looked = <<>>
    BY <1>1 DEF HooksInit, Place, NetRecord
<1>3. DOMAIN transformed = {} /\ DOMAIN offered = {} /\ DOMAIN looked = {}
    BY <1>2
<1>4. transformed \in Seq(Shapes) /\ offered \in Seq(OfferRecord)
    BY <1>2
<1>5. HookTypes
    BY <1>1, <1>2, <1>4 DEF HookTypes, HookNames
<1>6. ChainInv
    BY <1>1, <1>2 DEF ChainInv
<1>7. PlaceInv
    BY <1>2, <1>3, LenProperties DEF PlaceInv, Transforming
<1>8. OffersInv
    BY <1>3 DEF OffersInv
<1>9. ItemsInv
    BY <1>3 DEF ItemsInv, Gated, Offers
<1>10. WayInv /\ NoticesInv
    BY <1>2 DEF WayInv, NoticesInv, Transforming
<1>. QED
    BY <1>5, <1>6, <1>7, <1>8, <1>9, <1>10 DEF HooksInv

LEMMA HooksGoOn ==
    ASSUME HooksInv, [HooksNext]_hookVars
    PROVE  HooksInv'
<1>1. ASSUME NEW p \in net.late, Use(p)
      PROVE  HooksInv'
    BY <1>1, UseRests
<1>2. ASSUME NEW a \in DOMAIN consent, NEW given \in {"accepted", "revoked"}, SetConsent(a, given)
      PROVE  HooksInv'
    BY <1>2, ConsentRests
<1>3. ASSUME TransformEnds
      PROVE  HooksInv'
    BY <1>3, StimulusEnds, ActionEnds DEF TransformEnds, Transforming
<1>4. ASSUME OnWorldTick \/ OnBatch
      PROVE  HooksInv'
    BY <1>4, NoticeStarts
<1>5. ASSUME AgentsAct
      PROVE  HooksInv'
    BY <1>5, AgentsHaveActed
<1>6. ASSUME NEW failed \in BOOLEAN, TransformOne(failed)
      PROVE  HooksInv'
    <2>1. at.hook \in {"onStimulusEmit", "onAgentAction"}
        BY <1>6 DEF TransformOne, Transforming
    <2>. QED
        BY <1>6, <2>1, TransformStimulus, TransformAction
<1>7. ASSUME NEW failed \in BOOLEAN, SequentialOne(failed)
      PROVE  HooksInv'
    BY <1>7, SequentialNext
<1>8. ASSUME NEW failed \in BOOLEAN, NEW k \in promised, ParallelEnds(k, failed)
      PROVE  HooksInv'
    BY <1>8, ParallelOne
<1>9. CASE UNCHANGED hookVars
    BY <1>9, HooksRest
<1>. QED
    BY <1>1, <1>2, <1>3, <1>4, <1>5, <1>6, <1>7, <1>8, <1>9 DEF HooksNext

LEMMA HooksShow ==
    ASSUME HooksInv
    PROVE  HooksAreKept
<1>1. ASSUME NEW p \in ToSet(net.plugins)
      PROVE  \E k \in DOMAIN net.plugins : net.plugins[k] = p /\ k \in DOMAIN chain /\ chain[k] = p
    BY DEF ToSet, HooksInv, ChainInv
<1>2. ASSUME NEW hook \in {"onWorldTick", "onAgentActionsBatch"}, Ended(hook)
      PROVE  /\ \A p \in ToSet(net.plugins) : Has(p, hook) => Once(p, Offers(hook, 0))
             /\ InOrder(Offers(hook, 0))
    <2>1. ToldOnce(hook, {})
        <3>1. CASE hook = "onWorldTick"
            BY <1>2, <3>1 DEF HooksInv, NoticesInv, Ended
        <3>2. CASE hook = "onAgentActionsBatch"
            <4>1. at.hook = hook /\ promised \cup queue = {}
                BY <1>2, <3>2 DEF Ended
            <4>2. ToldOnce(hook, promised \cup queue)
                BY <3>2, <4>1 DEF HooksInv, NoticesInv, BeingTold, Transforming
            <4>. QED
                BY <4>1, <4>2
        <3>. QED
            BY <3>1, <3>2
    <2>. QED
        BY <1>1, <2>1 DEF ToldOnce
<1>3. ASSUME NEW item \in DOMAIN transformed
      PROVE  LET calls == Offers("onAgentAction", item)
             IN  /\ \A p \in ToSet(net.plugins) : Has(p, "onAgentAction") => Once(p, calls)
                 /\ HandedOn(calls, item)
                 /\ Kept(calls) = {} => transformed[item] = Start(item)
    BY <1>1, <1>3 DEF HooksInv, ItemsInv, Passed, AllOnce
<1>4. EachPluginOnce
    BY <1>2, <1>3 DEF EachPluginOnce
<1>5. ASSUME NEW i \in DOMAIN offered, offered[i].hook = "onAgentAction", Hidden(offered[i].item),
             Behind(i), offered[i].form # Undefined
      PROVE  offered[i].form.payload \notin Clear
    <2>1. offered[i] \in OfferRecord
        BY DEF HooksInv, HookTypes
    <2>2. PICK item \in Nat : item = offered[i].item
        BY <2>1 DEF OfferRecord
    <2>3. Gated(item) /\ i \in Offers("onAgentAction", item)
        BY <1>5, <2>2 DEF HooksInv, ItemsInv, Offers
    <2>. QED
        BY <1>5, <2>2, <2>3 DEF Gated
<1>6. \A item \in DOMAIN transformed : Hidden(item) /\ transformed[item] # Undefined =>
          transformed[item].payload \notin Clear
    BY DEF HooksInv, ItemsInv, Passed
<1>7. GateIsHeld
    BY <1>5, <1>6 DEF GateIsHeld
<1>. QED
    BY <1>4, <1>7 DEF HooksAreKept

\* For any plugins, actions, rules and consents, whichever hooks fail: in each hook a plugin has
\* it is called exactly once and in its turn, on what the one before it left, and behind the gate
\* nothing that needs a consent is seen without it (PluginRegistry.ts:50-114, 199-253;
\* PrivacyCompliancePlugin.ts:85-127).
THEOREM HooksStayKept == HooksSpec => []HooksAreKept
<1>1. HooksInit => HooksInv
    BY HooksBegin
<1>2. HooksInv /\ [HooksNext]_hookVars => HooksInv'
    BY HooksGoOn
<1>3. HooksInv => HooksAreKept
    BY HooksShow
<1>. QED
    BY <1>1, <1>2, <1>3, PTL DEF HooksSpec
=============================================================================
