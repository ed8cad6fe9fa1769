-------------------------- MODULE WorldEngine_proof --------------------------
(***************************************************************************)
(* Proofs about the engine of a world, for all sets of agents, budgets,      *)
(* iterations and ticks, and any number of runLoop calls.                    *)
(***************************************************************************)
EXTENDS WorldEngine, TLAPS

\* The constants of a specification hold for its numbers and policies.
USE EngineAssumption

-----------------------------------------------------------------------------
(***************************************************************************)
(* Types of the pieces the actions share.                                  *)
(***************************************************************************)
LEMMA AfterType ==
    ASSUME NEW x \in LifecycleActions, NEW s \in AgentStatus
    PROVE  To(x) \in AgentStatus /\ After(x, s) \in AgentStatus
BY DEF LifecycleActions, AgentStatus, To, After

\* What is published is one more event of that agent.
LEMMA PublishType ==
    ASSUME NEW a \in Agents, NEW x \in LifecycleActions, NEW by \in Requesters,
           NEW evs \in [Agents -> Seq(Event)]
    PROVE  Publish(a, x, by, evs) \in [Agents -> Seq(Event)]
<1>1. [type |-> x, by |-> by] \in Event
    BY DEF Event
<1>2. Append(evs[a], [type |-> x, by |-> by]) \in Seq(Event)
    BY <1>1
<1>. QED
    BY <1>2 DEF Publish

LEMMA TransitionType ==
    ASSUME TypeOK, NEW a \in Agents, NEW x \in LifecycleActions,
           NEW by \in Requesters, Transition(a, x, by)
    PROVE  agent' \in [Agents -> AgentStatus] /\ events' \in [Agents -> Seq(Event)]
<1>1. After(x, agent[a]) \in AgentStatus
    BY AfterType DEF TypeOK
<1>2. agent' \in [Agents -> AgentStatus]
    BY <1>1 DEF TypeOK, Transition
<1>3. events' \in [Agents -> Seq(Event)]
    BY PublishType DEF TypeOK, Transition
<1>. QED
    BY <1>2, <1>3

LEMMA DecideType ==
    ASSUME TypeOK, NEW a \in Agents, NEW x \in LifecycleActions,
           NEW by \in Requesters, Decide(a, x, by)
    PROVE  /\ agent' \in [Agents -> AgentStatus]
           /\ wanted' \in [Agents -> AgentStatus]
           /\ events' \in [Agents -> Seq(Event)]
<1>1. After(x, agent[a]) \in AgentStatus
    BY AfterType DEF TypeOK
<1>2. wanted' \in [Agents -> AgentStatus]
    BY <1>1 DEF TypeOK, Decide
<1>. QED
    BY <1>2, TransitionType DEF Decide

LEMMA ApplyPolicyType ==
    ASSUME TypeOK, NEW a \in Agents, ApplyPolicy(a)
    PROVE  /\ agent' \in [Agents -> AgentStatus]
           /\ wanted' \in [Agents -> AgentStatus]
           /\ events' \in [Agents -> Seq(Event)]
<1>1. CASE Policy[a] \in {"pause", "stop"}
    BY <1>1, DecideType DEF ApplyPolicy, LifecycleActions, Requesters
<1>2. CASE Policy[a] \notin {"pause", "stop"}
    BY <1>2 DEF ApplyPolicy, TypeOK
<1>. QED
    BY <1>1, <1>2

LEMMA TransitionAllType ==
    ASSUME TypeOK, NEW who \in SUBSET Agents, NEW x \in LifecycleActions,
           NEW by \in Requesters, TransitionAll(who, x, by)
    PROVE  /\ agent' \in [Agents -> AgentStatus]
           /\ wanted' \in [Agents -> AgentStatus]
           /\ events' \in [Agents -> Seq(Event)]
<1>1. To(x) \in AgentStatus
    BY AfterType DEF AgentStatus
<1>2. agent' \in [Agents -> AgentStatus] /\ wanted' \in [Agents -> AgentStatus]
    BY <1>1 DEF TypeOK, TransitionAll
<1>3. [type |-> x, by |-> by] \in Event
    BY DEF Event
<1>4. \A a \in Agents : Append(events[a], [type |-> x, by |-> by]) \in Seq(Event)
    BY <1>3 DEF TypeOK
<1>5. events' \in [Agents -> Seq(Event)]
    BY <1>4 DEF TypeOK, TransitionAll
<1>. QED
    BY <1>2, <1>5

\* The variables that EnterLoop changes keep their types.
LEMMA EnterLoopType ==
    ASSUME TypeOK, NEW l \in Loops, EnterLoop(l)
    PROVE  /\ status' \in WorldStatus /\ clock' \in Nat /\ busTick' \in Nat
           /\ events' \in [Agents -> Seq(Event)]
           /\ tick' \in [Loops -> Nat] /\ pc' \in [Loops -> LoopPc]
<1>1. NoEvents \in [Agents -> Seq(Event)]
    BY DEF NoEvents
<1>2. CASE MoreTicks(l)
  <2>1. /\ status' = "running" /\ clock' = clock + 1
        /\ busTick' = clock + 1 /\ events' = NoEvents
        /\ tick' = [tick EXCEPT ![l] = clock + 1]
        /\ pc' = [pc EXCEPT ![l] = "hook"]
      BY <1>2 DEF EnterLoop, NewTick, Goto
  <2>2. clock + 1 \in Nat /\ tick' \in [Loops -> Nat]
      BY <2>1 DEF TypeOK
  <2>3. pc' \in [Loops -> LoopPc]
      BY <2>1 DEF TypeOK, LoopPc, InTick
  <2>. QED
      BY <1>1, <2>1, <2>2, <2>3 DEF WorldStatus
<1>3. CASE ~MoreTicks(l)
    BY <1>3 DEF EnterLoop, TypeOK, Goto, WorldStatus, LoopPc
<1>. QED
    BY <1>2, <1>3

-----------------------------------------------------------------------------
(***************************************************************************)
(* Type correctness.  Two facts about the control state are needed: a control  *)
(* agent that is judging is still in the queue, and a person that is thinking   *)
(* has an iteration left.                                                    *)
(***************************************************************************)
JudgeIsVisited == \A l \in Loops : pc[l] = "judge" => queue[l] # {}

ThinkingIsCounted ==
    \A l \in Loops, p \in Persons : work[l][p] = "llm" => done[l][p] < Iterations

TypeInv == TypeOK /\ JudgeIsVisited /\ ThinkingIsCounted

LEMMA TypeInit == Init => TypeInv
<1>. SUFFICES ASSUME Init PROVE TypeInv
    OBVIOUS
<1>1. /\ events \in [Agents -> Seq(Event)] /\ inbox \in [Agents -> Seq(Event)]
      /\ agent \in [Agents -> AgentStatus] /\ wanted \in [Agents -> AgentStatus]
      /\ notified \in [Agents -> AgentStatus \cup {"never"}]
      /\ late \in [Persons -> Nat]
    BY DEF Init, AgentStatus
<1>2. /\ pc \in [Loops -> LoopPc] /\ tick \in [Loops -> Nat]
      /\ queue \in [Loops -> SUBSET Controls]
    BY DEF Init, LoopPc
<1>3. /\ work \in [Loops -> [Persons -> WorkPc]]
      /\ done \in [Loops -> [Persons -> 0..Iterations]]
    BY DEF Init, WorkPc
<1>4. JudgeIsVisited /\ ThinkingIsCounted
    BY DEF Init, JudgeIsVisited, ThinkingIsCounted
<1>5. /\ status \in WorldStatus
      /\ boot \in {"no", "loading", "controls", "federation", "done"}
      /\ stopping \in {"no", "disconnect", "hook"}
      /\ stopCalled \in {"never", "booting", "launched"}
      /\ connected \in BOOLEAN
  <2>1. connected \in BOOLEAN
      BY DEF Init
  <2>. QED
      BY <2>1 DEF Init, WorldStatus
<1>6. /\ registry \subseteq Agents /\ persons \subseteq Persons
      /\ controls \subseteq Controls /\ spent \subseteq Agents
      /\ clock \in Nat /\ busTick \in Nat /\ calls \in 0..MaxHostCalls
    BY DEF Init
<1>. QED
    BY <1>1, <1>2, <1>3, <1>4, <1>5, <1>6 DEF TypeInv, TypeOK

\* The bootstrap and the steps between two ticks.
LEMMA TypeBoot ==
    ASSUME TypeInv, BootStep \/ \E l \in Loops : Continue(l) \/ Quit(l) \/ Finish(l)
    PROVE  TypeInv'
<1>. USE DEF TypeInv
<1>1. CASE Start
    BY <1>1 DEF Start, TypeOK, JudgeIsVisited, ThinkingIsCounted, WorldStatus,
                agentVars, busVars, loopVars, historyVars
<1>2. CASE CreateAgents
  <2>1. /\ agent' \in [Agents -> AgentStatus]
        /\ wanted' \in [Agents -> AgentStatus]
        /\ events' \in [Agents -> Seq(Event)]
      BY <1>2, TransitionAllType
      DEF CreateAgents, Agents, LifecycleActions, Requesters
  <2>. QED
      BY <1>2, <2>1
      DEF CreateAgents, TypeOK, JudgeIsVisited, ThinkingIsCounted, loopVars
<1>3. CASE StartPersons
  <2>1. /\ agent' \in [Agents -> AgentStatus]
        /\ wanted' \in [Agents -> AgentStatus]
        /\ events' \in [Agents -> Seq(Event)]
      BY <1>3, TransitionAllType
      DEF StartPersons, Agents, LifecycleActions, Requesters, TypeOK
  <2>. QED
      BY <1>3, <2>1
      DEF StartPersons, TypeOK, JudgeIsVisited, ThinkingIsCounted, loopVars
<1>4. ASSUME NEW l \in Loops, Launch(l) \/ Continue(l)
      PROVE  TypeInv'
  <2>1. /\ EnterLoop(l)
        /\ boot' \in {boot, "done"}
        /\ UNCHANGED <<stopping, connected, agentVars, inbox, work, done, queue,
                       calls, historyVars>>
      BY <1>4 DEF Launch, Continue
  <2>2. /\ status' \in WorldStatus /\ clock' \in Nat /\ busTick' \in Nat
        /\ events' \in [Agents -> Seq(Event)]
        /\ tick' \in [Loops -> Nat] /\ pc' \in [Loops -> LoopPc]
      BY <2>1, EnterLoopType
  <2>3. TypeOK'
      BY <2>1, <2>2 DEF TypeOK, agentVars, historyVars
  <2>4. \A k \in Loops : pc'[k] = "judge" => pc[k] = "judge"
      BY <2>1 DEF EnterLoop, Goto, TypeOK
  <2>. QED
      BY <2>1, <2>3, <2>4 DEF JudgeIsVisited, ThinkingIsCounted
<1>5. ASSUME NEW l \in Loops, Quit(l) \/ Finish(l)
      PROVE  TypeInv'
    BY <1>5 DEF Quit, Finish, Goto, TypeOK, JudgeIsVisited, ThinkingIsCounted,
                LoopPc, engineVars, agentVars, busVars, historyVars
<1>. QED
    BY <1>1, <1>2, <1>3, <1>4, <1>5 DEF BootStep

\* What the persons do within a tick.
LEMMA TypeAgents ==
    ASSUME TypeInv, NEW l \in Loops, SelectAgents(l) \/ AgentStep(l)
    PROVE  TypeInv'
<1>. USE DEF TypeInv
<1>1. CASE SelectAgents(l)
  <2>1. /\ pc' \in [Loops -> LoopPc]
        /\ work' \in [Loops -> [Persons -> WorkPc]]
        /\ done' \in [Loops -> [Persons -> 0..Iterations]]
      BY <1>1 DEF SelectAgents, Goto, TypeOK, LoopPc, InTick, WorkPc
  <2>2. TypeOK'
      BY <1>1, <2>1
      DEF SelectAgents, TypeOK, unchangedByTick, engineVars, agentVars, busVars
  <2>3. JudgeIsVisited' /\ ThinkingIsCounted'
      BY <1>1
      DEF SelectAgents, Goto, TypeOK, JudgeIsVisited, ThinkingIsCounted
  <2>. QED
      BY <2>2, <2>3
<1>2. ASSUME NEW p \in Persons, SkipTick(l, p)
      PROVE  TypeInv'
  <2>1. /\ agent' \in [Agents -> AgentStatus]
        /\ wanted' \in [Agents -> AgentStatus]
        /\ events' \in [Agents -> Seq(Event)]
      BY <1>2, ApplyPolicyType DEF SkipTick, TypeOK, Agents
  <2>2. /\ work' \in [Loops -> [Persons -> WorkPc]]
        /\ \A k \in Loops, q \in Persons :
              work'[k][q] = "llm" => work[k][q] = "llm"
      BY <1>2 DEF SkipTick, TypeOK, WorkPc
  <2>3. TypeOK'
      BY <1>2, <2>1, <2>2
      DEF SkipTick, TypeOK, unchangedByTick, engineVars
  <2>. QED
      BY <1>2, <2>2, <2>3 DEF SkipTick, JudgeIsVisited, ThinkingIsCounted
<1>3. ASSUME NEW p \in Persons,
             \/ Rest(l, p) \/ GatherContext(l, p) \/ EndIterations(l, p)
             \/ AgentFails(l, p)
      PROVE  TypeInv'
  <2>1. PICK to \in {"context", "done"} : work' = [work EXCEPT ![l][p] = to]
      BY <1>3 DEF Rest, GatherContext, EndIterations, AgentFails
  <2>2. \/ done' = done
        \/ \E n \in {0, 1} : done' = [done EXCEPT ![l][p] = n]
      BY <1>3 DEF Rest, GatherContext, EndIterations, AgentFails
  <2>3. work' \in [Loops -> [Persons -> WorkPc]]
      BY <2>1 DEF TypeOK, WorkPc
  <2>4. done' \in [Loops -> [Persons -> 0..Iterations]]
    <3>1. ASSUME NEW n \in {0, 1}, done' = [done EXCEPT ![l][p] = n]
          PROVE  done' \in [Loops -> [Persons -> 0..Iterations]]
      <4>1. n \in 0..Iterations
          OBVIOUS
      <4>. QED
          BY <3>1, <4>1 DEF TypeOK
    <3>. QED
        BY <2>2, <3>1 DEF TypeOK
  <2>5. \A k \in Loops, q \in Persons :
            work'[k][q] = "llm" => work[k][q] = "llm" /\ done'[k][q] = done[k][q]
      BY <2>1, <2>2 DEF TypeOK
  <2>6. UNCHANGED <<unchangedByTick, agentVars, busVars, pc, tick, queue, wanted,
                    notified, late>>
      BY <1>3 DEF Rest, GatherContext, EndIterations, AgentFails
  <2>7. TypeOK'
      BY <2>3, <2>4, <2>6
      DEF TypeOK, unchangedByTick, engineVars, agentVars, busVars
  <2>. QED
      BY <2>5, <2>6, <2>7 DEF JudgeIsVisited, ThinkingIsCounted
<1>4. ASSUME NEW p \in Persons, NextIteration(l, p)
      PROVE  TypeInv'
  <2>1. work' \in [Loops -> [Persons -> WorkPc]]
      BY <1>4 DEF NextIteration, TypeOK, WorkPc
  <2>2. TypeOK'
      BY <1>4, <2>1
      DEF NextIteration, TypeOK, unchangedByTick, engineVars, agentVars, busVars
  <2>3. ThinkingIsCounted'
      BY <1>4 DEF NextIteration, MayIterate, TypeOK, ThinkingIsCounted
  <2>. QED
      BY <1>4, <2>2, <2>3 DEF NextIteration, JudgeIsVisited
<1>5. ASSUME NEW p \in Persons, Act(l, p)
      PROVE  TypeInv'
  <2>1. work' \in [Loops -> [Persons -> WorkPc]]
      BY <1>5 DEF Act, TypeOK, WorkPc
  <2>2. done' \in [Loops -> [Persons -> 0..Iterations]]
    <3>1. done[l][p] + 1 \in 0..Iterations
        BY <1>5 DEF Act, TypeOK, ThinkingIsCounted
    <3>. QED
        BY <1>5, <3>1 DEF Act, TypeOK
  <2>3. late' \in [Persons -> Nat] /\ spent' \subseteq Agents
      BY <1>5 DEF Act, TypeOK, Agents
  <2>4. TypeOK'
      BY <1>5, <2>1, <2>2, <2>3
      DEF Act, TypeOK, unchangedByTick, engineVars, busVars
  <2>5. ThinkingIsCounted'
      BY <1>5 DEF Act, TypeOK, ThinkingIsCounted
  <2>. QED
      BY <1>5, <2>4, <2>5 DEF Act, JudgeIsVisited
<1>. QED
    BY <1>1, <1>2, <1>3, <1>4, <1>5 DEF AgentStep

\* The rest of the tick.
LEMMA TypeTick ==
    ASSUME TypeInv, NEW l \in Loops,
           \/ BatchSettled(l) \/ BeginApply(l) \/ SkipEvaluation(l)
           \/ BeginEvaluation(l) \/ EndEvaluation(l) \/ EndEvaluations(l)
           \/ BeginControlTicks(l) \/ ControlTick(l) \/ EndTick(l)
           \/ EndApply(l) \/ LoopFails(l) \/ \E a \in Agents : ApplyEvent(l, a)
    PROVE  TypeInv'
<1>. USE DEF TypeInv
<1>1. CASE \/ BatchSettled(l) \/ EndEvaluations(l) \/ EndTick(l) \/ LoopFails(l)
           \/ BeginEvaluation(l)
  <2>1. /\ pc' \in [Loops -> LoopPc]
        /\ \A k \in Loops : pc'[k] = "judge" => pc[k] = "judge" \/ queue[k] # {}
      BY <1>1
      DEF BatchSettled, EndEvaluations, EndTick, LoopFails, BeginEvaluation, Goto,
          TypeOK, LoopPc, InTick
  <2>2. UNCHANGED <<unchangedByTick, agentVars, busVars, tick, work, done, queue,
                    wanted, notified, late>>
      BY <1>1
      DEF BatchSettled, EndEvaluations, EndTick, LoopFails, BeginEvaluation
  <2>3. TypeOK'
      BY <2>1, <2>2 DEF TypeOK, unchangedByTick, engineVars, agentVars, busVars
  <2>. QED
      BY <2>1, <2>2, <2>3 DEF JudgeIsVisited, ThinkingIsCounted
<1>2. CASE BeginApply(l)
  <2>1. inbox' \in [Agents -> Seq(Event)]
      BY <1>2 DEF BeginApply, ReadInbox, NoEvents, TypeOK
  <2>2. /\ pc' \in [Loops -> LoopPc]
        /\ \A k \in Loops : pc'[k] = "judge" => pc[k] = "judge"
      BY <1>2 DEF BeginApply, Goto, TypeOK, LoopPc, InTick
  <2>3. TypeOK'
      BY <1>2, <2>1, <2>2
      DEF BeginApply, TypeOK, unchangedByTick, engineVars, agentVars
  <2>. QED
      BY <1>2, <2>2, <2>3 DEF BeginApply, JudgeIsVisited, ThinkingIsCounted
<1>3. CASE SkipEvaluation(l) \/ ControlTick(l)
  <2>1. PICK c \in Controls :
            /\ ApplyPolicy(c) \/ UNCHANGED <<agent, events, wanted>>
            /\ Leave(l, c)
    <3>1. Visited(l) \in queue[l]
        BY <1>3 DEF SkipEvaluation, ControlTick, Visited
    <3>2. Visited(l) \in Controls
        BY <3>1 DEF TypeOK
    <3>. QED
        BY <1>3, <3>2 DEF SkipEvaluation, ControlTick
  <2>2. /\ agent' \in [Agents -> AgentStatus]
        /\ wanted' \in [Agents -> AgentStatus]
        /\ events' \in [Agents -> Seq(Event)]
      BY <2>1, ApplyPolicyType DEF TypeOK, Agents
  <2>3. queue' \in [Loops -> SUBSET Controls]
      BY <2>1 DEF Leave, TypeOK
  <2>4. UNCHANGED <<unchangedByTick, registry, persons, controls, spent, busTick,
                    inbox, pc, tick, work, done, notified, late>>
      BY <1>3 DEF SkipEvaluation, ControlTick
  <2>5. TypeOK'
      BY <2>2, <2>3, <2>4 DEF TypeOK, unchangedByTick, engineVars
  <2>6. pc[l] # "judge"
      BY <1>3 DEF SkipEvaluation, ControlTick
  <2>. QED
      BY <2>1, <2>4, <2>5, <2>6 DEF Leave, TypeOK, JudgeIsVisited, ThinkingIsCounted
<1>4. CASE EndEvaluation(l)
  <2>1. Visited(l) \in Controls
      BY <1>4 DEF EndEvaluation, Visited, JudgeIsVisited, TypeOK
  <2>2. events' \in [Agents -> Seq(Event)] /\ wanted' \in [Agents -> AgentStatus]
    <3>1. CASE UNCHANGED <<events, wanted>>
        BY <3>1 DEF TypeOK
    <3>2. CASE Command(Visited(l))
      <4>1. PICK a \in Persons, x \in {"pause", "resume", "stop"} :
                /\ events' = Publish(a, x, Visited(l), events)
                /\ wanted' = [wanted EXCEPT ![a] = To(x)]
          BY <3>2 DEF Command
      <4>2. a \in Agents /\ x \in LifecycleActions /\ Visited(l) \in Requesters
          BY <2>1 DEF Agents, LifecycleActions, Requesters
      <4>3. To(x) \in AgentStatus
          BY <4>2, AfterType DEF AgentStatus
      <4>. QED
          BY <4>1, <4>2, <4>3, PublishType DEF TypeOK
    <3>. QED
        BY <1>4, <3>1, <3>2 DEF EndEvaluation
  <2>3. queue' \in [Loops -> SUBSET Controls] /\ spent' \subseteq Agents
      BY <1>4, <2>1 DEF EndEvaluation, Leave, TypeOK, Agents
  <2>4. pc' \in [Loops -> LoopPc]
      BY <1>4 DEF EndEvaluation, Goto, TypeOK, LoopPc, InTick
  <2>5. TypeOK'
      BY <1>4, <2>2, <2>3, <2>4
      DEF EndEvaluation, TypeOK, unchangedByTick, engineVars
  <2>. QED
      BY <1>4, <2>5
      DEF EndEvaluation, Goto, Leave, TypeOK, JudgeIsVisited, ThinkingIsCounted
<1>5. CASE BeginControlTicks(l) \/ EndApply(l)
  <2>1. /\ \E to \in InTick : pc' = [pc EXCEPT ![l] = to]
        /\ queue' = queue \/ queue' = [queue EXCEPT ![l] = controls]
      BY <1>5 DEF BeginControlTicks, EndApply, Goto, InTick
  <2>2. UNCHANGED <<unchangedByTick, agentVars, busVars, tick, work, done, wanted,
                    notified, late>>
      BY <1>5 DEF BeginControlTicks, EndApply
  <2>3. TypeOK'
    <3>1. pc' \in [Loops -> LoopPc] /\ queue' \in [Loops -> SUBSET Controls]
        BY <2>1 DEF TypeOK, LoopPc
    <3>. QED
        BY <2>2, <3>1
        DEF TypeOK, unchangedByTick, engineVars, agentVars, busVars
  <2>4. JudgeIsVisited'
      BY <1>5 DEF BeginControlTicks, EndApply, Goto, TypeOK, JudgeIsVisited
  <2>. QED
      BY <2>2, <2>3, <2>4 DEF ThinkingIsCounted
<1>6. ASSUME NEW a \in Agents, ApplyEvent(l, a)
      PROVE  TypeInv'
  <2>1. /\ inbox[a] # <<>>
        /\ inbox[a] \in Seq(Event)
        /\ inbox' = [inbox EXCEPT ![a] = Tail(@)]
      BY <1>6 DEF ApplyEvent, TypeOK
  <2>2. Head(inbox[a]) \in Event /\ Tail(inbox[a]) \in Seq(Event)
      BY <2>1
  <2>3. PICK x \in LifecycleActions, by \in Requesters :
            x = Head(inbox[a]).type /\ by = Head(inbox[a]).by
      BY <2>2 DEF Event
  <2>4. inbox' \in [Agents -> Seq(Event)]
      BY <2>1, <2>2 DEF TypeOK
  <2>5. agent' \in [Agents -> AgentStatus] /\ events' \in [Agents -> Seq(Event)]
      BY <1>6, <2>3, TransitionType DEF ApplyEvent, TypeOK
  <2>6. /\ registry' \subseteq Agents /\ persons' \subseteq Persons
      BY <1>6 DEF ApplyEvent, Unregister, TypeOK
  <2>7. notified' \in [Agents -> AgentStatus \cup {"never"}]
    <3>1. After(x, agent[a]) \in AgentStatus
        BY <2>3, AfterType DEF TypeOK
    <3>2. notified' = notified \/ notified' = [notified EXCEPT ![a] = After(x, agent[a])]
        BY <1>6, <2>3 DEF ApplyEvent, Report
    <3>. QED
        BY <3>1, <3>2 DEF TypeOK
  <2>8. TypeOK'
      BY <1>6, <2>4, <2>5, <2>6, <2>7
      DEF ApplyEvent, TypeOK, unchangedByTick, engineVars, loopVars
  <2>. QED
      BY <1>6, <2>8 DEF ApplyEvent, loopVars, JudgeIsVisited, ThinkingIsCounted
<1>. QED
    BY <1>1, <1>2, <1>3, <1>4, <1>5, <1>6

\* What the host asks for.
LEMMA TypeHost ==
    ASSUME TypeInv, HostStep \/ StopStep
    PROVE  TypeInv'
<1>. USE DEF TypeInv
<1>1. CASE PauseWorld
    BY <1>1 DEF PauseWorld, HostCall, TypeOK, JudgeIsVisited, ThinkingIsCounted,
                WorldStatus, agentVars, busVars, loopVars, historyVars
<1>2. ASSUME NEW l \in Loops, ResumeWorld(l)
      PROVE  TypeInv'
  <2>1. /\ status' \in WorldStatus /\ clock' \in Nat /\ busTick' \in Nat
        /\ events' \in [Agents -> Seq(Event)]
        /\ tick' \in [Loops -> Nat] /\ pc' \in [Loops -> LoopPc]
      BY <1>2, EnterLoopType DEF ResumeWorld
  <2>2. TypeOK'
      BY <1>2, <2>1 DEF ResumeWorld, HostCall, TypeOK, agentVars, historyVars
  <2>3. \A k \in Loops : pc'[k] = "judge" => pc[k] = "judge"
      BY <1>2 DEF ResumeWorld, EnterLoop, Goto, TypeOK
  <2>. QED
      BY <1>2, <2>2, <2>3 DEF ResumeWorld, JudgeIsVisited, ThinkingIsCounted
<1>3. CASE StopWorld
  <2>1. /\ agent' \in [Agents -> AgentStatus]
        /\ wanted' \in [Agents -> AgentStatus]
        /\ events' \in [Agents -> Seq(Event)]
      BY <1>3, TransitionAllType
      DEF StopWorld, LifecycleActions, Requesters, TypeOK
  <2>2. stopCalled' \in {"never", "booting", "launched"}
      BY <1>3 DEF StopWorld, TypeOK
  <2>. QED
      BY <1>3, <2>1, <2>2
      DEF StopWorld, HostCall, TypeOK, JudgeIsVisited, ThinkingIsCounted,
          WorldStatus, loopVars
<1>4. CASE Disconnected
    BY <1>4 DEF Disconnected, TypeOK, JudgeIsVisited, ThinkingIsCounted,
                agentVars, busVars, loopVars, historyVars
<1>5. CASE Cleared
    BY <1>5 DEF Cleared, NoEvents, TypeOK, JudgeIsVisited, ThinkingIsCounted,
                loopVars, historyVars
<1>6. ASSUME NEW a \in Agents, HostCommands(a) \/ StopAgent(a)
      PROVE  TypeInv'
  <2>1. PICK x \in {"pause", "resume", "stop"} :
            Decide(a, x, "host") /\ Report(a, x)
      BY <1>6 DEF HostCommands, StopAgent
  <2>2. /\ agent' \in [Agents -> AgentStatus]
        /\ wanted' \in [Agents -> AgentStatus]
        /\ events' \in [Agents -> Seq(Event)]
      BY <2>1, DecideType DEF LifecycleActions, Requesters
  <2>3. notified' \in [Agents -> AgentStatus \cup {"never"}]
    <3>1. After(x, agent[a]) \in AgentStatus
        BY AfterType DEF TypeOK, LifecycleActions
    <3>. QED
        BY <2>1, <3>1 DEF Report, TypeOK
  <2>4. /\ registry' \subseteq Agents /\ persons' \subseteq Persons
        /\ controls' \subseteq Controls /\ calls' \in 0..MaxHostCalls
      BY <1>6 DEF HostCommands, StopAgent, HostCall, Unregister, TypeOK
  <2>5. UNCHANGED <<engineVars, spent, busTick, inbox, loopVars, late, stopCalled>>
      BY <1>6 DEF HostCommands, StopAgent
  <2>6. TypeOK'
      BY <2>2, <2>3, <2>4, <2>5 DEF TypeOK, engineVars, loopVars
  <2>. QED
      BY <2>5, <2>6 DEF loopVars, JudgeIsVisited, ThinkingIsCounted
<1>. QED
    BY <1>1, <1>2, <1>3, <1>4, <1>5, <1>6 DEF HostStep, StopStep

LEMMA TypeNext == TypeInv /\ [Next]_vars => TypeInv'
<1>1. ASSUME TypeInv, UNCHANGED vars
      PROVE  TypeInv'
    BY <1>1 DEF TypeInv, TypeOK, JudgeIsVisited, ThinkingIsCounted, vars,
                engineVars, agentVars, busVars, loopVars, historyVars
<1>. QED
    BY <1>1, TypeBoot, TypeAgents, TypeTick, TypeHost
    DEF Next, LoopStep, TickStep, ApplyStep

\* The variables of the engine keep their types, for every instance.
THEOREM TypeCorrect == Spec => []TypeOK
<1>1. TypeInv => TypeOK
    BY DEF TypeInv
<1>. QED
    BY <1>1, TypeInit, TypeNext, PTL DEF Spec

THEOREM TypeInvariant == Spec => []TypeInv
BY TypeInit, TypeNext, PTL DEF Spec

-----------------------------------------------------------------------------
(***************************************************************************)
(* The clock of a world: it never passes maxTicks, whatever the host does,    *)
(* and as long as the host does not resume a paused world the engine           *)
(* implements SimulationClock.                                              *)
(***************************************************************************)
\* Only the top of the loop moves the clock, and only below maxTicks.
LEMMA ClockStep ==
    ASSUME TypeOK, [Next]_vars
    PROVE  \/ clock' = clock
           \/ clock < MaxTicks /\ clock' = clock + 1
<1>1. ASSUME NEW l \in Loops, EnterLoop(l)
      PROVE  \/ clock' = clock
             \/ clock < MaxTicks /\ clock' = clock + 1
    BY <1>1 DEF EnterLoop, MoreTicks
<1>2. CASE BootStep
    BY <1>1, <1>2 DEF BootStep, Start, CreateAgents, StartPersons, Launch
<1>3. CASE StopStep \/ HostStep
    BY <1>1, <1>3
    DEF StopStep, Disconnected, Cleared, HostStep, PauseWorld, ResumeWorld,
        StopWorld, HostCommands, StopAgent, engineVars
<1>4. ASSUME NEW l \in Loops, LoopStep(l) \/ LoopFails(l) \/ ApplyStep(l)
      PROVE  \/ clock' = clock
             \/ clock < MaxTicks /\ clock' = clock + 1
  <2>1. CASE Continue(l)
      BY <1>1, <2>1 DEF Continue
  <2>2. CASE Quit(l) \/ Finish(l)
      BY <2>2 DEF Quit, Finish, engineVars
  <2>3. CASE TickStep(l) \/ LoopFails(l) \/ ApplyStep(l)
      BY <2>3
      DEF TickStep, AgentStep, ApplyStep, SelectAgents, SkipTick, Rest,
          GatherContext, NextIteration, Act, EndIterations, AgentFails,
          BatchSettled, BeginApply, SkipEvaluation, BeginEvaluation,
          EndEvaluation, EndEvaluations, BeginControlTicks, ControlTick, EndTick,
          LoopFails, EndApply, ApplyEvent, unchangedByTick, engineVars
  <2>. QED
      BY <1>4, <2>1, <2>2, <2>3 DEF LoopStep
<1>5. CASE UNCHANGED vars
    BY <1>5 DEF vars, engineVars
<1>. QED
    BY <1>2, <1>3, <1>4, <1>5 DEF Next

\* Two loops that pause() and resume() have left running both test the clock and
\* advance it; between the test and the step nothing is awaited.
THEOREM ClockBound == Spec => []ClockWithinMaxTicks
<1>1. Init => ClockWithinMaxTicks
    BY EngineAssumption DEF Init, ClockWithinMaxTicks
<1>2. TypeInv /\ ClockWithinMaxTicks /\ [Next]_vars => ClockWithinMaxTicks'
    BY ClockStep, EngineAssumption DEF TypeInv, TypeOK, ClockWithinMaxTicks
<1>. QED
    BY <1>1, <1>2, TypeInvariant, PTL DEF Spec

-----------------------------------------------------------------------------
(***************************************************************************)
(* A running world advances.                                               *)
(***************************************************************************)
\* A step of a tick neither starts nor ends it, except for the last.
LEMMA TickKeepsBusy ==
    ASSUME TypeOK, NEW l \in Loops, TickStep(l) \/ ApplyStep(l), ~EndTick(l)
    PROVE  /\ pc[l] \in InTick /\ pc'[l] \in InTick
           /\ \A k \in Loops \ {l} : pc'[k] = pc[k]
           /\ DOMAIN pc' = Loops
           /\ UNCHANGED <<status, clock, boot>>
<1>1. UNCHANGED <<status, clock, boot>>
    BY DEF TickStep, AgentStep, ApplyStep, SelectAgents, SkipTick, Rest,
           GatherContext, NextIteration, Act, EndIterations, AgentFails,
           BatchSettled, BeginApply, SkipEvaluation, BeginEvaluation,
           EndEvaluation, EndEvaluations, BeginControlTicks, ControlTick,
           EndApply, ApplyEvent, unchangedByTick, engineVars
<1>2. pc[l] \in InTick
    BY DEF TickStep, AgentStep, ApplyStep, SelectAgents, SkipTick, Rest,
           GatherContext, NextIteration, Act, EndIterations, AgentFails,
           BatchSettled, BeginApply, SkipEvaluation, BeginEvaluation,
           EndEvaluation, EndEvaluations, BeginControlTicks, ControlTick,
           EndApply, ApplyEvent, InTick
<1>3. pc' = pc \/ \E to \in InTick : pc' = [pc EXCEPT ![l] = to]
    BY DEF TickStep, AgentStep, ApplyStep, SelectAgents, SkipTick, Rest,
           GatherContext, NextIteration, Act, EndIterations, AgentFails,
           BatchSettled, BeginApply, SkipEvaluation, BeginEvaluation,
           EndEvaluation, EndEvaluations, BeginControlTicks, ControlTick,
           EndApply, ApplyEvent, InTick, Goto, loopVars
<1>. QED
    BY <1>1, <1>2, <1>3 DEF TypeOK

\* Only the top of the loop says "running", of a loop that then begins a tick; such
\* a loop leaves with the status, also when others that pause() left behind end.
RunningInv == status = "running" => \E l \in Loops : pc[l] \in InTick \cup {"sleep"}

LEMMA RunningStep ==
    ASSUME LoopErrors = FALSE, TypeOK, RunningInv, [Next]_vars
    PROVE  RunningInv'
<1>1. ASSUME NEW l \in Loops, EnterLoop(l)
      PROVE  RunningInv'
    BY <1>1 DEF EnterLoop, Goto, RunningInv, TypeOK, InTick
<1>2. ASSUME NEW l \in Loops, TickStep(l) \/ ApplyStep(l), ~EndTick(l)
      PROVE  RunningInv'
  <2>1. pc'[l] \in InTick
      BY <1>2, TickKeepsBusy
  <2>. QED
      BY <2>1 DEF RunningInv
<1>3. ASSUME NEW l \in Loops, EndTick(l)
      PROVE  RunningInv'
    BY <1>3 DEF EndTick, Goto, RunningInv, TypeOK
<1>4. ASSUME NEW l \in Loops, Quit(l) \/ Finish(l)
      PROVE  RunningInv'
    BY <1>4 DEF Quit, Finish, MayContinue, Goto, RunningInv, TypeOK, InTick, engineVars
<1>5. CASE Start \/ CreateAgents \/ StartPersons
    BY <1>5 DEF Start, CreateAgents, StartPersons, loopVars, RunningInv
<1>6. CASE StopStep \/ PauseWorld \/ StopWorld \/ UNCHANGED vars
    BY <1>6 DEF StopStep, Disconnected, Cleared, PauseWorld, StopWorld, loopVars,
                RunningInv, vars, engineVars
<1>7. ASSUME NEW a \in Agents, HostCommands(a) \/ StopAgent(a)
      PROVE  RunningInv'
    BY <1>7 DEF HostCommands, StopAgent, loopVars, RunningInv, engineVars
<1>8. \A l \in Loops : ~LoopFails(l)
    BY DEF LoopFails
<1>. QED
    BY <1>1, <1>2, <1>3, <1>4, <1>5, <1>6, <1>7, <1>8
    DEF Next, BootStep, Launch, HostStep, ResumeWorld, LoopStep, TickStep, ApplyStep,
        Continue

\* Unless an error that nothing catches ends it, a world that says it is running has
\* a loop to advance it, however pause(), resume() and stop() are called: a resumed
\* world gets a loop of its own and no loop ends while the status asks it to go on.
THEOREM RunningHasLoop ==
    ASSUME LoopErrors = FALSE
    PROVE  Spec => []RunningWorldHasLoop
<1>1. Init => RunningInv
    BY DEF Init, RunningInv
<1>2. TypeInv /\ RunningInv /\ [Next]_vars => RunningInv'
    BY RunningStep DEF TypeInv
<1>3. RunningInv => RunningWorldHasLoop
    BY DEF RunningInv, RunningWorldHasLoop, InTick
<1>. QED
    BY <1>1, <1>2, <1>3, TypeInvariant, PTL DEF Spec

-----------------------------------------------------------------------------
(***************************************************************************)
(* The refinement.  Without resume() the one call of runLoop is the one of    *)
(* start(), made when the bootstrap is over.                                *)
(***************************************************************************)
Used == {l \in Loops : pc[l] # "unused"}

SingleLoop ==
    /\ boot # "done" => Used = {}
    /\ \A k, l \in Used : k = l

IdleBeforeStart == boot = "no" <=> status = "idle"

ClockInv == TypeInv /\ ClockWithinMaxTicks /\ SingleLoop /\ IdleBeforeStart

LEMMA ClockInvInit == Init => ClockInv
BY TypeInit, EngineAssumption
DEF Init, ClockInv, ClockWithinMaxTicks, SingleLoop, Used, IdleBeforeStart

\* Each step keeps the invariant and is a step of SimulationClock or a stutter.
LEMMA ClockInvStep ==
    ASSUME "resume" \notin HostApi, ClockInv, [Next]_vars
    PROVE  ClockInv' /\ [Clock!ClockNext]_(Clock!clockVars)
<1>1. TypeInv' /\ ClockWithinMaxTicks'
  <2>1. TypeInv' /\ TypeInv /\ TypeOK /\ ClockWithinMaxTicks
      BY TypeNext DEF ClockInv, TypeInv
  <2>. QED
      BY <2>1, ClockStep, EngineAssumption DEF TypeOK, ClockWithinMaxTicks
<1>. SUFFICES SingleLoop' /\ IdleBeforeStart' /\ [Clock!ClockNext]_(Clock!clockVars)
    BY <1>1 DEF ClockInv
<1>. USE DEF ClockInv, TypeInv
<1>2. CASE Start
  <2>1. Used' = Used /\ InFlight' = InFlight
      BY <1>2 DEF Start, loopVars, Used, InFlight
  <2>2. Clock!Bootstrap
      BY <1>2, <2>1 DEF Start, Clock!Bootstrap, IdleBeforeStart
  <2>. QED
      BY <1>2, <2>1, <2>2
      DEF Start, SingleLoop, IdleBeforeStart, Clock!ClockNext
<1>3. CASE CreateAgents \/ StartPersons
  <2>1. /\ Used' = Used /\ InFlight' = InFlight
        /\ UNCHANGED <<status, clock>>
        /\ boot # "done" /\ boot' # "done" /\ boot # "no" /\ boot' # "no"
      BY <1>3 DEF CreateAgents, StartPersons, loopVars, Used, InFlight
  <2>. QED
      BY <2>1 DEF SingleLoop, IdleBeforeStart, Clock!clockVars
<1>4. ASSUME NEW l \in Loops, Launch(l) \/ Continue(l)
      PROVE  /\ SingleLoop' /\ IdleBeforeStart'
             /\ Clock!ClockNext
  <2>1. /\ EnterLoop(l) /\ boot' = "done"
        /\ boot # "no" /\ \A k \in Loops \ {l} : pc[k] = "unused"
        /\ pc[l] \in {"unused", "sleep"}
    <3>1. CASE Launch(l)
        BY <3>1 DEF Launch, SingleLoop, Used
    <3>2. CASE Continue(l)
        BY <3>2 DEF Continue, SingleLoop, Used
    <3>. QED
        BY <1>4, <3>1, <3>2
  <2>2. status # "idle" /\ status' # "idle"
      BY <2>1 DEF IdleBeforeStart, EnterLoop
  <2>3. Used' = {l} /\ InFlight = {}
    <3>1. pc'[l] # "unused" /\ \A k \in Loops \ {l} : pc'[k] = pc[k]
        BY <2>1 DEF EnterLoop, Goto, TypeOK
    <3>2. Used' = {l}
        BY <2>1, <3>1 DEF Used
    <3>3. InFlight = {}
        BY <2>1 DEF InFlight, InTick
    <3>. QED
        BY <3>2, <3>3
  <2>4. Clock!Proceed
    <3>1. CASE MoreTicks(l)
      <4>1. l \in InFlight'
          BY <2>1, <3>1 DEF EnterLoop, MoreTicks, Goto, InFlight, InTick, TypeOK
      <4>. QED
          BY <2>1, <2>3, <3>1, <4>1 DEF EnterLoop, MoreTicks, Clock!Proceed
    <3>2. CASE ~MoreTicks(l)
      <4>1. InFlight' = {}
          BY <2>1, <3>2 DEF EnterLoop, Goto, InFlight, InTick, TypeOK
      <4>2. clock = MaxTicks
          BY <3>2, EngineAssumption DEF MoreTicks, ClockWithinMaxTicks, TypeOK
      <4>. QED
          BY <2>1, <2>3, <3>2, <4>1, <4>2 DEF EnterLoop, MoreTicks, Clock!Proceed
    <3>. QED
        BY <3>1, <3>2
  <2>5. Clock!Launch \/ Clock!NextTick
    <3>1. CASE Launch(l)
        BY <2>1, <2>2, <2>4, <3>1 DEF Launch, Clock!Launch
    <3>2. CASE Continue(l)
      <4>1. boot = "done"
          BY <3>2 DEF Continue, SingleLoop, Used
      <4>. QED
          BY <2>1, <2>4, <3>2, <4>1 DEF Continue, MayContinue, Clock!NextTick
    <3>. QED
        BY <1>4, <3>1, <3>2
  <2>. QED
      BY <2>1, <2>2, <2>3, <2>5 DEF SingleLoop, IdleBeforeStart, Clock!ClockNext
<1>5. ASSUME NEW l \in Loops, EndTick(l) \/ LoopFails(l)
      PROVE  /\ SingleLoop' /\ IdleBeforeStart'
             /\ Clock!ClockNext
  <2>1. /\ pc[l] \in InTick
        /\ \E to \in {"sleep", "finished"} : pc' = [pc EXCEPT ![l] = to]
        /\ UNCHANGED <<status, clock, boot>>
      BY <1>5 DEF EndTick, LoopFails, Goto, InTick, unchangedByTick, engineVars
  <2>2. Used' = Used /\ l \in InFlight /\ InFlight' = {}
    <3>1. \A k \in Loops : IF k = l THEN pc'[k] \in {"sleep", "finished"}
                                   ELSE pc'[k] = pc[k]
        BY <2>1 DEF TypeOK
    <3>2. Used' = Used /\ l \in InFlight /\ l \in Used
        BY <2>1, <3>1 DEF Used, InFlight, InTick
    <3>3. \A k \in InFlight : k = l
        BY <3>2 DEF Used, InFlight, InTick, SingleLoop
    <3>. QED
        BY <3>1, <3>2, <3>3 DEF InFlight, InTick
  <2>3. Clock!EndTick
      BY <2>1, <2>2 DEF Clock!EndTick
  <2>. QED
      BY <2>1, <2>2, <2>3 DEF SingleLoop, IdleBeforeStart, Clock!ClockNext
<1>6. ASSUME NEW l \in Loops, TickStep(l) \/ ApplyStep(l), ~EndTick(l)
      PROVE  /\ SingleLoop' /\ IdleBeforeStart'
             /\ UNCHANGED Clock!clockVars
  <2>1. Used' = Used /\ InFlight' = InFlight /\ UNCHANGED <<status, clock, boot>>
      BY <1>6, TickKeepsBusy DEF Used, InFlight, InTick
  <2>. QED
      BY <2>1 DEF SingleLoop, IdleBeforeStart, Clock!clockVars
<1>7. ASSUME NEW l \in Loops, Quit(l) \/ Finish(l)
      PROVE  /\ SingleLoop' /\ IdleBeforeStart'
             /\ UNCHANGED Clock!clockVars
  <2>1. Used' = Used /\ InFlight' = InFlight /\ UNCHANGED <<status, clock, boot>>
      BY <1>7 DEF Quit, Finish, Goto, Used, InFlight, InTick, TypeOK, engineVars
  <2>. QED
      BY <2>1 DEF SingleLoop, IdleBeforeStart, Clock!clockVars
<1>8. CASE PauseWorld \/ StopWorld
  <2>1. /\ Used' = Used /\ InFlight' = InFlight
        /\ status' \in {"paused", "stopped"} /\ UNCHANGED <<clock, boot>>
        /\ boot # "no"
      BY <1>8 DEF PauseWorld, StopWorld, HostCall, loopVars, Used, InFlight
  <2>2. Clock!HostHalts
      BY <2>1 DEF Clock!HostHalts, IdleBeforeStart
  <2>. QED
      BY <2>1, <2>2 DEF SingleLoop, IdleBeforeStart, Clock!ClockNext
<1>9. ASSUME \/ StopStep
             \/ \E a \in Agents : HostCommands(a) \/ StopAgent(a)
             \/ UNCHANGED vars
      PROVE  /\ SingleLoop' /\ IdleBeforeStart'
             /\ UNCHANGED Clock!clockVars
  <2>1. Used' = Used /\ InFlight' = InFlight /\ UNCHANGED <<status, clock, boot>>
      BY <1>9 DEF StopStep, Disconnected, Cleared, HostCommands, StopAgent, vars,
                  engineVars, loopVars, Used, InFlight
  <2>. QED
      BY <2>1 DEF SingleLoop, IdleBeforeStart, Clock!clockVars
<1>10. \A l \in Loops : ~ResumeWorld(l)
    BY DEF ResumeWorld, HostCall
<1>. QED
    BY <1>2, <1>3, <1>4, <1>5, <1>6, <1>7, <1>8, <1>9, <1>10
    DEF Next, BootStep, HostStep, LoopStep, TickStep, ApplyStep

\* The engine of a world that is never resumed has the single clock that
\* SimulationClock describes, however many agents act, fail or are stopped.
THEOREM EngineImplementsClock ==
    ASSUME "resume" \notin HostApi
    PROVE  Spec => ImplementsClock
<1>1. Init => Clock!ClockInit
    BY DEF Init, Clock!ClockInit, InFlight, InTick
<1>2. Spec => [][Clock!ClockNext]_(Clock!clockVars)
    BY ClockInvInit, ClockInvStep, PTL DEF Spec
<1>. QED
    BY <1>1, <1>2, PTL DEF Spec, ImplementsClock, Clock!ClockSpec

-----------------------------------------------------------------------------
(***************************************************************************)
(* What the engine promises about persons that are stopped, paused or at      *)
(* work: what they still do, what plugins and lists know of them between two   *)
(* ticks, what a completed stop() leaves, and what apply() makes of decisions.  *)
(***************************************************************************)

(***************************************************************************)
(* The inductive invariants.                                               *)
(***************************************************************************)
\* A person is at work only within the batch of its loop's tick.
WorkIsInBatch ==
    \A l \in Loops, p \in Persons :
        work[l][p] \in {"queued", "context", "llm"} => pc[l] = "agents"

\* A person that has taken its late action is stopped and thinks nowhere.
LateIsOver ==
    \A p \in Persons : late[p] # 0 =>
        /\ late[p] = 1
        /\ agent[p] = "stopped"
        /\ \A l \in Loops : work[l][p] # "llm"

LateInv == WorkIsInBatch /\ LateIsOver

\* A stop() is under way only if it was called; one called after the bootstrap
\* has stopped every agent, since those that had left the registry were stopped.
StopInv ==
    /\ stopCalled = "never" => stopping = "no"
    /\ boot \in {"controls", "federation", "done"} /\ stopCalled # "booting" =>
          \A a \in Agents \ registry : agent[a] = "stopped"
    /\ stopCalled = "launched" =>
          /\ boot = "done"
          /\ \A a \in Agents : agent[a] = "stopped"
          /\ stopping \in {"hook", "no"} => ~connected
          /\ stopping = "no" => registry = {} /\ persons = {} /\ controls = {}

\* The phases of a tick before apply() reads the messages of the tick.
Unread == {"hook", "agents", "transform"}

\* What the tick in progress has yet to handle for the agent a.
Pending(a) ==
    IF ~Suspended THEN inbox[a]
    ELSE IF \E l \in Loops : pc[l] \in Unread THEN events[a] ELSE <<>>

Told(p) == notified[p] \notin {"never", "idle"} => notified[p] = agent[p]

HasStop(s) == \E i \in 1..Len(s) : s[i].type = "stop"

\* Outside of stop() the bus is at the tick of the loop until apply() has read it.
BusIsCurrent ==
    /\ boot # "done" => busTick = 0
    /\ \A l \in Loops : pc[l] \in Unread => busTick = tick[l] /\ busTick # 0

\* Persons in the lists are registered; outside of them they are stopped.
ListsAgree ==
    /\ persons \subseteq registry
    /\ boot \in {"no", "loading"} =>
          registry = {} /\ \A p \in Persons : agent[p] = "idle"
    /\ boot \in {"federation", "done"} => \A p \in Persons : agent[p] # "idle"
    /\ boot \in {"controls", "federation", "done"} =>
          \A p \in Persons \ persons : agent[p] = "stopped"

\* What plugins do not know of p, or that p is to leave, is still to be handled.
News(p) ==
    /\ ~Told(p) => p \in registry /\ Pending(p) # <<>>
    /\ p \in persons /\ agent[p] = "stopped" => HasStop(Pending(p))

\* An error that ends the loop takes the news with it.
NewsIsPending == (\A l \in Loops : pc[l] # "finished") => \A p \in Persons : News(p)

AppliedInv == stopCalled = "never" => BusIsCurrent /\ ListsAgree /\ NewsIsPending

-----------------------------------------------------------------------------
(***************************************************************************)
(* Stopped is final.                                                       *)
(***************************************************************************)
LEMMA AfterStopped ==
    ASSUME NEW x \in LifecycleActions
    PROVE  /\ After(x, "stopped") = "stopped"
           /\ ~Legal(x, "stopped")
           /\ \A s \in AgentStatus : /\ After("stop", s) = "stopped"
                                     /\ s # "stopped" /\ x # "stop" => After(x, s) # "stopped"
                                     /\ s # "idle" => After(x, s) # "idle"
BY DEF LifecycleActions, AgentStatus, After, Legal, From, To

\* One agent takes a lifecycle action, or all those it is legal for.
Moves(a, x) == agent' = [agent EXCEPT ![a] = After(x, @)]
MoveAll(who, x) ==
    agent' = [a \in Agents |-> IF a \in who /\ Legal(x, agent[a]) THEN To(x) ELSE agent[a]]

LEMMA PolicyMoves ==
    ASSUME NEW a \in Agents, ApplyPolicy(a)
    PROVE  agent' = agent \/ \E x \in LifecycleActions : Moves(a, x)
BY DEF ApplyPolicy, Decide, Transition, Moves, LifecycleActions

LEMMA TransitionAllMoves ==
    ASSUME NEW who, NEW x \in LifecycleActions, NEW by, TransitionAll(who, x, by),
           who \subseteq Agents
    PROVE  MoveAll(who, x)
BY DEF TransitionAll, MoveAll

LEMMA EnterLoopMoves ==
    ASSUME NEW l \in Loops, Launch(l) \/ Continue(l) \/ ResumeWorld(l)
    PROVE  UNCHANGED <<agentVars, inbox, work, done, queue, historyVars, stopping, connected>>
BY DEF Launch, Continue, ResumeWorld

\* The control agents that a loop visits.
LEMMA VisitedIsControl ==
    ASSUME TypeInv, NEW l \in Loops, queue[l] # {}
    PROVE  Visited(l) \in Controls /\ Visited(l) \in Agents /\ Visited(l) \notin Persons
BY DEF TypeInv, TypeOK, Visited, Agents

LEMMA AgentMoves ==
    ASSUME TypeInv, [Next]_vars
    PROVE  \/ agent' = agent
           \/ \E a \in Agents, x \in LifecycleActions : Moves(a, x)
           \/ \E who \in SUBSET Agents, x \in LifecycleActions : MoveAll(who, x)
<1>1. CASE CreateAgents \/ StartPersons \/ StopWorld
  <2>1. PICK who \in SUBSET Agents, x \in LifecycleActions, by \in Requesters :
            TransitionAll(who, x, by)
      BY <1>1 DEF CreateAgents, StartPersons, StopWorld, LifecycleActions,
                  Requesters, Agents, TypeInv, TypeOK
  <2>. QED
      BY <2>1, TransitionAllMoves
<1>2. ASSUME NEW a \in Agents, HostCommands(a) \/ StopAgent(a)
      PROVE  \E x \in LifecycleActions : Moves(a, x)
    BY <1>2 DEF HostCommands, StopAgent, Decide, Transition, Moves, LifecycleActions
<1>3. ASSUME NEW l \in Loops, NEW a \in Agents, ApplyEvent(l, a)
      PROVE  agent' = agent \/ \E x \in LifecycleActions : Moves(a, x)
  <2>1. inbox[a] \in Seq(Event) /\ inbox[a] # <<>>
      BY <1>3 DEF ApplyEvent, TypeInv, TypeOK
  <2>2. Head(inbox[a]) \in Event
      BY <2>1
  <2>3. Head(inbox[a]).type \in LifecycleActions
      BY <2>2 DEF Event
  <2>. QED
      BY <1>3, <2>3 DEF ApplyEvent, Transition, Moves
<1>4. ASSUME NEW l \in Loops, NEW p \in Persons, SkipTick(l, p)
      PROVE  agent' = agent \/ \E x \in LifecycleActions : Moves(p, x)
    BY <1>4, PolicyMoves DEF SkipTick, Agents
<1>5. ASSUME NEW l \in Loops, SkipEvaluation(l) \/ ControlTick(l)
      PROVE  agent' = agent \/ \E a \in Agents, x \in LifecycleActions : Moves(a, x)
    BY <1>5, PolicyMoves, VisitedIsControl DEF SkipEvaluation, ControlTick
<1>6. ASSUME NEW l \in Loops,
             \/ SelectAgents(l) \/ BatchSettled(l) \/ BeginApply(l)
             \/ BeginEvaluation(l) \/ EndEvaluation(l) \/ EndEvaluations(l)
             \/ BeginControlTicks(l) \/ EndTick(l) \/ LoopFails(l) \/ EndApply(l)
             \/ Quit(l) \/ Finish(l)
      PROVE  agent' = agent
    BY <1>6
    DEF SelectAgents, BatchSettled, BeginApply, BeginEvaluation, EndEvaluation,
        EndEvaluations, BeginControlTicks, EndTick, LoopFails, EndApply, Quit,
        Finish, agentVars
<1>7. ASSUME NEW l \in Loops, NEW p \in Persons,
             \/ Rest(l, p) \/ GatherContext(l, p) \/ NextIteration(l, p)
             \/ Act(l, p) \/ EndIterations(l, p) \/ AgentFails(l, p)
      PROVE  agent' = agent
    BY <1>7 DEF Rest, GatherContext, NextIteration, Act, EndIterations, AgentFails,
                agentVars
<1>8. ASSUME NEW l \in Loops, Launch(l) \/ Continue(l) \/ ResumeWorld(l)
      PROVE  agent' = agent
    BY <1>8, EnterLoopMoves DEF agentVars
<1>9. CASE Start \/ PauseWorld \/ Disconnected \/ Cleared \/ UNCHANGED vars
    BY <1>9 DEF Start, PauseWorld, Disconnected, Cleared, vars, agentVars
<1>. QED
    BY <1>1, <1>2, <1>3, <1>4, <1>5, <1>6, <1>7, <1>8, <1>9
    DEF Next, BootStep, StopStep, HostStep, LoopStep, TickStep, AgentStep, ApplyStep,
        Agents

LEMMA StoppedStays ==
    ASSUME TypeInv, [Next]_vars, NEW a \in Agents, agent[a] = "stopped"
    PROVE  agent'[a] = "stopped"
<1>1. ASSUME NEW b \in Agents, NEW x \in LifecycleActions, Moves(b, x)
      PROVE  agent'[a] = "stopped"
    BY <1>1, AfterStopped DEF Moves, TypeInv, TypeOK
<1>2. ASSUME NEW who \in SUBSET Agents, NEW x \in LifecycleActions, MoveAll(who, x)
      PROVE  agent'[a] = "stopped"
    BY <1>2, AfterStopped DEF MoveAll
<1>. QED
    BY <1>1, <1>2, AgentMoves

-----------------------------------------------------------------------------
(***************************************************************************)
(* Late actions, in a world with one loop.                                  *)
(***************************************************************************)
\* What the steps do to the persons at work.
LEMMA WorkKinds ==
    ASSUME TypeInv, [Next]_vars
    PROVE  \/ /\ late' = late
              /\ \A l \in Loops, p \in Persons : work'[l][p] = "llm" => work[l][p] = "llm"
           \/ \E l \in Loops, p \in Persons : NextIteration(l, p) \/ Act(l, p)
<1> DEFINE Kept == /\ late' = late
                   /\ \A l \in Loops, p \in Persons :
                         work'[l][p] = "llm" => work[l][p] = "llm"
<1>1. CASE BootStep \/ StopStep \/ HostStep \/ UNCHANGED vars
    BY <1>1, EnterLoopMoves
    DEF BootStep, Start, CreateAgents, StartPersons, StopStep, Disconnected, Cleared,
        HostStep, PauseWorld, StopWorld, HostCommands, StopAgent, vars, loopVars,
        historyVars
<1>2. ASSUME NEW l \in Loops,
             \/ SelectAgents(l) \/ BatchSettled(l) \/ BeginApply(l)
             \/ SkipEvaluation(l) \/ BeginEvaluation(l) \/ EndEvaluation(l)
             \/ EndEvaluations(l) \/ BeginControlTicks(l) \/ ControlTick(l)
             \/ EndTick(l) \/ LoopFails(l) \/ EndApply(l) \/ Continue(l)
             \/ Quit(l) \/ Finish(l) \/ \E a \in Agents : ApplyEvent(l, a)
      PROVE  Kept
  <2>1. CASE SelectAgents(l)
      BY <2>1 DEF SelectAgents, TypeInv, TypeOK
  <2>2. CASE Continue(l)
      BY <2>2, EnterLoopMoves DEF historyVars
  <2>3. CASE ~SelectAgents(l) /\ ~Continue(l)
      BY <1>2, <2>3
      DEF BatchSettled, BeginApply, SkipEvaluation, BeginEvaluation, EndEvaluation,
          EndEvaluations, BeginControlTicks, ControlTick, EndTick, LoopFails,
          EndApply, Quit, Finish, ApplyEvent, loopVars, historyVars
  <2>. QED
      BY <2>1, <2>2, <2>3
<1>3. ASSUME NEW l \in Loops, NEW p \in Persons,
             \/ SkipTick(l, p) \/ Rest(l, p) \/ GatherContext(l, p)
             \/ EndIterations(l, p) \/ AgentFails(l, p)
      PROVE  Kept
  <2>1. PICK to \in {"context", "done"} : work' = [work EXCEPT ![l][p] = to]
      BY <1>3 DEF SkipTick, Rest, GatherContext, EndIterations, AgentFails
  <2>. QED
      BY <1>3, <2>1
      DEF SkipTick, Rest, GatherContext, EndIterations, AgentFails, TypeInv, TypeOK
<1>. QED
    BY <1>1, <1>2, <1>3
    DEF Next, LoopStep, TickStep, AgentStep, ApplyStep

LEMMA WorkIsInBatchStep ==
    ASSUME TypeInv, WorkIsInBatch, [Next]_vars
    PROVE  WorkIsInBatch'
<1>. USE DEF TypeInv, TypeOK, WorkIsInBatch
<1>1. CASE BootStep \/ StopStep \/ HostStep \/ UNCHANGED vars
  <2>1. ASSUME NEW l \in Loops, Launch(l) \/ ResumeWorld(l)
        PROVE  WorkIsInBatch'
      BY <2>1 DEF Launch, ResumeWorld, Fresh, EnterLoop, Goto
  <2>. QED
      BY <1>1, <2>1
      DEF BootStep, Start, CreateAgents, StartPersons, StopStep, Disconnected,
          Cleared, HostStep, PauseWorld, StopWorld, HostCommands, StopAgent, vars,
          loopVars
<1>2. ASSUME NEW l \in Loops,
             \/ BeginApply(l) \/ SkipEvaluation(l) \/ BeginEvaluation(l)
             \/ EndEvaluation(l) \/ EndEvaluations(l) \/ BeginControlTicks(l)
             \/ ControlTick(l) \/ EndTick(l) \/ LoopFails(l) \/ EndApply(l)
             \/ Quit(l) \/ Finish(l)
      PROVE  WorkIsInBatch'
  <2>1. work' = work /\ pc[l] # "agents"
      BY <1>2
      DEF BeginApply, SkipEvaluation, BeginEvaluation, EndEvaluation,
          EndEvaluations, BeginControlTicks, ControlTick, EndTick, LoopFails,
          EndApply, Quit, Finish
  <2>2. \A k \in Loops \ {l} : pc'[k] = pc[k]
      BY <1>2
      DEF BeginApply, SkipEvaluation, BeginEvaluation, EndEvaluation,
          EndEvaluations, BeginControlTicks, ControlTick, EndTick, LoopFails,
          EndApply, Quit, Finish, Goto
  <2>. QED
      BY <2>1, <2>2
<1>3. ASSUME NEW l \in Loops,
             SelectAgents(l) \/ Continue(l) \/ \E a \in Agents : ApplyEvent(l, a)
      PROVE  WorkIsInBatch'
    BY <1>3 DEF SelectAgents, Continue, EnterLoop, ApplyEvent, Goto, loopVars
<1>4. ASSUME NEW l \in Loops, BatchSettled(l)
      PROVE  WorkIsInBatch'
    BY <1>4 DEF BatchSettled, Settled, Goto
<1>5. ASSUME NEW l \in Loops, NEW p \in Persons,
             \/ SkipTick(l, p) \/ Rest(l, p) \/ GatherContext(l, p)
             \/ NextIteration(l, p) \/ Act(l, p) \/ EndIterations(l, p)
             \/ AgentFails(l, p)
      PROVE  WorkIsInBatch'
  <2>1. /\ pc' = pc /\ pc[l] = "agents"
        /\ \E to \in WorkPc : work' = [work EXCEPT ![l][p] = to]
      BY <1>5
      DEF SkipTick, Rest, GatherContext, NextIteration, Act, EndIterations,
          AgentFails, WorkPc
  <2>. QED
      BY <2>1
<1>. QED
    BY <1>1, <1>2, <1>3, <1>4, <1>5
    DEF Next, LoopStep, TickStep, AgentStep, ApplyStep

LEMMA LateStep ==
    ASSUME ClockInv, LateInv, [Next]_vars
    PROVE  LateInv'
<1>. USE DEF ClockInv, LateInv, LateIsOver
<1>1. WorkIsInBatch'
    BY WorkIsInBatchStep
<1>2. \A p \in Persons : agent[p] = "stopped" => agent'[p] = "stopped"
    BY StoppedStays DEF Agents
<1>3. CASE /\ late' = late
           /\ \A l \in Loops, p \in Persons : work'[l][p] = "llm" => work[l][p] = "llm"
    BY <1>1, <1>2, <1>3
<1>4. ASSUME NEW l \in Loops, NEW p \in Persons, NextIteration(l, p)
      PROVE  LateIsOver'
  <2>1. late' = late /\ agent[p] = "running"
      BY <1>4 DEF NextIteration, MayIterate, Running
  <2>2. \A q \in Persons \ {p}, k \in Loops : work'[k][q] = work[k][q]
      BY <1>4 DEF NextIteration, TypeInv, TypeOK
  <2>3. late[p] = 0
      BY <2>1
  <2>. QED
      BY <1>2, <2>1, <2>2, <2>3
<1>5. ASSUME NEW l \in Loops, NEW p \in Persons, Act(l, p)
      PROVE  LateIsOver'
  <2>1. /\ agent' = agent
        /\ late' = [late EXCEPT ![p] = IF agent[p] = "stopped" THEN @ + 1 ELSE @]
        /\ work' = [work EXCEPT ![l][p] = "context"]
        /\ work[l][p] = "llm" /\ pc[l] = "agents"
      BY <1>5 DEF Act, agentVars
  <2>2. late[p] = 0
      BY <2>1
  <2>3. \A k \in Loops \ {l} : pc[k] # "agents"
      BY <2>1 DEF SingleLoop, Used
  <2>4. \A k \in Loops : work'[k][p] # "llm"
    <3>1. work'[l][p] = "context"
        BY <2>1 DEF TypeInv, TypeOK
    <3>2. \A k \in Loops \ {l} : work'[k][p] = work[k][p] /\ work[k][p] # "llm"
        BY <2>1, <2>3 DEF TypeInv, TypeOK, WorkIsInBatch
    <3>. QED
        BY <3>1, <3>2
  <2>5. late'[p] = IF agent[p] = "stopped" THEN 1 ELSE 0
      BY <2>1, <2>2 DEF TypeInv, TypeOK
  <2>6. \A q \in Persons \ {p} : /\ late'[q] = late[q]
                                 /\ \A k \in Loops : work'[k][q] = work[k][q]
      BY <2>1 DEF TypeInv, TypeOK
  <2>. QED
      BY <2>1, <2>4, <2>5, <2>6
<1>6. TypeInv
    OBVIOUS
<1>. QED
    BY <1>1, <1>3, <1>4, <1>5, <1>6, WorkKinds

\* Without resume() there is one loop; then a person that is stopped while its model
\* thinks publishes that one answer and no other, in this tick or a later one, however
\* many iterations it had left.
THEOREM AtMostOneLateAction ==
    ASSUME "resume" \notin HostApi
    PROVE  Spec => []OneLateAction
<1>1. Init => ClockInv /\ LateInv
    BY ClockInvInit DEF Init, LateInv, WorkIsInBatch, LateIsOver
<1>2. ClockInv /\ LateInv /\ [Next]_vars => (ClockInv /\ LateInv)'
    BY ClockInvStep, LateStep
<1>3. ClockInv /\ LateInv => OneLateAction
    BY DEF LateInv, LateIsOver, OneLateAction
<1>. QED
    BY <1>1, <1>2, <1>3, PTL DEF Spec

-----------------------------------------------------------------------------
(***************************************************************************)
(* A completed stop().                                                     *)
(***************************************************************************)
LEMMA StopInvStep ==
    ASSUME TypeInv, StopInv, [Next]_vars
    PROVE  StopInv'
<1>. USE DEF StopInv
<1>1. \A a \in Agents : agent[a] = "stopped" => agent'[a] = "stopped"
    BY StoppedStays
<1> DEFINE Kept == UNCHANGED <<stopCalled, stopping, boot, connected, registry,
                               persons, controls>>
<1>2. ASSUME Kept
      PROVE  StopInv'
    BY <1>1, <1>2
<1>3. CASE Start
    BY <1>1, <1>3 DEF Start, agentVars, historyVars
<1>4. CASE CreateAgents \/ StartPersons
    BY <1>1, <1>4 DEF CreateAgents, StartPersons
<1>5. ASSUME NEW l \in Loops, Launch(l)
      PROVE  StopInv'
    BY <1>1, <1>5 DEF Launch, agentVars, historyVars
<1>6. CASE StopWorld
  <2>1. \A a \in registry : agent'[a] = "stopped"
      BY <1>6, AfterStopped
      DEF StopWorld, TransitionAll, TypeInv, TypeOK, Legal, From, To, AgentStatus
  <2>2. /\ stopping' = "disconnect" /\ registry' = registry /\ boot' = boot
        /\ stopCalled' = IF stopCalled # "never" THEN stopCalled
                         ELSE IF boot = "done" THEN "launched" ELSE "booting"
      BY <1>6 DEF StopWorld
  <2>. QED
      BY <1>1, <2>1, <2>2
<1>7. CASE Disconnected
    BY <1>1, <1>7 DEF Disconnected, agentVars, historyVars
<1>8. CASE Cleared
    BY <1>1, <1>8 DEF Cleared, historyVars, TypeInv, TypeOK
<1>9. ASSUME NEW a \in Agents, HostCommands(a)
      PROVE  Kept
    BY <1>9 DEF HostCommands, engineVars
<1>10. ASSUME NEW a \in Agents, StopAgent(a)
       PROVE  StopInv'
  <2>1. agent'[a] = "stopped"
      BY <1>10, AfterStopped
      DEF StopAgent, Decide, Transition, TypeInv, TypeOK, LifecycleActions
  <2>. QED
      BY <1>1, <1>10, <2>1 DEF StopAgent, Unregister, engineVars
<1>11. ASSUME NEW l \in Loops, NEW a \in Agents, ApplyEvent(l, a)
       PROVE  StopInv'
  <2>1. CASE a \in registry /\ Head(inbox[a]).type = "stop"
    <3>1. agent'[a] = "stopped"
        BY <1>11, <2>1, AfterStopped
        DEF ApplyEvent, Transition, TypeInv, TypeOK, LifecycleActions
    <3>. QED
        BY <1>1, <1>11, <2>1, <3>1 DEF ApplyEvent, Unregister, unchangedByTick, engineVars
  <2>2. CASE ~(a \in registry /\ Head(inbox[a]).type = "stop")
      BY <1>2, <1>11, <2>2 DEF ApplyEvent, unchangedByTick, engineVars
  <2>. QED
      BY <2>1, <2>2
<1>12. ASSUME PauseWorld \/ UNCHANGED vars \/ \E l \in Loops : ResumeWorld(l)
       PROVE  Kept
    BY <1>12 DEF PauseWorld, ResumeWorld, vars, engineVars, agentVars, historyVars
<1>13. ASSUME NEW l \in Loops,
             \/ SelectAgents(l) \/ BatchSettled(l) \/ BeginApply(l)
             \/ SkipEvaluation(l) \/ BeginEvaluation(l) \/ EndEvaluation(l)
             \/ EndEvaluations(l) \/ BeginControlTicks(l) \/ ControlTick(l)
             \/ EndTick(l) \/ LoopFails(l) \/ EndApply(l) \/ Continue(l)
             \/ Quit(l) \/ Finish(l)
       PROVE  Kept
    BY <1>13
    DEF SelectAgents, BatchSettled, BeginApply, SkipEvaluation, BeginEvaluation,
        EndEvaluation, EndEvaluations, BeginControlTicks, ControlTick, EndTick,
        LoopFails, EndApply, Continue, Quit, Finish, unchangedByTick, engineVars,
        agentVars, historyVars
<1>14. ASSUME NEW l \in Loops, AgentStep(l)
       PROVE  Kept
    BY <1>14
    DEF AgentStep, SkipTick, Rest, GatherContext, NextIteration, Act, EndIterations,
        AgentFails, unchangedByTick, engineVars, agentVars
<1>. HIDE DEF Kept, StopInv
<1>. QED
    BY <1>2, <1>3, <1>4, <1>5, <1>6, <1>7, <1>8, <1>9, <1>10, <1>11, <1>12, <1>13,
       <1>14
    DEF Next, BootStep, StopStep, HostStep, LoopStep, TickStep, ApplyStep

\* Whatever ticks are in flight, whatever else the host calls meanwhile and however
\* often it has been called: a stop() that found the world launched and is over has
\* stopped every agent, emptied every list and closed what was open.
THEOREM StopLeavesNothing == Spec => []StopIsThorough
<1>1. Init => StopInv
    BY DEF Init, StopInv
<1>2. TypeInv /\ StopInv /\ [Next]_vars => StopInv'
    BY StopInvStep
<1>3. StopInv => StopIsThorough
    BY DEF StopInv, StopIsThorough
<1>. QED
    BY <1>1, <1>2, <1>3, TypeInvariant, PTL DEF Spec

-----------------------------------------------------------------------------
(***************************************************************************)
(* Between two ticks of a world with one loop.                              *)
(***************************************************************************)
LEMMA NoNewsPending == ~HasStop(<<>>)
<1>1. Len(<<>>) = 0
    OBVIOUS
<1>. QED
    BY <1>1 DEF HasStop

LEMMA HasStopAppend ==
    ASSUME NEW s \in Seq(Event), NEW e \in Event
    PROVE  /\ Append(s, e) # <<>>
           /\ HasStop(s) \/ e.type = "stop" => HasStop(Append(s, e))
<1> DEFINE t == Append(s, e)
<1>1. /\ Len(t) = Len(s) + 1 /\ Len(s) \in Nat /\ t[Len(t)] = e
      /\ \A i \in 1..Len(s) : t[i] = s[i]
    OBVIOUS
<1>2. t # <<>>
    OBVIOUS
<1>. HIDE DEF t
<1>3. HasStop(s) \/ e.type = "stop" => HasStop(t)
    BY <1>1 DEF HasStop
<1>. QED
    BY <1>2, <1>3 DEF t

LEMMA HasStopTail ==
    ASSUME NEW s \in Seq(Event), s # <<>>, HasStop(s), Head(s).type # "stop"
    PROVE  HasStop(Tail(s))
<1>1. PICK i \in 1..Len(s) : s[i].type = "stop"
    BY DEF HasStop
<1>2. i # 1
    BY <1>1
<1>3. i - 1 \in 1..Len(Tail(s)) /\ Tail(s)[i - 1] = s[i]
    BY <1>2
<1>. QED
    BY <1>1, <1>3 DEF HasStop

\* No loop is in a phase whose messages are still to be handled.
Quiet == \A l \in Loops : pc[l] \notin Unread \cup {"apply"}

LEMMA QuietPending ==
    ASSUME Quiet, NEW a \in Agents
    PROVE  Pending(a) = <<>>
BY DEF Quiet, Pending, Suspended

\* Then everybody is told and nobody is left behind.
LEMMA QuietNews ==
    ASSUME Quiet, NEW p \in Persons
    PROVE  News(p) <=> Told(p) /\ ~(p \in persons /\ agent[p] = "stopped")
<1>1. Pending(p) = <<>> /\ ~HasStop(Pending(p))
    BY QuietPending, NoNewsPending DEF Agents
<1>. QED
    BY <1>1 DEF News

\* News about a person that a step does not concern stays as it was.
LEMMA NewsKept ==
    ASSUME NEW p \in Persons, News(p), agent'[p] = agent[p], notified'[p] = notified[p],
           p \in persons' <=> p \in persons, p \in registry' <=> p \in registry,
           Pending(p)' = Pending(p)
    PROVE  News(p)'
BY DEF News, Told

\* The messages of a tick, once published, stay until they are handled.
LEMMA PendingKept ==
    ASSUME NEW a \in Agents, pc' = pc, events'[a] = events[a], inbox'[a] = inbox[a]
    PROVE  Pending(a)' = Pending(a)
BY DEF Pending, Suspended

\* A loop is where its phase says, and no other is anywhere.
LEMMA OnlyLoop ==
    ASSUME TypeInv, SingleLoop, NEW l \in Loops, pc[l] # "unused"
    PROVE  boot = "done" /\ \A k \in Loops \ {l} : pc[k] = "unused"
BY DEF SingleLoop, Used

LEMMA OnlyLoopGoes ==
    ASSUME TypeInv, SingleLoop, NEW l \in Loops, pc[l] # "unused", NEW to, Goto(l, to)
    PROVE  /\ boot = "done" /\ pc'[l] = to
           /\ \A k \in Loops \ {l} : pc[k] = "unused" /\ pc'[k] = "unused"
BY OnlyLoop DEF Goto, TypeInv, TypeOK

\* A legal transition is on the bus; any other changes nothing.
LEMMA TransitionTold ==
    ASSUME TypeInv, busTick # 0, NEW a \in Agents, NEW x \in LifecycleActions,
           NEW by \in Requesters, Transition(a, x, by)
    PROVE  /\ \A b \in Agents \ {a} : agent'[b] = agent[b] /\ events'[b] = events[b]
           /\ IF Legal(x, agent[a])
              THEN /\ agent'[a] = To(x) /\ agent[a] # "stopped"
                   /\ events'[a] # <<>>
                   /\ x = "stop" => HasStop(events'[a])
              ELSE agent'[a] = agent[a] /\ events'[a] = events[a]
<1>. USE DEF TypeInv, TypeOK
<1>1. CASE Legal(x, agent[a])
  <2>1. [type |-> x, by |-> by] \in Event
      BY DEF Event
  <2>2. /\ events'[a] = Append(events[a], [type |-> x, by |-> by])
        /\ agent'[a] = To(x)
        /\ \A b \in Agents \ {a} : agent'[b] = agent[b] /\ events'[b] = events[b]
      BY <1>1 DEF Transition, Publish, After
  <2>3. agent[a] # "stopped"
      BY <1>1, AfterStopped
  <2>. QED
      BY <1>1, <2>1, <2>2, <2>3, HasStopAppend
<1>2. CASE ~Legal(x, agent[a])
    BY <1>2 DEF Transition, After
<1>. QED
    BY <1>1, <1>2

AgentsInv == ClockInv /\ StopInv /\ AppliedInv

\* What a step outside of stop() has to preserve.
Applied == BusIsCurrent /\ ListsAgree /\ NewsIsPending

\* The bootstrap and the top of the loop.
LEMMA AppliedBoot ==
    ASSUME AgentsInv, Applied, stopCalled = "never", ClockInv',
           \/ BootStep
           \/ \E l \in Loops : Continue(l) \/ Quit(l) \/ Finish(l)
    PROVE  Applied'
<1>. USE DEF AgentsInv, ClockInv, Applied
<1>1. CASE Start
  <2>1. UNCHANGED <<agent, notified, persons, registry, events, inbox, pc, tick, busTick>>
      BY <1>1 DEF Start, agentVars, busVars, loopVars, historyVars
  <2>2. NewsIsPending'
      BY <2>1 DEF NewsIsPending, News, Told, Pending, Suspended
  <2>. QED
      BY <1>1, <2>1, <2>2 DEF Start, BusIsCurrent, ListsAgree
<1>2. CASE CreateAgents \/ StartPersons
  <2>1. /\ boot # "done" /\ Used = {} /\ busTick = 0
        /\ UNCHANGED <<pc, notified, busTick, inbox, tick>>
      BY <1>2 DEF CreateAgents, StartPersons, SingleLoop, BusIsCurrent, loopVars
  <2>2. Quiet /\ \A l \in Loops : pc[l] # "finished"
      BY <2>1 DEF Quiet, Used, Unread
  <2>3. \A p \in Persons : Told(p) /\ ~(p \in persons /\ agent[p] = "stopped")
      BY <2>2, QuietNews DEF NewsIsPending
  <2>4. BusIsCurrent'
      BY <1>2, <2>1, <2>2
      DEF BusIsCurrent, Quiet, CreateAgents, StartPersons
  <2>5. CASE CreateAgents
    <3>1. /\ \A p \in Persons : agent'[p] = "idle" /\ agent[p] = "idle"
          /\ persons' = Persons /\ registry' = Agents /\ boot' = "controls"
        BY <2>5 DEF CreateAgents, TransitionAll, ListsAgree, Agents
    <3>2. ListsAgree'
        BY <3>1 DEF ListsAgree, Agents
    <3>3. \A p \in Persons : News(p)'
        BY <2>1, <2>3, <3>1 DEF News, Told
    <3>. QED
        BY <2>4, <3>2, <3>3 DEF NewsIsPending
  <2>6. CASE StartPersons
    <3>1. /\ persons' = persons /\ registry' = registry /\ boot' = "federation"
          /\ boot = "controls"
          /\ \A p \in Persons : agent'[p] = IF p \in persons /\ agent[p] = "idle"
                                            THEN "running" ELSE agent[p]
        BY <2>6 DEF StartPersons, TransitionAll, Legal, From, To, Agents
    <3>2. ListsAgree'
        BY <3>1 DEF ListsAgree
    <3>3. \A p \in Persons : Told(p)' /\ ~(p \in persons' /\ agent'[p] = "stopped")
        BY <2>1, <2>3, <3>1 DEF Told
    <3>4. \A p \in Persons : News(p)'
        BY <3>3 DEF News
    <3>. QED
        BY <2>4, <3>2, <3>4 DEF NewsIsPending
  <2>. QED
      BY <1>2, <2>5, <2>6
<1>3. ASSUME NEW l \in Loops, Launch(l) \/ Continue(l)
      PROVE  Applied'
  <2>1. /\ pc[l] \in {"unused", "sleep"} /\ \A k \in Loops \ {l} : pc[k] = "unused"
        /\ boot \in {"federation", "done"} /\ boot' = "done" /\ EnterLoop(l)
        /\ UNCHANGED <<agent, notified, persons, registry>>
      BY <1>3, OnlyLoop
      DEF Launch, Continue, SingleLoop, Used, agentVars, historyVars
  <2>2. Quiet /\ \A k \in Loops : pc[k] # "finished"
      BY <2>1 DEF Quiet, Unread
  <2>3. \A p \in Persons : Told(p) /\ ~(p \in persons /\ agent[p] = "stopped")
      BY <2>2, QuietNews DEF NewsIsPending
  <2>4. \A p \in Persons : Told(p)' /\ ~(p \in persons' /\ agent'[p] = "stopped")
      BY <2>1, <2>3 DEF Told
  <2>5. \A p \in Persons : News(p)'
      BY <2>4 DEF News
  <2>6. ListsAgree'
      BY <2>1 DEF ListsAgree
  <2>7. BusIsCurrent'
      BY <2>1
      DEF EnterLoop, NewTick, Goto, BusIsCurrent, Unread, TypeInv, TypeOK
  <2>. QED
      BY <2>5, <2>6, <2>7 DEF NewsIsPending
<1>4. ASSUME NEW l \in Loops, Quit(l) \/ Finish(l)
      PROVE  Applied'
  <2>1. /\ pc[l] \in {"sleep", "exitHook"} /\ pc'[l] = "finished"
        /\ \A k \in Loops \ {l} : pc'[k] = pc[k]
        /\ UNCHANGED <<boot, agent, notified, persons, registry, busTick, tick>>
      BY <1>4 DEF Quit, Finish, Goto, TypeInv, TypeOK, engineVars, agentVars, busVars,
                  historyVars
  <2>. QED
      BY <2>1 DEF BusIsCurrent, Unread, ListsAgree, NewsIsPending
<1>. QED
    BY <1>1, <1>2, <1>3, <1>4 DEF BootStep

\* The batch of persons.
LEMMA AppliedBatch ==
    ASSUME AgentsInv, Applied, stopCalled = "never", NEW l \in Loops,
           \/ SelectAgents(l) \/ AgentStep(l) \/ BatchSettled(l) \/ LoopFails(l)
    PROVE  Applied'
<1>. USE DEF AgentsInv, ClockInv, Applied
<1>1. CASE SelectAgents(l) \/ BatchSettled(l)
  <2>1. /\ pc[l] \in {"hook", "agents"} /\ pc'[l] \in {"agents", "transform"}
        /\ boot = "done" /\ \A k \in Loops \ {l} : pc[k] = "unused" /\ pc'[k] = "unused"
        /\ UNCHANGED <<boot, agent, notified, persons, registry, events, inbox, busTick, tick>>
      BY <1>1, OnlyLoopGoes
      DEF SelectAgents, BatchSettled, unchangedByTick, engineVars, agentVars, busVars
  <2>2. Suspended /\ Suspended' /\ \A k \in Loops : pc[k] # "finished"
      BY <2>1 DEF Suspended
  <2>3. \A p \in Persons : Pending(p)' = Pending(p)
      BY <2>1, <2>2 DEF Pending, Unread
  <2>4. \A p \in Persons : News(p)'
      BY <2>1, <2>2, <2>3, NewsKept DEF NewsIsPending
  <2>. QED
      BY <2>1, <2>4 DEF BusIsCurrent, Unread, ListsAgree, NewsIsPending
<1>2. CASE LoopFails(l)
  <2>1. /\ pc[l] # "unused" /\ pc'[l] = "finished"
        /\ \A k \in Loops \ {l} : pc'[k] = pc[k]
        /\ UNCHANGED <<boot, agent, notified, persons, registry, busTick, tick>>
      BY <1>2
      DEF LoopFails, Goto, TypeInv, TypeOK, unchangedByTick, engineVars, agentVars,
          busVars
  <2>. QED
      BY <2>1 DEF BusIsCurrent, Unread, ListsAgree, NewsIsPending
<1>3. ASSUME NEW p \in Persons, SkipTick(l, p)
      PROVE  Applied'
  <2>1. /\ pc[l] = "agents"
        /\ UNCHANGED <<boot, pc, notified, persons, registry, inbox, busTick, tick>>
        /\ UNCHANGED <<agent, events>> \/ (Running(p) /\ ApplyPolicy(p))
      BY <1>3 DEF SkipTick, unchangedByTick, engineVars
  <2>2. boot = "done" /\ \A k \in Loops \ {l} : pc[k] = "unused"
      BY <2>1, OnlyLoop
  <2>3. busTick # 0 /\ BusIsCurrent'
      BY <2>1 DEF BusIsCurrent, Unread
  <2>4. Suspended /\ \A k \in Loops : pc[k] # "finished"
      BY <2>1, <2>2 DEF Suspended
  <2>5. \A q \in Persons : Pending(q) = events[q] /\ Pending(q)' = events'[q]
      BY <2>1, <2>4 DEF Pending, Unread, Suspended
  <2>6. CASE UNCHANGED <<agent, events>>
    <3>1. \A q \in Persons : News(q)'
        BY <2>1, <2>4, <2>5, <2>6, NewsKept DEF NewsIsPending
    <3>. QED
        BY <2>1, <2>3, <2>6, <3>1 DEF ListsAgree, NewsIsPending
  <2>7. ASSUME Running(p), NEW x \in {"pause", "stop"}, Transition(p, x, "token-budget")
        PROVE  Applied'
    <3>1. x \in LifecycleActions /\ Legal(x, agent[p]) /\ p \in Agents
        BY <2>7 DEF LifecycleActions, Running, Legal, From, Agents
    <3>2. /\ \A b \in Agents \ {p} : agent'[b] = agent[b] /\ events'[b] = events[b]
          /\ agent'[p] = To(x) /\ events'[p] # <<>>
          /\ x = "stop" => HasStop(events'[p])
        BY <2>3, <2>7, <3>1, TransitionTold DEF Requesters
    <3>3. To(x) = IF x = "stop" THEN "stopped" ELSE "paused"
        BY <2>7 DEF To
    <3>4. p \in persons /\ p \in registry
        BY <2>2, <2>7 DEF Running, ListsAgree
    <3>5. News(p)'
        BY <2>1, <2>5, <3>2, <3>3, <3>4 DEF News
    <3>6. \A q \in Persons \ {p} : News(q)'
        BY <2>1, <2>4, <2>5, <3>2, NewsKept DEF NewsIsPending, Agents
    <3>7. ListsAgree'
        BY <2>1, <2>2, <3>2, <3>3, <3>4 DEF ListsAgree, Agents
    <3>. QED
        BY <2>3, <3>5, <3>6, <3>7 DEF NewsIsPending
  <2>. QED
      BY <2>1, <2>6, <2>7 DEF ApplyPolicy, Decide
<1>4. ASSUME NEW p \in Persons,
             \/ Rest(l, p) \/ GatherContext(l, p) \/ NextIteration(l, p)
             \/ Act(l, p) \/ EndIterations(l, p) \/ AgentFails(l, p)
      PROVE  Applied'
  <2>1. UNCHANGED <<boot, pc, agent, notified, persons, registry, events, inbox, busTick, tick>>
      BY <1>4
      DEF Rest, GatherContext, NextIteration, Act, EndIterations, AgentFails,
          unchangedByTick, engineVars, agentVars, busVars
  <2>2. NewsIsPending'
      BY <2>1 DEF NewsIsPending, News, Told, Pending, Suspended
  <2>. QED
      BY <2>1, <2>2 DEF BusIsCurrent, ListsAgree
<1>. QED
    BY <1>1, <1>2, <1>3, <1>4 DEF AgentStep

\* apply().
LEMMA AppliedApply ==
    ASSUME AgentsInv, Applied, stopCalled = "never", NEW l \in Loops,
           BeginApply(l) \/ ApplyStep(l)
    PROVE  Applied'
<1>. USE DEF AgentsInv, ClockInv, Applied
<1>1. CASE BeginApply(l)
  <2>1. /\ pc[l] = "transform" /\ pc'[l] = "apply"
        /\ boot = "done" /\ \A k \in Loops \ {l} : pc[k] = "unused" /\ pc'[k] = "unused"
        /\ UNCHANGED <<boot, agent, notified, persons, registry, events, busTick, tick>>
      BY <1>1, OnlyLoopGoes
      DEF BeginApply, unchangedByTick, engineVars, agentVars
  <2>2. inbox' = events
      BY <1>1, <2>1 DEF BeginApply, ReadInbox, BusIsCurrent, Unread
  <2>3. \A p \in Persons : Pending(p)' = Pending(p)
      BY <2>1, <2>2 DEF Pending, Suspended, Unread
  <2>4. \A p \in Persons : News(p)'
      BY <2>1, <2>3, NewsKept DEF NewsIsPending
  <2>. QED
      BY <2>1, <2>4 DEF BusIsCurrent, Unread, ListsAgree, NewsIsPending
<1>2. CASE EndApply(l)
  <2>1. /\ pc[l] = "apply" /\ \A a \in Agents : inbox[a] = <<>>
        /\ \E to \in {"evaluate", "actionHooks"} : Goto(l, to)
        /\ UNCHANGED <<boot, agent, notified, persons, registry, events, inbox, busTick, tick>>
      BY <1>2 DEF EndApply, unchangedByTick, engineVars, agentVars, busVars
  <2>2. /\ boot = "done" /\ pc'[l] \notin Unread
        /\ \A k \in Loops \ {l} : pc[k] = "unused" /\ pc'[k] = "unused"
      BY <2>1, OnlyLoopGoes DEF Unread
  <2>3. \A p \in Persons : Told(p) /\ ~(p \in persons /\ agent[p] = "stopped")
      BY <2>1, <2>2, NoNewsPending
      DEF NewsIsPending, News, Pending, Suspended, Agents
  <2>4. \A p \in Persons : News(p)'
      BY <2>1, <2>3 DEF News, Told
  <2>. QED
      BY <2>1, <2>2, <2>4 DEF BusIsCurrent, Unread, ListsAgree, NewsIsPending
<1>3. ASSUME NEW a \in Agents, ApplyEvent(l, a)
      PROVE  Applied'
  <2>1. /\ pc[l] = "apply" /\ pc' = pc
        /\ inbox[a] \in Seq(Event) /\ inbox[a] # <<>>
        /\ inbox' = [inbox EXCEPT ![a] = Tail(@)]
        /\ UNCHANGED <<boot, busTick, tick>>
      BY <1>3 DEF ApplyEvent, loopVars, unchangedByTick, engineVars, TypeInv, TypeOK
  <2>2. ~Suspended /\ ~Suspended' /\ boot = "done"
        /\ \A k \in Loops : pc[k] # "finished"
      BY <2>1, OnlyLoop DEF Suspended
  <2>3. \A p \in Persons : /\ News(p) /\ agent[p] # "idle"
                           /\ Pending(p) = inbox[p] /\ Pending(p)' = inbox'[p]
      BY <2>2 DEF NewsIsPending, Pending, ListsAgree
  <2>4. PICK x \in LifecycleActions : x = Head(inbox[a]).type
    <3>1. Head(inbox[a]) \in Event
        BY <2>1
    <3>. QED
        BY <3>1 DEF Event
  <2>5. /\ \A b \in Agents \ {a} : /\ agent'[b] = agent[b] /\ notified'[b] = notified[b]
                                   /\ inbox'[b] = inbox[b]
                                   /\ b \in registry' <=> b \in registry
                                   /\ b \in persons' <=> b \in persons
        /\ registry' \subseteq registry /\ persons' \subseteq persons
        /\ persons' \subseteq registry'
      BY <1>3, <2>1, <2>4
      DEF ApplyEvent, Transition, Unregister, Report, ListsAgree, TypeInv, TypeOK
  <2>6. \A p \in Persons \ {a} : News(p)'
      BY <2>3, <2>5, NewsKept DEF Agents
  <2>7. inbox'[a] = Tail(inbox[a])
      BY <2>1 DEF TypeInv, TypeOK
  <2>8. CASE a \notin registry
    <3>1. /\ agent'[a] = agent[a] /\ notified'[a] = notified[a]
          /\ a \notin persons' /\ a \notin registry'
        BY <1>3, <2>8 DEF ApplyEvent, ListsAgree
    <3>2. a \in Persons => News(a)'
        BY <2>3, <2>8, <3>1 DEF News, Told
    <3>. QED
        BY <2>1, <2>2, <2>3, <2>5, <2>6, <2>8, <3>1, <3>2
        DEF BusIsCurrent, Agents, ListsAgree, NewsIsPending
  <2>9. CASE a \in registry /\ a \in Controls
    <3>1. a \notin Persons
        BY <2>9
    <3>. QED
        BY <2>1, <2>2, <2>3, <2>5, <2>6, <3>1
        DEF BusIsCurrent, Agents, ListsAgree, NewsIsPending
  <2>10. CASE a \in registry /\ a \in Persons
    <3>1. agent'[a] = After(x, agent[a]) /\ notified'[a] = After(x, agent[a])
      <4>1. CASE x = "start"
        <5>1. After(x, agent[a]) = agent[a]
            BY <2>3, <2>10, <4>1 DEF After, Legal, From
        <5>. QED
            BY <1>3, <2>4, <2>10, <4>1, <5>1 DEF ApplyEvent, Report, TypeInv, TypeOK
      <4>2. CASE x # "start"
          BY <1>3, <2>4, <2>10, <4>2
          DEF ApplyEvent, Report, Transition, TypeInv, TypeOK
      <4>. QED
          BY <4>1, <4>2
    <3>2. agent[a] \in AgentStatus
        BY DEF TypeInv, TypeOK
    <3>3. agent'[a] # "idle"
        BY <2>3, <2>10, <3>1, <3>2, AfterStopped
    <3>4. agent[a] = "stopped" => agent'[a] = "stopped"
        BY <3>1, AfterStopped
    <3>5. CASE x = "stop"
      <4>1. a \notin persons' /\ agent'[a] = "stopped"
          BY <1>3, <2>4, <2>10, <3>1, <3>2, <3>5, AfterStopped
          DEF ApplyEvent, Unregister
      <4>2. News(a)'
          BY <3>1, <4>1 DEF News, Told
      <4>. QED
          BY <2>1, <2>2, <2>3, <2>5, <2>6, <3>3, <4>1, <4>2
          DEF BusIsCurrent, Agents, ListsAgree, NewsIsPending
    <3>6. CASE x # "stop"
      <4>1. persons' = persons
          BY <1>3, <2>4, <3>6 DEF ApplyEvent
      <4>2. agent'[a] = "stopped" => agent[a] = "stopped"
          BY <3>1, <3>2, <3>6, AfterStopped
      <4>3. HasStop(inbox[a]) => HasStop(inbox'[a])
          BY <2>1, <2>4, <2>7, <3>6, HasStopTail
      <4>4. News(a)'
          BY <2>3, <2>10, <3>1, <4>1, <4>2, <4>3 DEF News, Told
      <4>. QED
          BY <2>1, <2>2, <2>3, <2>5, <2>6, <3>3, <3>4, <4>1, <4>4
          DEF BusIsCurrent, Agents, ListsAgree, NewsIsPending
    <3>. QED
        BY <3>5, <3>6
  <2>. QED
      BY <2>8, <2>9, <2>10 DEF Agents
<1>. QED
    BY <1>1, <1>2, <1>3 DEF ApplyStep

\* Control agents, after apply(), and the end of the tick: what they announce comes
\* too late for the tick, and none of it is about what plugins or lists hold.
LEMMA AppliedControl ==
    ASSUME AgentsInv, Applied, stopCalled = "never", NEW l \in Loops,
           \/ SkipEvaluation(l) \/ BeginEvaluation(l) \/ EndEvaluation(l)
           \/ EndEvaluations(l) \/ BeginControlTicks(l) \/ ControlTick(l)
           \/ EndTick(l)
    PROVE  Applied'
<1>. USE DEF AgentsInv, ClockInv, Applied
<1>1. /\ pc[l] \in {"evaluate", "judge", "actionHooks", "controlTick"}
      /\ \/ pc' = pc
         \/ \E to \in {"judge", "evaluate", "actionHooks", "controlTick", "sleep"} : Goto(l, to)
      /\ UNCHANGED <<boot, notified, persons, registry, busTick, tick>>
    BY DEF SkipEvaluation, BeginEvaluation, EndEvaluation, EndEvaluations,
           BeginControlTicks, ControlTick, EndTick, unchangedByTick, engineVars,
           agentVars, busVars
<1>2. \A k \in Loops \ {l} : pc[k] = "unused" /\ pc'[k] = "unused"
    BY <1>1, OnlyLoop, OnlyLoopGoes
<1>3. pc'[l] \in {"evaluate", "judge", "actionHooks", "controlTick", "sleep"}
    BY <1>1 DEF Goto, TypeInv, TypeOK
<1>4. Quiet /\ (\A k \in Loops : pc[k] # "finished")
      /\ \A k \in Loops : pc'[k] \notin Unread \cup {"apply"}
    BY <1>1, <1>2, <1>3 DEF Quiet, Unread
<1>5. \A p \in Persons : agent'[p] = agent[p]
  <2>1. CASE SkipEvaluation(l) \/ ControlTick(l)
    <3>1. \/ agent' = agent
          \/ \E x \in {"pause", "stop"} : Transition(Visited(l), x, "token-budget")
        BY <2>1 DEF SkipEvaluation, ControlTick, ApplyPolicy, Decide
    <3>2. Visited(l) \notin Persons
        BY <2>1, VisitedIsControl DEF SkipEvaluation, ControlTick
    <3>. QED
        BY <3>1, <3>2 DEF Transition, TypeInv, TypeOK, Agents
  <2>2. CASE ~(SkipEvaluation(l) \/ ControlTick(l))
      BY <2>2
      DEF BeginEvaluation, EndEvaluation, EndEvaluations, BeginControlTicks, EndTick,
          agentVars
  <2>. QED
      BY <2>1, <2>2
<1>6. \A p \in Persons : Told(p) /\ ~(p \in persons /\ agent[p] = "stopped")
    BY <1>4, QuietNews DEF NewsIsPending
<1>7. \A p \in Persons : News(p)'
    BY <1>1, <1>5, <1>6 DEF News, Told
<1>. QED
    BY <1>1, <1>4, <1>5, <1>7 DEF BusIsCurrent, ListsAgree, NewsIsPending

\* The host, as long as it does not stop or resume the world.
LEMMA AppliedHost ==
    ASSUME AgentsInv, Applied, stopCalled = "never", Suspended,
           PauseWorld \/ UNCHANGED vars \/ \E a \in Agents : HostCommands(a) \/ StopAgent(a)
    PROVE  Applied'
<1>. USE DEF AgentsInv, ClockInv, Applied
<1>1. CASE PauseWorld \/ UNCHANGED vars
  <2>1. UNCHANGED <<boot, pc, agent, notified, persons, registry, events, inbox, busTick, tick>>
      BY <1>1 DEF PauseWorld, vars, engineVars, agentVars, busVars, loopVars, historyVars
  <2>2. NewsIsPending'
      BY <2>1 DEF NewsIsPending, News, Told, Pending, Suspended
  <2>. QED
      BY <2>1, <2>2 DEF BusIsCurrent, ListsAgree
<1>2. ASSUME NEW a \in Agents, HostCommands(a) \/ StopAgent(a)
      PROVE  Applied'
  <2>1. PICK x \in {"pause", "resume", "stop"} :
            /\ Decide(a, x, "host") /\ Report(a, x)
            /\ HostCommands(a) => x # "stop" /\ UNCHANGED <<registry, persons>>
            /\ ~HostCommands(a) => x = "stop" /\ Unregister(a)
      BY <1>2 DEF HostCommands, StopAgent
  <2>2. /\ a \in registry /\ x \in LifecycleActions
        /\ UNCHANGED <<boot, pc, inbox, busTick, tick>>
      BY <1>2, <2>1 DEF HostCommands, StopAgent, engineVars, loopVars, LifecycleActions
  <2>3. /\ agent'[a] = After(x, agent[a]) /\ notified'[a] = After(x, agent[a])
        /\ agent[a] \in AgentStatus
        /\ agent[a] = "stopped" => events' = events
        /\ \A b \in Agents \ {a} : /\ agent'[b] = agent[b] /\ events'[b] = events[b]
                                   /\ notified'[b] = notified[b]
      BY <2>1, <2>2, AfterStopped
      DEF Decide, Report, Transition, Publish, TypeInv, TypeOK
  <2>4. /\ \A b \in Agents \ {a} : /\ b \in registry' <=> b \in registry
                                   /\ b \in persons' <=> b \in persons
        /\ persons' \subseteq registry' /\ boot \notin {"no", "loading"}
        /\ persons' \subseteq persons /\ registry' \subseteq registry
        /\ HostCommands(a) => persons' = persons
        /\ ~HostCommands(a) => a \notin persons'
      BY <2>1, <2>2 DEF Unregister, ListsAgree
  <2>5. BusIsCurrent'
      BY <2>2 DEF BusIsCurrent
  <2>6. /\ agent[a] = "stopped" => agent'[a] = "stopped"
        /\ agent[a] # "idle" => agent'[a] # "idle"
        /\ ~HostCommands(a) => agent'[a] = "stopped"
        /\ HostCommands(a) /\ agent'[a] = "stopped" => agent[a] = "stopped"
      BY <2>1, <2>2, <2>3, AfterStopped
  <2>7. ListsAgree'
      BY <2>2, <2>3, <2>4, <2>6 DEF ListsAgree, Agents
  <2>8. ASSUME NEW p \in Persons, News(p)
        PROVE  News(p)'
    <3>1. CASE p # a
      <4>1. Pending(p)' = Pending(p)
          BY <2>2, <2>3, <3>1, PendingKept DEF Agents
      <4>. QED
          BY <2>3, <2>4, <2>8, <3>1, <4>1, NewsKept DEF Agents
    <3>2. CASE p = a
      <4>1. Told(p)'
          BY <2>3, <3>2 DEF Told
      <4>2. CASE HostCommands(a) /\ agent'[a] = "stopped"
        <5>1. Pending(p)' = Pending(p)
            BY <2>2, <2>3, <2>6, <4>2, PendingKept DEF Agents
        <5>. QED
            BY <2>4, <2>6, <2>8, <3>2, <4>1, <4>2, <5>1 DEF News
      <4>3. CASE ~(HostCommands(a) /\ agent'[a] = "stopped")
          BY <2>4, <3>2, <4>1, <4>3 DEF News
      <4>. QED
          BY <4>2, <4>3
    <3>. QED
        BY <3>1, <3>2
  <2>. QED
      BY <2>2, <2>5, <2>7, <2>8 DEF NewsIsPending
<1>. QED
    BY <1>1, <1>2

LEMMA AppliedStep ==
    ASSUME "resume" \notin HostApi, AgentsInv, [Next]_vars
    PROVE  AgentsInv'
<1>1. ClockInv' /\ StopInv'
    BY ClockInvStep, StopInvStep DEF AgentsInv, ClockInv
<1>2. stopCalled' = "never" => stopCalled = "never" /\ ~StopWorld
  <2>1. UNCHANGED stopCalled \/ StopWorld
    <3>1. CASE BootStep \/ StopStep \/ HostStep \/ UNCHANGED vars
        BY <3>1, EnterLoopMoves
        DEF BootStep, Start, CreateAgents, StartPersons, StopStep, Disconnected,
            Cleared, HostStep, PauseWorld, HostCommands, StopAgent, vars, historyVars
    <3>2. ASSUME NEW l \in Loops, LoopStep(l) \/ LoopFails(l) \/ ApplyStep(l)
          PROVE  UNCHANGED stopCalled
        BY <3>2, EnterLoopMoves
        DEF LoopStep, TickStep, AgentStep, ApplyStep, SelectAgents, SkipTick, Rest,
            GatherContext, NextIteration, Act, EndIterations, AgentFails,
            BatchSettled, BeginApply, SkipEvaluation, BeginEvaluation,
            EndEvaluation, EndEvaluations, BeginControlTicks, ControlTick, EndTick,
            LoopFails, EndApply, ApplyEvent, Quit, Finish, unchangedByTick, historyVars
    <3>. QED
        BY <3>1, <3>2 DEF Next
  <2>2. StopWorld => stopCalled' # "never"
      BY DEF StopWorld
  <2>. QED
      BY <2>1, <2>2
<1>3. ASSUME stopCalled = "never", ~StopWorld
      PROVE  Applied'
  <2>1. Applied
      BY <1>3 DEF AgentsInv, AppliedInv, Applied
  <2>2. ~StopStep /\ \A l \in Loops : ~ResumeWorld(l)
      BY <1>3
      DEF AgentsInv, StopInv, StopStep, Disconnected, Cleared, ResumeWorld, HostCall
  <2>3. CASE UNCHANGED vars /\ ~Suspended
    <3>1. UNCHANGED <<boot, pc, agent, notified, persons, registry, events, inbox, busTick, tick>>
        BY <2>3 DEF vars, engineVars, agentVars, busVars, loopVars, historyVars
    <3>2. NewsIsPending'
        BY <2>1, <3>1 DEF Applied, NewsIsPending, News, Told, Pending, Suspended
    <3>. QED
        BY <2>1, <3>1, <3>2 DEF Applied, BusIsCurrent, ListsAgree
  <2>. QED
      BY <1>1, <1>3, <2>1, <2>2, <2>3, AppliedBoot, AppliedBatch, AppliedApply,
         AppliedControl, AppliedHost
      DEF Next, HostStep, LoopStep, TickStep
<1>. QED
    BY <1>1, <1>2, <1>3 DEF AgentsInv, AppliedInv, Applied

\* Without resume() there is one loop; whenever it sleeps in a world nobody has
\* stopped, apply() has told the plugins of every status that a budget changed in the
\* middle of the tick and taken every stopped person out of the lists, with any number
\* of control agents, whose own commands come after apply().
THEOREM NewsIsApplied ==
    ASSUME "resume" \notin HostApi
    PROVE  Spec => []AppliedBetweenTicks
<1>1. Init => AgentsInv
  <2>1. Init => \A p \in Persons : Told(p) /\ p \notin persons
      BY DEF Init, Told, Agents
  <2>2. Init => NewsIsPending
      BY <2>1 DEF NewsIsPending, News
  <2>3. Init => BusIsCurrent /\ ListsAgree
      BY DEF Init, BusIsCurrent, Unread, ListsAgree, Agents
  <2>. QED
      BY <2>2, <2>3, ClockInvInit DEF AgentsInv, AppliedInv, Init, StopInv
<1>2. AgentsInv /\ [Next]_vars => AgentsInv'
    BY AppliedStep
<1>3. AgentsInv => AppliedBetweenTicks
  <2>1. ASSUME AgentsInv, stopCalled = "never", NEW l \in Loops, pc[l] = "sleep"
        PROVE  /\ persons \subseteq registry
               /\ \A p \in Persons : Told(p) /\ ~(p \in persons /\ agent[p] = "stopped")
    <3>1. \A k \in Loops \ {l} : pc[k] = "unused"
        BY <2>1, OnlyLoop DEF AgentsInv, ClockInv
    <3>2. Quiet /\ \A k \in Loops : pc[k] # "finished"
        BY <2>1, <3>1 DEF Quiet, Unread
    <3>. QED
        BY <2>1, <3>2, QuietNews DEF AgentsInv, AppliedInv, ListsAgree, NewsIsPending
  <2>2. AgentsInv => persons \subseteq Persons
      BY DEF AgentsInv, ClockInv, TypeInv, TypeOK
  <2>. QED
      BY <2>1, <2>2
      DEF AppliedBetweenTicks, PluginsAreUpToDate, StoppedPersonsLeave, Told
<1>. QED
    BY <1>1, <1>2, <1>3, PTL DEF Spec

-----------------------------------------------------------------------------
(***************************************************************************)
(* What apply() replays never undoes a decision.  Every transition of an     *)
(* agent is made at once by the call that decides it and announced on the     *)
(* bus; apply() later reads the announcements and makes the transitions once   *)
(* more.  In a world without control agents, whose commands are announced      *)
(* without being made, the replay ends in the status it began with.            *)
(***************************************************************************)

(***************************************************************************)
(* The events of one agent are the trace of its transitions: the last one     *)
(* leads to the status st, nothing follows "stop", nothing precedes "start".   *)
(***************************************************************************)
Trace(s, st) ==
    /\ s # <<>> => To(s[Len(s)].type) = st
    /\ \A i \in 1..Len(s) : /\ s[i].type = "stop" => st = "stopped"
                            /\ s[i].type = "start" => i = 1

LEMMA EmptyTrace == \A st : Trace(<<>>, st)
BY DEF Trace

\* A legal transition extends the trace.
LEMMA TraceAppend ==
    ASSUME NEW s \in Seq(Event), NEW st \in AgentStatus, Trace(s, st),
           NEW x \in LifecycleActions, NEW by \in Requesters, Legal(x, st)
    PROVE  Trace(Append(s, [type |-> x, by |-> by]), To(x))
<1> DEFINE e == [type |-> x, by |-> by]
           t == Append(s, e)
<1>1. e \in Event /\ e.type = x
    BY DEF Event
<1>2. /\ Len(t) = Len(s) + 1 /\ Len(s) \in Nat
      /\ t[Len(t)].type = x
      /\ \A i \in 1..Len(s) : t[i] = s[i]
    BY <1>1
<1>3. st # "stopped"
    BY DEF Legal, From, LifecycleActions
<1>4. x = "start" => s = <<>>
  <2>1. ASSUME x = "start", s # <<>> PROVE FALSE
    <3>1. Len(s) \in 1..Len(s) /\ s[Len(s)] \in Event
        BY <2>1
    <3>2. To(s[Len(s)].type) # "idle"
        BY <3>1 DEF Event, LifecycleActions, To
    <3>. QED
        BY <2>1, <3>2 DEF Trace, Legal, From
  <2>. QED
      BY <2>1
<1>5. ASSUME NEW i \in 1..Len(t)
      PROVE  /\ t[i].type = "stop" => To(x) = "stopped"
             /\ t[i].type = "start" => i = 1
  <2>1. CASE i = Len(t)
      BY <1>2, <1>4, <2>1 DEF To
  <2>2. CASE i \in 1..Len(s)
      BY <1>2, <1>3, <2>2 DEF Trace
  <2>. QED
      BY <1>2, <2>1, <2>2
<1>. HIDE DEF t
<1>. QED
    BY <1>2, <1>5 DEF Trace

\* Once its head is handled a trace is still one, and has no "start" left.
LEMMA TraceTail ==
    ASSUME NEW s \in Seq(Event), s # <<>>, NEW st, Trace(s, st)
    PROVE  /\ Trace(Tail(s), st)
           /\ \A i \in 1..Len(Tail(s)) : Tail(s)[i].type # "start"
<1> DEFINE t == Tail(s)
<1>1. /\ Len(t) = Len(s) - 1 /\ Len(s) \in Nat \ {0}
      /\ \A i \in 1..Len(t) : t[i] = s[i + 1]
    OBVIOUS
<1>2. t # <<>> => Len(t) \in 1..Len(t)
    BY <1>1
<1>. HIDE DEF t
<1>3. \A i \in 1..Len(t) : i + 1 \in 1..Len(s) /\ i + 1 # 1
    BY <1>1
<1>4. t # <<>> => t[Len(t)] = s[Len(s)]
    BY <1>1, <1>2
<1>. QED
    BY <1>1, <1>3, <1>4 DEF Trace, t

-----------------------------------------------------------------------------
(***************************************************************************)
(* The inductive invariant.                                                *)
(***************************************************************************)
\* The bus holds the trace of each agent's transitions, as far as it is kept.
Announced ==
    /\ busTick = 0 => events = NoEvents
    /\ \A a \in Agents : Trace(events[a], agent[a])

\* What apply() has yet to handle is a trace to the status decided on.  The agent
\* may have left that status only for the other one of "running" and "paused", and
\* only while there is something left to replay.
Replayed ==
    /\ ~Suspended =>
         \A a \in Agents :
            /\ Trace(inbox[a], wanted[a])
            /\ inbox[a] # <<>> /\ inbox[a][1].type = "start" => agent[a] = wanted[a]
    /\ \A a \in Agents : agent[a] # wanted[a] =>
            /\ ~Suspended
            /\ a \in registry
            /\ inbox[a] # <<>>
            /\ agent[a] \in {"running", "paused"}
            /\ wanted[a] \in {"running", "paused"}

DecisionInv == TypeInv /\ Announced /\ Replayed

LEMMA TransitionAnnounced ==
    ASSUME TypeOK, Announced, busTick' = busTick,
           NEW a \in Agents, NEW x \in LifecycleActions, NEW by \in Requesters,
           Transition(a, x, by)
    PROVE  Announced'
<1>1. CASE Legal(x, agent[a]) /\ busTick # 0
  <2>1. Trace(Append(events[a], [type |-> x, by |-> by]), To(x))
      BY <1>1, TraceAppend DEF TypeOK, Announced
  <2>2. /\ agent' = [agent EXCEPT ![a] = To(x)]
        /\ events' = [events EXCEPT ![a] = Append(@, [type |-> x, by |-> by])]
      BY <1>1 DEF Transition, Publish, After
  <2>3. \A b \in Agents : Trace(events'[b], agent'[b])
      BY <2>1, <2>2 DEF TypeOK, Announced
  <2>. QED
      BY <1>1, <2>3 DEF Announced
<1>2. CASE Legal(x, agent[a]) /\ busTick = 0
  <2>1. events' = events /\ events = NoEvents
      BY <1>2 DEF Transition, Publish, Announced
  <2>. QED
      BY <2>1, EmptyTrace DEF Announced, NoEvents
<1>3. CASE ~Legal(x, agent[a])
  <2>1. agent' = agent /\ events' = events
      BY <1>3 DEF Transition, After, TypeOK
  <2>. QED
      BY <2>1 DEF Announced
<1>. QED
    BY <1>1, <1>2, <1>3

LEMMA PolicyAnnounced ==
    ASSUME TypeOK, Announced, busTick' = busTick, NEW a \in Agents, ApplyPolicy(a),
           \A b \in Agents : agent[b] = wanted[b]
    PROVE  Announced' /\ \A b \in Agents : agent'[b] = wanted'[b]
<1>1. CASE Policy[a] \in {"pause", "stop"}
  <2>1. Decide(a, Policy[a], "token-budget")
      BY <1>1 DEF ApplyPolicy
  <2>2. Announced'
      BY <1>1, <2>1, TransitionAnnounced DEF Decide, LifecycleActions, Requesters
  <2>. QED
      BY <2>1, <2>2 DEF Decide, Transition, TypeOK
<1>2. CASE Policy[a] \notin {"pause", "stop"}
    BY <1>2 DEF ApplyPolicy, Announced
<1>. QED
    BY <1>1, <1>2

LEMMA TransitionAllAnnounced ==
    ASSUME TypeOK, Announced, busTick' = busTick,
           NEW who \in SUBSET Agents, NEW x \in LifecycleActions,
           NEW by \in Requesters, TransitionAll(who, x, by),
           \A b \in Agents : agent[b] = wanted[b]
    PROVE  Announced' /\ \A b \in Agents : agent'[b] = wanted'[b]
<1>1. \A b \in Agents : agent'[b] = wanted'[b]
    BY DEF TransitionAll
<1>2. ASSUME NEW b \in Agents
      PROVE  Trace(events'[b], agent'[b])
  <2>1. CASE b \in who /\ Legal(x, agent[b]) /\ busTick # 0
    <3>1. Trace(Append(events[b], [type |-> x, by |-> by]), To(x))
        BY <2>1, TraceAppend DEF TypeOK, Announced
    <3>. QED
        BY <2>1, <3>1 DEF TransitionAll
  <2>2. CASE b \in who /\ Legal(x, agent[b]) /\ busTick = 0
      BY <2>2, EmptyTrace DEF TransitionAll, Announced, NoEvents
  <2>3. CASE ~(b \in who /\ Legal(x, agent[b]))
      BY <2>3 DEF TransitionAll, Announced
  <2>. QED
      BY <2>1, <2>2, <2>3
<1>3. busTick = 0 => events' = NoEvents
    BY DEF TransitionAll, Announced, NoEvents
<1>. QED
    BY <1>1, <1>2, <1>3 DEF Announced

\* EnterLoop empties the bus and touches no agent.
LEMMA EnterLoopAnnounced ==
    ASSUME NEW l \in Loops, Announced, EnterLoop(l), agent' = agent, TypeOK
    PROVE  Announced' /\ \A k \in Loops : pc'[k] = "apply" => pc[k] = "apply"
<1>1. \/ events' = NoEvents /\ busTick' = clock + 1 /\ clock + 1 # 0
      \/ UNCHANGED <<events, busTick>>
    BY DEF EnterLoop, NewTick, TypeOK
<1>2. Announced'
    BY <1>1, EmptyTrace DEF Announced, NoEvents
<1>3. \A k \in Loops : pc'[k] = "apply" => pc[k] = "apply"
    BY DEF EnterLoop, Goto, TypeOK
<1>. QED
    BY <1>2, <1>3

LEMMA DecisionInit == Init => DecisionInv
<1>. SUFFICES ASSUME Init PROVE DecisionInv
    OBVIOUS
<1>1. TypeInv
    BY TypeInit
<1>2. Announced
    BY EmptyTrace DEF Init, Announced, NoEvents
<1>3. Suspended
    BY DEF Init, Suspended
<1>4. Replayed
    BY <1>3 DEF Init, Replayed
<1>. QED
    BY <1>1, <1>2, <1>4 DEF DecisionInv

\* Steps taken while no apply() is under way.
LEMMA DecisionSuspended ==
    ASSUME Controls = {}, DecisionInv, Suspended,
           \/ BootStep \/ StopStep \/ HostStep
           \/ \E l \in Loops : LoopStep(l) \/ LoopFails(l)
    PROVE  Announced' /\ Replayed'
<1>1. \A a \in Agents : agent[a] = wanted[a]
    BY DEF DecisionInv, Replayed
<1>. USE DEF DecisionInv, TypeInv
<1> DEFINE Kept == /\ Announced'
                   /\ \A a \in Agents : agent'[a] = wanted'[a]
                   /\ \A l \in Loops : pc'[l] = "apply" => pc[l] = "apply"
<1>2. ASSUME Kept PROVE Announced' /\ Replayed'
  <2>1. Suspended'
      BY <1>2 DEF Suspended
  <2>. QED
      BY <1>2, <2>1 DEF Replayed
<1>. HIDE DEF Kept
<1>3. ASSUME Start \/ PauseWorld \/ Disconnected
      PROVE  Kept
    BY <1>1, <1>3 DEF Kept, Start, PauseWorld, Disconnected, agentVars, busVars,
                      loopVars, historyVars, Announced
<1>4. CASE CreateAgents \/ StartPersons \/ StopWorld
  <2>1. PICK who \in SUBSET Agents, x \in LifecycleActions, by \in Requesters :
            TransitionAll(who, x, by)
      BY <1>4 DEF CreateAgents, StartPersons, StopWorld, LifecycleActions,
                  Requesters, Agents, TypeOK
  <2>2. busTick' = busTick /\ pc' = pc
      BY <1>4 DEF CreateAgents, StartPersons, StopWorld, loopVars
  <2>. QED
      BY <1>1, <1>2, <2>1, <2>2, TransitionAllAnnounced DEF Kept
<1>5. ASSUME NEW l \in Loops, Launch(l) \/ Continue(l) \/ ResumeWorld(l)
      PROVE  Kept
  <2>1. EnterLoop(l) /\ agent' = agent /\ wanted' = wanted
      BY <1>5 DEF Launch, Continue, ResumeWorld, agentVars, historyVars
  <2>. QED
      BY <1>1, <2>1, EnterLoopAnnounced DEF Kept
<1>6. ASSUME Cleared
      PROVE  Kept
    BY <1>1, <1>6, EmptyTrace
    DEF Kept, Cleared, loopVars, historyVars, Announced, NoEvents
<1>7. ASSUME NEW a \in Agents, HostCommands(a) \/ StopAgent(a)
      PROVE  Kept
  <2>1. PICK x \in {"pause", "resume", "stop"} : Decide(a, x, "host")
      BY <1>7 DEF HostCommands, StopAgent
  <2>2. busTick' = busTick /\ pc' = pc
      BY <1>7 DEF HostCommands, StopAgent, loopVars
  <2>3. Announced'
      BY <2>1, <2>2, TransitionAnnounced DEF Decide, LifecycleActions, Requesters
  <2>4. \A b \in Agents : agent'[b] = wanted'[b]
      BY <1>1, <2>1 DEF Decide, Transition, TypeOK
  <2>. QED
      BY <2>2, <2>3, <2>4 DEF Kept
<1>8. ASSUME NEW l \in Loops, NEW p \in Persons, SkipTick(l, p)
      PROVE  Kept
  <2>1. busTick' = busTick /\ pc' = pc /\ p \in Agents
      BY <1>8 DEF SkipTick, Agents
  <2>2. CASE UNCHANGED <<agent, events, wanted>>
      BY <1>1, <2>1, <2>2 DEF Kept, Announced
  <2>3. CASE ApplyPolicy(p)
      BY <1>1, <2>1, <2>3, PolicyAnnounced DEF Kept
  <2>. QED
      BY <1>8, <2>2, <2>3 DEF SkipTick
<1>9. ASSUME NEW l \in Loops, SkipEvaluation(l) \/ ControlTick(l)
      PROVE  FALSE
    BY <1>9 DEF SkipEvaluation, ControlTick, TypeOK
<1>10. ASSUME NEW l \in Loops, EndEvaluation(l)
       PROVE  FALSE
    BY <1>10 DEF EndEvaluation, TypeOK, JudgeIsVisited
<1>11. ASSUME NEW l \in Loops,
              \/ SelectAgents(l) \/ BatchSettled(l) \/ BeginEvaluation(l)
              \/ EndEvaluations(l) \/ BeginControlTicks(l) \/ EndTick(l)
              \/ LoopFails(l) \/ Quit(l) \/ Finish(l)
       PROVE  Kept
  <2>1. UNCHANGED <<agent, events, busTick, wanted>>
      BY <1>11
      DEF SelectAgents, BatchSettled, BeginEvaluation, EndEvaluations,
          BeginControlTicks, EndTick, LoopFails, Quit, Finish, agentVars, busVars,
          historyVars
  <2>2. \A k \in Loops : pc'[k] = "apply" => pc[k] = "apply"
      BY <1>11
      DEF SelectAgents, BatchSettled, BeginEvaluation, EndEvaluations,
          BeginControlTicks, EndTick, LoopFails, Quit, Finish, Goto, TypeOK
  <2>. QED
      BY <1>1, <2>1, <2>2 DEF Kept, Announced
<1>12. ASSUME NEW l \in Loops, NEW p \in Persons,
              \/ Rest(l, p) \/ GatherContext(l, p) \/ NextIteration(l, p)
              \/ Act(l, p) \/ EndIterations(l, p) \/ AgentFails(l, p)
       PROVE  Kept
  <2>1. UNCHANGED <<agent, events, busTick, wanted, pc>>
      BY <1>12
      DEF Rest, GatherContext, NextIteration, Act, EndIterations, AgentFails,
          agentVars, busVars
  <2>. QED
      BY <1>1, <2>1 DEF Kept, Announced
<1>13. ASSUME NEW l \in Loops, BeginApply(l)
       PROVE  Announced' /\ Replayed'
  <2>1. UNCHANGED <<agent, events, busTick, wanted>>
      BY <1>13 DEF BeginApply, agentVars
  <2>2. inbox' = events \/ inbox' = NoEvents
      BY <1>13 DEF BeginApply, ReadInbox
  <2>3. \A a \in Agents : Trace(inbox'[a], wanted'[a])
      BY <1>1, <2>1, <2>2, EmptyTrace DEF Announced, NoEvents
  <2>. QED
      BY <1>1, <2>1, <2>3 DEF Announced, Replayed
<1>. QED
    BY <1>2, <1>3, <1>4, <1>5, <1>6, <1>7, <1>8, <1>9, <1>10, <1>11, <1>12, <1>13
    DEF BootStep, StopStep, HostStep, LoopStep, TickStep, AgentStep

\* The replay itself.
LEMMA DecisionApply ==
    ASSUME DecisionInv, NEW l \in Loops, ApplyStep(l)
    PROVE  Announced' /\ Replayed'
<1>. USE DEF DecisionInv, TypeInv
<1>1. CASE EndApply(l)
  <2>1. /\ UNCHANGED <<agent, events, busTick, wanted, inbox, registry>>
        /\ \A a \in Agents : inbox[a] = <<>>
      BY <1>1 DEF EndApply, agentVars, busVars
  <2>2. \A a \in Agents : agent'[a] = wanted'[a]
      BY <2>1 DEF Replayed
  <2>. QED
      BY <2>1, <2>2, EmptyTrace DEF Announced, Replayed
<1>2. ASSUME NEW a \in Agents, ApplyEvent(l, a)
      PROVE  Announced' /\ Replayed'
  <2>1. /\ pc[l] = "apply" /\ pc' = pc /\ wanted' = wanted /\ busTick' = busTick
        /\ inbox[a] \in Seq(Event) /\ inbox[a] # <<>>
        /\ inbox' = [inbox EXCEPT ![a] = Tail(@)]
      BY <1>2 DEF ApplyEvent, loopVars, TypeOK
  <2>2. ~Suspended /\ ~Suspended'
      BY <2>1 DEF Suspended
  <2>3. /\ Trace(inbox[a], wanted[a])
        /\ inbox[a][1].type = "start" => agent[a] = wanted[a]
      BY <2>1, <2>2 DEF Replayed
  <2>4. PICK x \in LifecycleActions, by \in Requesters :
            /\ x = inbox[a][1].type /\ x = Head(inbox[a]).type
            /\ by = Head(inbox[a]).by
    <3>1. Head(inbox[a]) = inbox[a][1] /\ inbox[a][1] \in Event
        BY <2>1
    <3>. QED
        BY <3>1 DEF Event
  <2>5. /\ Trace(Tail(inbox[a]), wanted[a])
        /\ \A i \in 1..Len(Tail(inbox[a])) : Tail(inbox[a])[i].type # "start"
      BY <2>1, <2>3, TraceTail
  <2>6. Tail(inbox[a]) # <<>> => Tail(inbox[a])[1].type # "start"
    <3>1. Tail(inbox[a]) \in Seq(Event)
        BY <2>1
    <3>2. ASSUME NEW t \in Seq(Event), t # <<>> PROVE 1 \in 1..Len(t)
        BY <3>2
    <3>. QED
        BY <2>5, <3>1, <3>2
  <2>7. Tail(inbox[a]) = <<>> => To(x) = wanted[a]
    <3>1. Tail(inbox[a]) = <<>> => Len(inbox[a]) = 1
      <4>1. Len(Tail(inbox[a])) = Len(inbox[a]) - 1 /\ Len(inbox[a]) \in Nat
          BY <2>1
      <4>2. Len(<<>>) = 0
          OBVIOUS
      <4>3. Tail(inbox[a]) = <<>> => Len(Tail(inbox[a])) = Len(<<>>)
          BY Zenon
      <4>. QED
          BY <4>1, <4>2, <4>3
    <3>. QED
        BY <2>1, <2>3, <2>4, <3>1 DEF Trace
  <2>8. x = "stop" => wanted[a] = "stopped" /\ agent[a] = "stopped"
    <3>1. 1 \in 1..Len(inbox[a])
        BY <2>1
    <3>. QED
        BY <2>3, <2>4, <3>1 DEF Trace, Replayed
  <2>9. Announced'
    <3>1. CASE UNCHANGED <<agent, events>>
        BY <2>1, <3>1 DEF Announced
    <3>2. CASE Transition(a, x, by)
        BY <2>1, <3>2, TransitionAnnounced
    <3>. QED
        BY <1>2, <2>4, <3>1, <3>2 DEF ApplyEvent
  <2>10. ASSUME NEW b \in Agents, b # a
         PROVE  /\ agent'[b] = agent[b] /\ inbox'[b] = inbox[b]
                /\ b \in registry' <=> b \in registry
      BY <1>2, <2>1, <2>4, <2>10
      DEF ApplyEvent, Transition, Unregister, TypeOK
  <2>11. \/ agent'[a] = wanted[a]
         \/ /\ a \in registry' /\ Tail(inbox[a]) # <<>>
            /\ agent'[a] \in {"running", "paused"}
            /\ wanted[a] \in {"running", "paused"}
    <3>1. CASE a \notin registry
        BY <1>2, <3>1 DEF ApplyEvent, Replayed
    <3>2. CASE a \in registry /\ x = "start"
        BY <1>2, <2>3, <2>4, <3>2 DEF ApplyEvent
    <3>3. CASE a \in registry /\ x = "stop"
      <4>1. agent' = agent
          BY <1>2, <2>4, <2>8, <3>3
          DEF ApplyEvent, Transition, After, Legal, From, TypeOK
      <4>. QED
          BY <2>8, <3>3, <4>1
    <3>4. CASE a \in registry /\ x \in {"pause", "resume"}
      <4>1. agent'[a] = After(x, agent[a]) /\ registry' = registry
          BY <1>2, <2>4, <3>4 DEF ApplyEvent, Transition, TypeOK
      <4>2. CASE agent[a] \in {"idle", "stopped"}
        <5>1. agent[a] = wanted[a]
            BY <4>2 DEF Replayed
        <5>2. After(x, agent[a]) = agent[a]
            BY <3>4, <4>2 DEF After, Legal, From
        <5>. QED
            BY <4>1, <5>1, <5>2
      <4>3. CASE agent[a] \in {"running", "paused"}
        <5>1. After(x, agent[a]) = To(x) /\ To(x) \in {"running", "paused"}
            BY <3>4, <4>3 DEF After, Legal, From, To
        <5>2. CASE Tail(inbox[a]) = <<>>
            BY <2>7, <4>1, <5>1, <5>2
        <5>3. CASE Tail(inbox[a]) # <<>>
          <6>1. wanted[a] \in {"running", "paused"}
              BY <4>3 DEF Replayed
          <6>. QED
              BY <3>4, <4>1, <5>1, <5>3, <6>1
        <5>. QED
            BY <5>2, <5>3
      <4>. QED
          BY <4>2, <4>3 DEF TypeOK, AgentStatus
    <3>. QED
        BY <2>4, <3>1, <3>2, <3>3, <3>4 DEF LifecycleActions
  <2>12. inbox'[a] = Tail(inbox[a])
      BY <2>1 DEF TypeOK
  <2>13. ASSUME NEW b \in Agents
         PROVE  /\ Trace(inbox'[b], wanted'[b])
                /\ inbox'[b] # <<>> /\ inbox'[b][1].type = "start" =>
                      agent'[b] = wanted'[b]
                /\ agent'[b] # wanted'[b] =>
                      /\ b \in registry' /\ inbox'[b] # <<>>
                      /\ agent'[b] \in {"running", "paused"}
                      /\ wanted'[b] \in {"running", "paused"}
    <3>1. CASE b = a
        BY <2>1, <2>5, <2>6, <2>11, <2>12, <3>1
    <3>2. CASE b # a
        BY <2>1, <2>2, <2>10, <3>2 DEF Replayed
    <3>. QED
        BY <3>1, <3>2
  <2>. QED
      BY <2>2, <2>9, <2>13 DEF Replayed
<1>. QED
    BY <1>1, <1>2 DEF ApplyStep

\* In a world without control agents, outside of apply() every agent is in the
\* status that the latest decision - of the host or of its budget - gave it.
THEOREM DecisionsAreKept ==
    ASSUME Controls = {}
    PROVE  Spec => []DecisionsStick
<1>1. DecisionInv /\ [Next]_vars => DecisionInv'
  <2>1. ASSUME DecisionInv, UNCHANGED vars
        PROVE  Announced' /\ Replayed'
      BY <2>1 DEF DecisionInv, Announced, Replayed, Suspended, vars, agentVars,
                  busVars, loopVars, historyVars
  <2>. QED
      BY <2>1, DecisionSuspended, DecisionApply, TypeNext DEF DecisionInv, Next
<1>2. DecisionInv => DecisionsStick
    BY DEF DecisionInv, Replayed, DecisionsStick
<1>. QED
    BY <1>1, <1>2, DecisionInit, PTL DEF Spec
=============================================================================
