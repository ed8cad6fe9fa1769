----------------------------- MODULE WorldEngine -----------------------------
(***************************************************************************)
(* The engine of one world (src/engine): WorldEngine, WorldLifecycle,        *)
(* WorldBootstrapper, TickOrchestrator and ControlEventApplier, with the      *)
(* lifecycle of the agents (src/agents) that they drive.                     *)
(*                                                                         *)
(* JavaScript runs to completion between two awaits, so one action stands    *)
(* for one such stretch of code.  Every call of runLoop - the one made by     *)
(* start() and one per resume() - is a process of its own; inside its tick    *)
(* the agents it selected are concurrent activities.  Host calls (the public  *)
(* methods) happen whenever the engine is suspended.                         *)
(*                                                                         *)
(* Only the messages addressed to "world-engine" are kept here, as one        *)
(* sequence of lifecycle events per agent: the events of different agents    *)
(* are handled independently of each other.                                  *)
(***************************************************************************)
EXTENDS Integers, Sequences, FiniteSets, AgentLifecycle

CONSTANTS
    Persons,      \* ids of the PersonAgents
    Controls,     \* ids of the ControlAgents
    MaxTicks,     \* config.maxTicks
    Iterations,   \* iterationsPerTick of a PersonAgent
    Policy,       \* agent -> token budget policy, "none" without a budget
    Loops,        \* bound: the runLoop calls of an execution, 1..n
    LoopErrors,   \* whether errors that nothing catches occur (LoopFails)
    HostApi,      \* the public methods the host uses
    MaxHostCalls  \* bound: calls the host makes after start()

Agents == Persons \cup Controls

HostMethods ==
    {"pause", "resume", "stop", "pauseAgent", "resumeAgent", "stopAgent"}

ASSUME EngineAssumption ==
    /\ Persons \cap Controls = {}
    /\ MaxTicks \in Nat
    /\ Iterations \in Nat \ {0}
    /\ Policy \in [Agents -> {"none", "pause", "stop", "degrade"}]
    /\ Loops \subseteq Nat
    /\ LoopErrors \in BOOLEAN
    /\ HostApi \subseteq HostMethods
    /\ MaxHostCalls \in Nat

VARIABLES
    status,      \* runtime.status
    clock,       \* runtime.clock
    boot,        \* where the start() call is suspended
    stopping,    \* where a stop() call is suspended
    connected,   \* MCP clients and the federation subscription are open
    registry,    \* agentRegistry
    persons,     \* runtime.personAgents
    controls,    \* runtime.controlAgents
    agent,       \* agent -> lifecycle status
    spent,       \* agents whose token budget is used up
    busTick,     \* messageBus.currentTick
    events,      \* agent -> lifecycle events on the bus for busTick
    pc,          \* loop -> where it is suspended
    tick,        \* loop -> the tick it executes
    work,        \* loop -> person -> progress of its tick()
    done,        \* loop -> person -> actions of its tick() so far
    queue,       \* loop -> control agents the current for-loop has yet to visit
    inbox,       \* agent -> events that the running apply() has yet to handle
    calls,       \* host calls made
    \* history, read by properties only
    wanted,      \* agent -> status the latest accepted lifecycle command asks for
    notified,    \* agent -> status last reported by onAgentStatusChange
    late,        \* person -> actions it took after it was stopped
    stopCalled   \* the phase of start() in which stop() was first called

engineVars == <<status, clock, boot, stopping, connected>>
agentVars == <<registry, persons, controls, agent, spent>>
busVars == <<busTick, events, inbox>>
loopVars == <<pc, tick, work, done, queue>>
historyVars == <<wanted, notified, late, stopCalled>>
vars == <<engineVars, agentVars, busVars, loopVars, calls, historyVars>>

WorldStatus == {"idle", "bootstrapping", "running", "paused", "stopped"}

\* A loop is unused, at an await of executeTick, asleep between two ticks, in the
\* onWorldStop hook that ends a complete run, or finished.
InTick == {"hook", "agents", "transform", "apply", "evaluate", "judge",
           "actionHooks", "controlTick"}
LoopPc == {"unused", "sleep", "exitHook", "finished"} \cup InTick

WorkPc == {"out", "queued", "context", "llm", "done"}

Requesters == {"world-engine", "host", "token-budget"} \cup Controls
Event == [type : LifecycleActions, by : Requesters]

TypeOK ==
    /\ status \in WorldStatus
    /\ clock \in Nat
    /\ boot \in {"no", "loading", "controls", "federation", "done"}
    /\ stopping \in {"no", "disconnect", "hook"}
    /\ connected \in BOOLEAN
    /\ registry \subseteq Agents
    /\ persons \subseteq Persons
    /\ controls \subseteq Controls
    /\ agent \in [Agents -> AgentStatus]
    /\ spent \subseteq Agents
    /\ busTick \in Nat
    /\ events \in [Agents -> Seq(Event)]
    /\ inbox \in [Agents -> Seq(Event)]
    /\ pc \in [Loops -> LoopPc]
    /\ tick \in [Loops -> Nat]
    /\ work \in [Loops -> [Persons -> WorkPc]]
    /\ done \in [Loops -> [Persons -> 0..Iterations]]
    /\ queue \in [Loops -> SUBSET Controls]
    /\ calls \in 0..MaxHostCalls
    /\ wanted \in [Agents -> AgentStatus]
    /\ notified \in [Agents -> AgentStatus \cup {"never"}]
    /\ late \in [Persons -> Nat]
    /\ stopCalled \in {"never", "booting", "launched"}

Init ==
    /\ status = "idle"
    /\ clock = 0
    /\ boot = "no"
    /\ stopping = "no"
    /\ connected = FALSE
    /\ registry = {}
    /\ persons = {}
    /\ controls = {}
    /\ agent = [a \in Agents |-> "idle"]
    /\ spent = {}
    /\ busTick = 0
    /\ events = [a \in Agents |-> <<>>]
    /\ inbox = [a \in Agents |-> <<>>]
    /\ pc = [l \in Loops |-> "unused"]
    /\ tick = [l \in Loops |-> 0]
    /\ work = [l \in Loops |-> [p \in Persons |-> "out"]]
    /\ done = [l \in Loops |-> [p \in Persons |-> 0]]
    /\ queue = [l \in Loops |-> {}]
    /\ calls = 0
    /\ wanted = [a \in Agents |-> "idle"]
    /\ notified = [a \in Agents |-> "never"]
    /\ late = [p \in Persons |-> 0]
    /\ stopCalled = "never"

(***************************************************************************)
(* Pieces shared by the actions.                                           *)
(***************************************************************************)
NoEvents == [a \in Agents |-> <<>>]

Running(a) == agent[a] = "running"

\* The budget check of shouldSkipTick says no; every policy then skips the tick.
OverBudget(a) == a \in spent /\ Policy[a] # "none"

\* publish to "world-engine": the recipient index has no entry for tick 0, so
\* what is published before the first tick or after clear() is never found.
Publish(a, x, by, evs) ==
    IF busTick = 0 THEN evs
    ELSE [evs EXCEPT ![a] = Append(@, [type |-> x, by |-> by])]

\* BaseAgent.pause / resume / stop: a legal transition is announced on the bus.
Transition(a, x, by) ==
    /\ agent' = [agent EXCEPT ![a] = After(x, @)]
    /\ events' = IF Legal(x, agent[a]) THEN Publish(a, x, by, events) ELSE events

\* The same, asked for by the host or a budget policy rather than replayed.
Decide(a, x, by) ==
    /\ Transition(a, x, by)
    /\ wanted' = [wanted EXCEPT ![a] = After(x, agent[a])]

\* applyBudgetPolicy; "degrade" leaves the agent as it is.
ApplyPolicy(a) ==
    IF Policy[a] \in {"pause", "stop"}
    THEN Decide(a, Policy[a], "token-budget")
    ELSE UNCHANGED <<agent, events, wanted>>

Goto(l, label) == pc' = [pc EXCEPT ![l] = label]

\* The control agent that a for-loop over the control agents visits next.
Visited(l) == CHOOSE c \in queue[l] : TRUE
Leave(l, c) == queue' = [queue EXCEPT ![l] = @ \ {c}]

\* messageBus.newTick drops the messages of the tick that was current, whether or
\* not that tick is complete.
NewTick(t) == busTick' = t /\ events' = NoEvents

\* Fault: a loop compares maxTicks with the tick it made itself.
MoreTicksForLoop(l) == tick[l] < MaxTicks

MoreTicks(l) == clock < MaxTicks

(***************************************************************************)
(* The top of runLoop's while, reached with the status "running": the first   *)
(* stretch of executeTick, up to its first await, or the end of the run.      *)
(***************************************************************************)
EnterLoop(l) ==
    \/ /\ MoreTicks(l)
       /\ status' = "running"
       /\ clock' = clock + 1
       /\ NewTick(clock + 1)
       /\ tick' = [tick EXCEPT ![l] = clock + 1]
       /\ Goto(l, "hook")
    \/ /\ ~MoreTicks(l)
       /\ status' = "stopped"
       /\ Goto(l, "exitHook")
       /\ UNCHANGED <<clock, busTick, events, tick>>

\* Loops are numbered in the order in which runLoop is called.
Fresh(l) == pc[l] = "unused" /\ \A k \in Loops : k < l => pc[k] # "unused"

(***************************************************************************)
(* start(), called once.  The three steps after the call are the stretches of *)
(* bootstrap() that change what is modelled; rules, plugin hooks, MCP and the  *)
(* language model are awaited in between.                                     *)
(***************************************************************************)
Start ==
    /\ boot = "no"
    /\ boot' = "loading"
    /\ status' = "bootstrapping"
    /\ UNCHANGED <<clock, stopping, connected, agentVars, busVars, loopVars,
                   calls, historyVars>>

\* The agents `who` take the lifecycle action x, each announcing its transition.
TransitionAll(who, x, by) ==
    LET moved == {a \in who : Legal(x, agent[a])}
    IN  /\ agent' = [a \in Agents |-> IF a \in moved THEN To(x) ELSE agent[a]]
        /\ wanted' = [a \in Agents |-> IF a \in moved THEN To(x) ELSE wanted[a]]
        /\ events' = [a \in Agents |->
                        IF a \in moved /\ busTick # 0
                        THEN Append(events[a], [type |-> x, by |-> by])
                        ELSE events[a]]

CreateAgents ==
    /\ boot = "loading"
    /\ boot' = "controls"
    /\ registry' = Agents
    /\ persons' = Persons
    /\ controls' = Controls
    /\ connected' = TRUE
    /\ TransitionAll(Controls, "start", "world-engine")
    /\ UNCHANGED <<status, clock, stopping, spent, busTick, inbox, loopVars,
                   calls, notified, late, stopCalled>>

StartPersons ==
    /\ boot = "controls"
    /\ boot' = "federation"
    /\ connected' = TRUE
    /\ TransitionAll(persons, "start", "world-engine")
    /\ UNCHANGED <<status, clock, stopping, registry, persons, controls, spent,
                   busTick, inbox, loopVars, calls, notified, late, stopCalled>>

\* markRunning and runLoop follow the bootstrap without another await.
Launch(l) ==
    /\ boot = "federation"
    /\ Fresh(l)
    /\ boot' = "done"
    /\ EnterLoop(l)
    /\ UNCHANGED <<stopping, connected, agentVars, inbox, work, done, queue,
                   calls, historyVars>>

BootStep == Start \/ CreateAgents \/ StartPersons \/ \E l \in Loops : Launch(l)

(***************************************************************************)
(* executeTick, from its first await on.                                    *)
(***************************************************************************)
unchangedByTick == <<engineVars, calls, stopCalled>>

\* After the hooks: every running person is handed to the batch executor.  Those
\* that the activity ratio of the world leaves out are among the ones that skip.
SelectAgents(l) ==
    /\ pc[l] = "hook"
    /\ Goto(l, "agents")
    /\ work' = [work EXCEPT ![l] = [p \in Persons |->
                   IF p \in persons /\ Running(p) THEN "queued" ELSE "out"]]
    /\ done' = [done EXCEPT ![l] = [p \in Persons |-> 0]]
    /\ UNCHANGED <<unchangedByTick, agentVars, busVars, tick, queue, wanted,
                   notified, late>>

\* PersonAgent.tick returns before its first await: the agent is no longer
\* active, its schedule says no, or its budget is used up.
SkipTick(l, p) ==
    /\ pc[l] = "agents"
    /\ work[l][p] = "queued"
    /\ work' = [work EXCEPT ![l][p] = "done"]
    /\ \/ UNCHANGED <<agent, events, wanted>>
       \/ Running(p) /\ OverBudget(p) /\ ApplyPolicy(p)
    /\ UNCHANGED <<unchangedByTick, registry, persons, controls, spent, busTick,
                   inbox, pc, tick, done, queue, notified, late>>

\* An idle agent rests: one action, no call of the language model.
Rest(l, p) ==
    /\ pc[l] = "agents"
    /\ work[l][p] = "queued"
    /\ Running(p)
    /\ ~OverBudget(p)
    /\ work' = [work EXCEPT ![l][p] = "done"]
    /\ done' = [done EXCEPT ![l][p] = 1]
    /\ UNCHANGED <<unchangedByTick, agentVars, busVars, pc, tick, queue, wanted,
                   notified, late>>

GatherContext(l, p) ==
    /\ pc[l] = "agents"
    /\ work[l][p] = "queued"
    /\ Running(p)
    /\ ~OverBudget(p)
    /\ work' = [work EXCEPT ![l][p] = "context"]
    /\ UNCHANGED <<unchangedByTick, agentVars, busVars, pc, tick, done, queue,
                   wanted, notified, late>>

\* Fault: the iteration does not ask whether the agent is still active.
MayIterateAnyway(l, p) ==
    /\ done[l][p] < Iterations
    /\ done[l][p] > 0 => ~OverBudget(p)

\* The checks at the top of each iteration.
MayIterate(l, p) ==
    /\ Running(p)
    /\ done[l][p] < Iterations
    /\ done[l][p] > 0 => ~OverBudget(p)

NextIteration(l, p) ==
    /\ pc[l] = "agents"
    /\ work[l][p] = "context"
    /\ MayIterate(l, p)
    /\ work' = [work EXCEPT ![l][p] = "llm"]
    /\ UNCHANGED <<unchangedByTick, agentVars, busVars, pc, tick, done, queue,
                   wanted, notified, late>>

\* The answer of the model: it is published and counted, whatever happened to
\* the agent meanwhile.  The call may have used up the agent's tokens.
Act(l, p) ==
    /\ pc[l] = "agents"
    /\ work[l][p] = "llm"
    /\ work' = [work EXCEPT ![l][p] = "context"]
    /\ done' = [done EXCEPT ![l][p] = @ + 1]
    /\ spent' \in {spent, spent \cup ({p} \ {a \in Agents : Policy[a] = "none"})}
    /\ late' = [late EXCEPT ![p] = IF agent[p] = "stopped" THEN @ + 1 ELSE @]
    /\ UNCHANGED <<unchangedByTick, registry, persons, controls, agent, busVars,
                   pc, tick, queue, wanted, notified>>

\* The iterations end: a check failed, the agent is waiting for its turn in a
\* conversation, or all are made.  An agent with nothing done returns nothing.
EndIterations(l, p) ==
    /\ pc[l] = "agents"
    /\ work[l][p] = "context"
    /\ work' = [work EXCEPT ![l][p] = "done"]
    /\ UNCHANGED <<unchangedByTick, agentVars, busVars, pc, tick, done, queue,
                   wanted, notified, late>>

\* The model or a store throws: the tick of this agent is rejected and its
\* actions are lost, the batch goes on.
AgentFails(l, p) ==
    /\ pc[l] = "agents"
    /\ work[l][p] \in {"context", "llm"}
    /\ work' = [work EXCEPT ![l][p] = "done"]
    /\ done' = [done EXCEPT ![l][p] = 0]
    /\ UNCHANGED <<unchangedByTick, agentVars, busVars, pc, tick, queue, wanted,
                   notified, late>>

\* Fault: the batch waits for persons that were never handed to it.
SettledAll(l) == \A p \in Persons : work[l][p] = "done"

Settled(l) == \A p \in Persons : work[l][p] \in {"out", "done"}

\* executeSettled resolves: nobody is left at work (BatchExecutor).
BatchSettled(l) ==
    /\ pc[l] = "agents"
    /\ Settled(l)
    /\ Goto(l, "transform")
    /\ UNCHANGED <<unchangedByTick, agentVars, busVars, tick, work, done, queue,
                   wanted, notified, late>>

(***************************************************************************)
(* ControlEventApplier.apply, after the transforms and the decay of the      *)
(* relationships.  It reads the messages of the loop's own tick once, in the   *)
(* order of their publication, and handles them without an await: ApplyEvent  *)
(* steps are not interleaved with anything else (see Next).                  *)
(***************************************************************************)
\* Fault: the messages come unsorted, the latest first.
ReadInboxLatestFirst(l) ==
    IF tick[l] = busTick
    THEN [a \in Agents |-> [i \in 1..Len(events[a]) |->
                              events[a][Len(events[a]) + 1 - i]]]
    ELSE NoEvents

ReadInbox(l) == IF tick[l] = busTick THEN events ELSE NoEvents

BeginApply(l) ==
    /\ pc[l] = "transform"
    /\ Goto(l, "apply")
    /\ inbox' = ReadInbox(l)
    /\ UNCHANGED <<unchangedByTick, agentVars, busTick, events, tick, work, done,
                   queue, wanted, notified, late>>

\* Faults: a stopped person stays in the lists; the hook is told the old status.
UnregisterNobody(a) == UNCHANGED <<registry, persons>>
ReportOldStatus(a, x) == notified' = [notified EXCEPT ![a] = agent[a]]

\* agent:stop takes the agent out of the registry and of the persons.
Unregister(a) ==
    /\ registry' = registry \ {a}
    /\ persons' = persons \ {a}

\* onAgentStatusChange, told the status that x leaves.
Report(a, x) == notified' = [notified EXCEPT ![a] = After(x, agent[a])]

\* One message.  The transition it announces has usually been made: it is then
\* replayed.  A message for an agent no longer registered is ignored.
ApplyEvent(l, a) ==
    /\ pc[l] = "apply"
    /\ inbox[a] # <<>>
    /\ inbox' = [inbox EXCEPT ![a] = Tail(@)]
    /\ LET x == Head(inbox[a]).type
       IN  IF a \in registry
           THEN /\ IF x = "start"
                   THEN UNCHANGED <<agent, events>>
                   ELSE Transition(a, x, Head(inbox[a]).by)
                /\ IF x = "stop"
                   THEN Unregister(a)
                   ELSE UNCHANGED <<registry, persons>>
                /\ Report(a, x)
           ELSE UNCHANGED <<agent, events, registry, persons, notified>>
    /\ UNCHANGED <<unchangedByTick, controls, spent, busTick, loopVars, wanted, late>>

\* Control agents evaluate the actions of the tick, if there are any.
EndApply(l) ==
    /\ pc[l] = "apply"
    /\ \A a \in Agents : inbox[a] = <<>>
    /\ IF controls # {} /\ \E p \in Persons : done[l][p] > 0
       THEN /\ Goto(l, "evaluate")
            /\ queue' = [queue EXCEPT ![l] = controls]
       ELSE /\ Goto(l, "actionHooks")
            /\ UNCHANGED queue
    /\ UNCHANGED <<unchangedByTick, agentVars, busVars, tick, work, done, wanted,
                   notified, late>>

(***************************************************************************)
(* ControlAgent.evaluateActions: skipped as a tick would be, or a call of the *)
(* language model, which may use the control_agent tool.                    *)
(***************************************************************************)
SkipEvaluation(l) ==
    /\ pc[l] = "evaluate"
    /\ queue[l] # {}
    /\ LET c == Visited(l)
       IN  /\ ~Running(c) \/ OverBudget(c)
           /\ IF Running(c) THEN ApplyPolicy(c)
                            ELSE UNCHANGED <<agent, events, wanted>>
           /\ Leave(l, c)
    /\ UNCHANGED <<unchangedByTick, registry, persons, controls, spent, busTick,
                   inbox, pc, tick, work, done, notified, late>>

BeginEvaluation(l) ==
    /\ pc[l] = "evaluate"
    /\ queue[l] # {}
    /\ Running(Visited(l)) /\ ~OverBudget(Visited(l))
    /\ Goto(l, "judge")
    /\ UNCHANGED <<unchangedByTick, agentVars, busVars, tick, work, done, queue,
                   wanted, notified, late>>

\* The control_agent tool publishes the command; the agent itself is not touched.
\* Commands that the target's status does not allow are left out: they would
\* have no effect when applied.
Command(c) ==
    \E a \in Persons, x \in {"pause", "resume", "stop"} :
        /\ a \in registry
        /\ Legal(x, agent[a])
        /\ events' = Publish(a, x, c, events)
        /\ wanted' = [wanted EXCEPT ![a] = To(x)]

EndEvaluation(l) ==
    /\ pc[l] = "judge"
    /\ Command(Visited(l)) \/ UNCHANGED <<events, wanted>>
    /\ spent' \in {spent, spent \cup ({Visited(l)} \ {a \in Agents : Policy[a] = "none"})}
    /\ Leave(l, Visited(l))
    /\ Goto(l, "evaluate")
    /\ UNCHANGED <<unchangedByTick, registry, persons, controls, agent, busTick,
                   inbox, tick, work, done, notified, late>>

\* Nothing catches an error of the model here, nor one of the graph store when
\* relationships decay: it ends this runLoop and rejects start() or resume().
LoopFails(l) ==
    /\ LoopErrors
    /\ pc[l] \in {"transform", "judge"}
    /\ Goto(l, "finished")
    /\ UNCHANGED <<unchangedByTick, agentVars, busVars, tick, work, done, queue,
                   wanted, notified, late>>

EndEvaluations(l) ==
    /\ pc[l] = "evaluate"
    /\ queue[l] = {}
    /\ Goto(l, "actionHooks")
    /\ UNCHANGED <<unchangedByTick, agentVars, busVars, tick, work, done, queue,
                   wanted, notified, late>>

\* After the batch action hooks every active control agent ticks.
BeginControlTicks(l) ==
    /\ pc[l] = "actionHooks"
    /\ Goto(l, "controlTick")
    /\ queue' = [queue EXCEPT ![l] = controls]
    /\ UNCHANGED <<unchangedByTick, agentVars, busVars, tick, work, done, wanted,
                   notified, late>>

ControlTick(l) ==
    /\ pc[l] = "controlTick"
    /\ queue[l] # {}
    /\ LET c == Visited(l)
       IN  /\ IF Running(c) /\ OverBudget(c)
              THEN ApplyPolicy(c)
              ELSE UNCHANGED <<agent, events, wanted>>
           /\ Leave(l, c)
    /\ UNCHANGED <<unchangedByTick, registry, persons, controls, spent, busTick,
                   inbox, pc, tick, work, done, notified, late>>

EndTick(l) ==
    /\ pc[l] = "controlTick"
    /\ queue[l] = {}
    /\ Goto(l, "sleep")
    /\ UNCHANGED <<unchangedByTick, agentVars, busVars, tick, work, done, queue,
                   wanted, notified, late>>

AgentStep(l) ==
    \E p \in Persons :
        \/ SkipTick(l, p) \/ Rest(l, p) \/ GatherContext(l, p)
        \/ NextIteration(l, p) \/ Act(l, p) \/ EndIterations(l, p)
        \/ AgentFails(l, p)

TickStep(l) ==
    \/ SelectAgents(l) \/ AgentStep(l) \/ BatchSettled(l) \/ BeginApply(l)
    \/ SkipEvaluation(l) \/ BeginEvaluation(l) \/ EndEvaluation(l)
    \/ EndEvaluations(l) \/ BeginControlTicks(l) \/ ControlTick(l)
    \/ EndTick(l)

ApplyStep(l) == EndApply(l) \/ \E a \in Agents : ApplyEvent(l, a)

(***************************************************************************)
(* runLoop, between two ticks: the sleep (or the plain await) is over.        *)
(***************************************************************************)
\* Fault: only a stopped world leaves the loop.
MayContinueUnlessStopped == status # "stopped"

MayContinue == status = "running"

Continue(l) ==
    /\ pc[l] = "sleep"
    /\ MayContinue
    /\ EnterLoop(l)
    /\ UNCHANGED <<boot, stopping, connected, agentVars, inbox, work, done, queue,
                   calls, historyVars>>

Quit(l) ==
    /\ pc[l] = "sleep"
    /\ ~MayContinue
    /\ Goto(l, "finished")
    /\ UNCHANGED <<engineVars, agentVars, busVars, tick, work, done, queue, calls,
                   historyVars>>

\* onWorldStop has run for a world that reached maxTicks.
Finish(l) ==
    /\ pc[l] = "exitHook"
    /\ Goto(l, "finished")
    /\ UNCHANGED <<engineVars, agentVars, busVars, tick, work, done, queue, calls,
                   historyVars>>

LoopStep(l) == TickStep(l) \/ Continue(l) \/ Quit(l) \/ Finish(l)

(***************************************************************************)
(* The host.                                                               *)
(***************************************************************************)
HostCall(method) ==
    /\ method \in HostApi
    /\ boot # "no"
    /\ calls < MaxHostCalls
    /\ calls' = calls + 1

\* pause() and resume() of the world ask for nothing but the status.
PauseWorld ==
    /\ HostCall("pause")
    /\ status' = "paused"
    /\ UNCHANGED <<clock, boot, stopping, connected, agentVars, busVars, loopVars,
                   historyVars>>

\* Fault: resume() counts on the loop that pause() has left behind.
ResumeWithoutLoop(l) ==
    /\ HostCall("resume")
    /\ status = "paused"
    /\ status' = "running"
    /\ UNCHANGED <<clock, boot, stopping, connected, agentVars, busVars, loopVars,
                   historyVars>>

ResumeWorld(l) ==
    /\ HostCall("resume")
    /\ status = "paused"
    /\ Fresh(l)
    /\ EnterLoop(l)
    /\ UNCHANGED <<boot, stopping, connected, agentVars, inbox, work, done, queue,
                   historyVars>>

\* stop(), up to its first await: the agents stop, a tick in flight goes on.
StopWorld ==
    /\ HostCall("stop")
    /\ stopping = "no"
    /\ stopping' = "disconnect"
    /\ status' = "stopped"
    /\ stopCalled' = CASE stopCalled # "never" -> stopCalled
                       [] stopCalled = "never" /\ boot = "done" -> "launched"
                       [] OTHER -> "booting"
    /\ TransitionAll(registry, "stop", "host")
    /\ UNCHANGED <<clock, boot, connected, registry, persons, controls, spent,
                   busTick, inbox, loopVars, notified, late>>

\* MCP clients and the federation are closed, then onWorldStop runs.
Disconnected ==
    /\ stopping = "disconnect"
    /\ stopping' = "hook"
    /\ connected' = FALSE
    /\ UNCHANGED <<status, clock, boot, agentVars, busVars, loopVars, calls,
                   historyVars>>

\* The registry, the bus and the lists of agents are emptied.
Cleared ==
    /\ stopping = "hook"
    /\ stopping' = "no"
    /\ registry' = {}
    /\ persons' = {}
    /\ controls' = {}
    /\ busTick' = 0
    /\ events' = NoEvents
    /\ UNCHANGED <<status, clock, boot, connected, agent, spent, inbox, loopVars,
                   calls, historyVars>>

\* pauseAgent and resumeAgent of a registered agent (any other throws).
HostCommands(a) ==
    /\ a \in registry
    /\ \/ HostCall("pauseAgent") /\ Decide(a, "pause", "host") /\ Report(a, "pause")
       \/ HostCall("resumeAgent") /\ Decide(a, "resume", "host") /\ Report(a, "resume")
    /\ UNCHANGED <<engineVars, registry, persons, controls, spent, busTick, inbox,
                   loopVars, late, stopCalled>>

\* stopAgent also takes the agent out of every list at once.
StopAgent(a) ==
    /\ a \in registry
    /\ HostCall("stopAgent")
    /\ Decide(a, "stop", "host")
    /\ Report(a, "stop")
    /\ Unregister(a)
    /\ controls' = controls \ {a}
    /\ UNCHANGED <<engineVars, spent, busTick, inbox, loopVars, late, stopCalled>>

HostStep ==
    \/ PauseWorld
    \/ \E l \in Loops : ResumeWorld(l)
    \/ StopWorld
    \/ \E a \in Agents : HostCommands(a) \/ StopAgent(a)

StopStep == Disconnected \/ Cleared

\* Nothing else runs while apply() handles its messages.
Suspended == \A l \in Loops : pc[l] # "apply"

Next ==
    \/ /\ Suspended
       /\ \/ BootStep
          \/ StopStep
          \/ HostStep
          \/ \E l \in Loops : LoopStep(l) \/ LoopFails(l)
    \/ \E l \in Loops : ApplyStep(l)

\* Whatever the engine awaits (models, stores, plugins, timers) answers in the
\* end; the host is free, and an error is never bound to happen.
Fairness ==
    /\ WF_vars(Suspended /\ BootStep)
    /\ WF_vars(Suspended /\ StopStep)
    /\ \A l \in Loops : WF_vars((Suspended /\ LoopStep(l)) \/ ApplyStep(l))

Spec == Init /\ [][Next]_vars /\ Fairness

-----------------------------------------------------------------------------
(***************************************************************************)
(* Properties.                                                             *)
(***************************************************************************)
InFlight == {l \in Loops : pc[l] \in InTick}

\* The clock never passes maxTicks, also when pause() and resume() have left two
\* loops that both test it and advance it.
ClockWithinMaxTicks == clock <= MaxTicks

\* Whatever apply() replays, in whatever state it finds the agent, it never
\* undoes a later decision of the host or of a budget policy.
DecisionsStick == Suspended => \A a \in Agents : agent[a] = wanted[a]

\* Between two ticks of a world that goes on, plugins that were told something of a
\* started person know its status: budget policies, which do not call the hook, are
\* reported by apply() in the tick in which they strike.
PluginsAreUpToDate ==
    \A l \in Loops : stopCalled = "never" /\ pc[l] = "sleep" =>
        \A p \in Persons :
            notified[p] \notin {"never", "idle"} => notified[p] = agent[p]

\* Between two ticks of a world that goes on no stopped person is left in the lists,
\* whoever stopped it and at whatever point of the tick.
StoppedPersonsLeave ==
    \A l \in Loops : stopCalled = "never" /\ pc[l] = "sleep" =>
        /\ persons \subseteq registry
        /\ \A p \in persons : agent[p] # "stopped"

\* What apply() leaves behind when the loop sleeps: plugins that know and lists that are clean,
\* although its events were made by the host, by budgets and by stops during the whole tick.
AppliedBetweenTicks == PluginsAreUpToDate /\ StoppedPersonsLeave

\* A person stopped while its model is thinking still publishes that answer, and
\* nothing after it, however many iterations its tick has left.
OneLateAction == \A p \in Persons : late[p] <= 1

\* Once a stop() called after the bootstrap is complete nothing of the world is
\* left: every agent is stopped, also those that were paused or at work, nobody
\* is registered, and no MCP client or federation subscription is open.
StopIsThorough ==
    stopCalled = "launched" /\ stopping = "no" =>
        /\ registry = {} /\ persons = {} /\ controls = {}
        /\ \A a \in Agents : agent[a] = "stopped"
        /\ ~connected

\* At most one tick is in progress: the loop is the single clock of the world.
OneTickAtATime == Cardinality(InFlight) <= 1

\* A world that says it is running has a loop that will advance it.
RunningWorldHasLoop ==
    status = "running" => \E l \in Loops : pc[l] \notin {"unused", "finished"}

\* Every loop comes to its end when models, stores and plugins answer: stopped
\* agents, agents that fail and budgets leave no tick waiting for ever.
LoopsEnd == \A l \in Loops : pc[l] # "unused" ~> pc[l] = "finished"

\* The engine implements the single clock.
Clock == INSTANCE SimulationClock
           WITH st <- status, now <- clock, busy <- InFlight # {},
                launched <- boot = "done"
ImplementsClock == Clock!ClockSpec

\* Between two ticks every agent is in the status that the last command accepted
\* during the tick asks for, the commands of control agents included.
CommandsTakeEffect ==
    \A l \in Loops : pc[l] = "sleep" => \A a \in Agents : agent[a] = wanted[a]
=============================================================================
