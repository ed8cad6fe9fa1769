# A verification project for worldsim

worldsim runs societies of LLM-driven agents in discrete ticks. This directory holds TLA+
modules of it, the TLC configurations that model-check them on small instances, and
theorems about its core checked by TLAPS. Paths below are relative to the repository;
`engine/…` stands for `src/engine/…`.

    tlc -config Engine_World.cfg MCWorldEngine.tla      # one run
    tlapm Conversations_proof.tla                       # one proof module

`PROJECT.json` lists the runs, the faults that each property detects (`mutants`), the
source lines of every definition (`map`), the disagreements between code and
documentation (`findings`), the hazards, and the theorems.

## 1. Inventory

worldsim is one Node process. Its concurrency is cooperative: JavaScript runs to
completion between two `await`s, so what can go wrong are steps of different
asynchronous activities in an order nobody tried. The activities are: each call of
`runLoop` (one by `start()`, one per `resume()`), the agents of a tick (in parallel
under the batch executor), `stop()` (which awaits three times), chats, consolidations of
memories, requests of dashboards, and whatever the host calls meanwhile. Nothing is
persisted that a restart would read back as engine state: crash and recovery are not
behaviours of this code.

| Component | State | Operations | What makes it correct | Module |
|---|---|---|---|---|
| `engine/WorldEngine.ts`, `internal/WorldLifecycle.ts`, `WorldClock.ts` | status, clock, lists of agents | start, stop, pause, resume, pauseAgent, resumeAgent, stopAgent | one clock, bounded by maxTicks; a running world advances; stop leaves nothing open | WorldEngine, SimulationClock |
| `internal/TickOrchestrator.ts` | where the tick is suspended | runLoop, executeTick | phases in order; no agent keeps a tick waiting | WorldEngine; each phase in the module of its component |
| `internal/WorldBootstrapper.ts` | agents, connections | bootstrap | agents registered, then started | WorldEngine, Clients, Streams |
| `internal/ControlEventApplier.ts` | none (reads the bus) | apply | replaying transitions never undoes a later decision | WorldEngine |
| `agents/AgentLifecycle.ts`, `AgentRegistry.ts` | one status per agent | transition | stopped is final | AgentLifecycle |
| `agents/BaseAgent.ts`, `PersonAgent.ts`, `ControlAgent.ts`, `internal/*` | internal state, prompts | tick, evaluateActions | a stopped agent stops acting; its state is its own; it is told its letters, its past and the rules | WorldEngine, Persons, Scheduling |
| `engine/BatchExecutor.ts` | counters of one batch | execute, executeSettled | limit, full use, order of results, an answer | BatchExecutor |
| `messaging/MessageBus.ts`, `agents/internal/MessageRouter.ts` | messages of one tick, receipts | newTick, publish, publishAction | one receipt per action and one message per recipient | Speech, Federation |
| `perception/*` | stimuli by tick, topics, registered perceivers | emit, perceiveRetained, ingest, expire | what is spoken is heard in time; threads hold together | Speech, Senses, Topics |
| `messaging/ConversationManager.ts`, `plugins/built-in/PhonePlugin.ts`, `phone/PhoneDirectory.ts` | conversations, membership, phones | startConversation, startCall, advanceTurn, tickCleanup; send_sms, start_call, speak_in_call, hang_up | busy lines, turns, numbers that are their owners' | Conversations, PhoneExchange, Phones |
| `scheduling/*`, `llm/TrackingLLMAdapter.ts` | counters per agent | shouldActivate, recordAction, record, canProceed, reset | quota, cooldown, sleep, bounded overrun | Scheduling |
| `graph/AgentGraph.ts`, `llm/*`, tools | messages of a thought, adapters, LRU cache with expiry | invoke, chat, setTick | tool calls answered, fresh answers, an end | Thinking |
| `plugins/built-in/ChatPlugin.ts` | sessions | sendMessage, streamed or not | whole exchanges | Chat |
| `federation/*` | inbound queue, subscription; handlers and nodes of a transport | start, stop, drainInbound, handleOutbound | no letter twice, none overtaken, read in the first tick, a stopped world has left | Federation, Post |
| `needs/*`, `NeedsSatisfierPlugin.ts` | needs, credits | tick, satisfy, bootstrap of the loop | each satisfaction felt once | Needs |
| `graph/NeighborhoodManager.ts`, `RelationshipPlugin.ts`, graph stores | ties, cache of neighbours | declare, witness, break, decay, prune | mutual means both; decay charged once | Relationships |
| `location/LocationIndex.ts`, `MovementPlugin.ts`, `AssetPlugin.ts` | positions, grid, trails, venues, resources | move, fixes, enter, leave, use | grid and positions agree; nothing consumed twice | Places |
| `memory/*`, vector store | rows, vectors, knowledge | save, consolidate | nothing forgotten but on purpose, stores agree | Memory |
| `stores/PgPersistenceStore.ts`, `studio/api/persistenceApi.ts` | tables | writes, erasure, consents, usage | what is erased stays erased | Persistence |
| `plugins/PluginRegistry.ts`, `PrivacyCompliancePlugin.ts` | plugins, consents, audit | hooks, gate | each plugin once, in order; no consent, no passing | Plugins |
| `entities/*` and the engine's walk over them | entities by id and kind, perceivers | add, remove, emit | each emitter heard once | Entities |
| `mcp/*` | clients and tools per agent | connectAgent, disconnectAll | what is held is closed | Clients |
| `streaming/*`, `studio/StudioPlugin.ts`, `studio/ui/app.js` | event log, rooms; the dashboard's copy | hooks, commands, socket handlers | the copy is the world's, as far as it is told | Streams |
| `studio/*`, `ui/app.js` | worlds, runs, selection, requests | register, start scenario, report, select | a run ends with its world; what is shown is what is selected | Studio |
| `ReportGeneratorPlugin.ts`, `analysis/*` | timeline, snapshots | collect, report | counts add up; analyses are what they are named for | Reports, Analysis |
| profiles' wording, life skills, real-world tools, rules files, CLI | none | - | - | see section 6 |

Interactions. `executeTick` increments the clock, empties the bus (`newTick`), drains
federation, runs the hooks, resets token counters, cleans conversations up, hands the
active persons to the batch executor, transforms their actions, lets relationships
decay, applies the lifecycle messages (`apply`), lets control agents evaluate, runs the
action hooks and ticks the control agents. An agent's `tick` asks its schedule and
budget, gathers a context, and then per iteration: still active? within budget? its
turn? read the bus, call the model (whose tools may call, speak or hang up), publish,
advance the turn. Lifecycle transitions are made at once by whoever decides them, and
announced on the bus to `world-engine`; `apply` makes them again, unregisters stopped
persons and tells the plugins.

The hard behaviours are listed line by line under `hazards` in `PROJECT.json`:
`pause`/`resume`/`stop` at every await, decisions replayed later, messages published
after their reader has read, checks that an await makes stale, failures in the middle
of a tick, limits at their boundary.

## 2. Modules

One action stands for the code between two awaits, unless a module says otherwise.
A definition whose comment begins with *Fault* is a plausible bug: no action uses it, the
mutants listed in `PROJECT.json` put it in place of the definition after it to show that
a property notices.

### BatchExecutor
One call of `execute` or `executeSettled` with `N` tasks under `MaxConcurrent`.
`Call` is the call, `Complete`/`Reject`/`Late` the continuation of a task while the
caller waits, when it rejects the batch, and after the answer; `RunNext` is the inner
`while`. `settled` is the method called. The fast path (limit of at least `N`) is the
same machine with everything launched at once.

### WorldEngine (with AgentLifecycle)
State: `status`, `clock`, the lists `registry`, `persons`, `controls`, the agents'
statuses, `busTick` and the lifecycle `events` on the bus, and per `runLoop` call its
suspension point `pc`, its tick, the progress of each person (`work`, `done`) and the
control agents it has yet to visit. One action per stretch of code between two awaits:

- bootstrap: `Start`, `CreateAgents`, `StartPersons`, `Launch`;
- a tick: `SelectAgents`; per person `SkipTick`, `Rest`, `GatherContext`,
  `NextIteration`, `Act`, `EndIterations`, `AgentFails`; `BatchSettled`; `BeginApply`,
  `ApplyEvent`, `EndApply`; `SkipEvaluation`, `BeginEvaluation`, `EndEvaluation`,
  `EndEvaluations`; `BeginControlTicks`, `ControlTick`, `EndTick`; `LoopFails`;
- between ticks: `Continue`, `Quit`, `Finish`;
- the host: `PauseWorld`, `ResumeWorld`, `StopWorld` with `Disconnected` and `Cleared`,
  `HostCommands`, `StopAgent`.

`apply()` is synchronous: `Suspended` keeps everything else from interleaving with its
messages, which are kept per agent (those of different agents commute). Whether a
budget is used up is the set `spent`; what uses it up is the subject of Scheduling.
`wanted`, `notified`, `late` and `stopCalled` are history. A start of a control agent
and the creation of the agents are one step: with one control agent and without MCP
servers that is what the code does.

`SimulationClock` is what the engine promises about time: ticks numbered 1, 2, … up to
maxTicks, one at a time, begun only in a running world. `Clock` in WorldEngine is the
refinement mapping.

### Conversations
The manager's two maps (`conv`, `member`) and each agent's place in its tick. `StartConversation`, `StartCall`, `EndConversation`,
`AdvanceTurn`, `TickCleanup`, `Looked` and `CanSpeak` are the manager's methods; the
actions are their callers: the tick (`TickStart`, `BeginIteration`, `EndIterations`,
`Route`, `AfterRoute`), the phone tools (`Dial`, `SpeakBegin` and `SpeakEnd` around the
await of speak_in_call, `SpeakFails`, `HangUp`), failures, and the host (`HostConverses`,
`HostCalls`, `HostEnds`). `PhoneExchange` is the abstract telephone exchange that calls
implement: a line joins two free agents.

### Scheduling
One agent's schedule and budget counters, its status, and its `tick` as far as these
are consulted. `ShouldActivate`/`RecordAction` are the scheduler, `CanProceed`,
`Record` and `ResetAllTicks` the tracker; `Sleep`, `SkipOverBudget`, `Rest`,
`BeginThinking`, `NextIteration`, `Answer`, `Fail`, `EndThinking` follow
`BaseAgent.shouldSkipTick` and `PersonAgent.tick`. `Command` is the host's, `Chat` a
user's chat through ChatPlugin, which uses the same tracked model without asking the
budget. The activity ratio, a hash, is a free choice.

### Federation
Several worlds and the transport they share. Per world: FederationBus (`started`, where
`start()` is suspended, `unsub`, the inbound `queue`, and `draining`, what a drain has
taken and not looked at yet), the engine (`running`, `phase` of its tick, where `stop()`
is suspended, whether the addressee is `present`) and its MessageBus (`router`, `bus`).
Of the transport: `handler`, `nodes`, and `wire`, what Redis holds between two
processes, in order per pair. One action per stretch between two awaits:

- `StartBegin`, `Registered`, `Subscribed`, `StartFails`: FederationBus.start at the end
  of the bootstrap, with Redis not answering;
- `StopBegin`, `FederationStop`, `Unsubscribed`, `Unregistered`, `Cleared`:
  WorldLifecycle.stop around FederationBus.stop;
- `TickBegin`, `Drain` (one letter, up to the hook that is awaited), `DrainDone`,
  `AgentsDone`: newTick, drainInbound and the rest of executeTick; `Finish` and
  `StopAddressee` for the end of the ticks and the loss of an addressee;
- `Send`: send_cross_world_message through MessageBus.publish, by the router to the
  transport or on the spot when the writer lives in the world it writes to;
  `WireDeliver`, `WireLose`: Redis' pub/sub.

The in-memory transport and Redis differ in three places: when the handler is added,
whether a letter travels, and what may fail. Letters carry numbers, so that `arrived`
(history) tells their order; those in `Broadcasts` are addressed to `*`, which the bus
keeps in another list than the letters to one agent. `due` and `early` are history too.
A `Drain` that drops a letter is a step of its own though the code goes straight on:
more interleavings than the code has. A world is started and stopped once and runs one
loop: what overlapping loops do is Engine_Overlap's subject.

`Post` is the abstract promise: a posted letter may be lost, arrives once at most, where
it is addressed, never after a later one of the same sender.

### Speech (with Senses and Topics)
How an action reaches the others. `Senses` are PerceptionEngine and AttentionPolicy as
operators (range, attenuation, floor, intelligibility, explanation of what was not
delivered, relevance and budget of attention), `Topics` the TopicTracker; `Speech` has the
state: retained stimuli (`stims`), the tracker, the bus, `receipts`, the timeline (`line`),
places, who has the turn in a call and who was held back from which tick (`turn`, `held`), and each
agent's place in its tick. `OpenTick`, `Activate`, `CloseTick` are the
tick; `Begin` (`shouldSkipTick`, which ends the tick of an agent that is not to think), `Observe`
(`isActive` and `canSpeak`, before anything is read), `Act`, `Emit`, `Deliver`, `Route`, `Finish` the agent's tick and
`publishAction` with its cascade (perception, conversation, friends, place, everyone);
`Move` a tool that moves an agent at any time. Distances are on a line, intensities
percentages, the text of a message a set of words.

### Needs
`Bootstrap` is needsLoop.ts; a tick is `Open` (who is active in it), what each of these does by
itself, which is `Act` once per iteration and `HandOver`, or `Rest`, or `OwnTickFails` (its
actions are then lost, the energy they cost is not), in any order; then `Settle`, `Transform` per
action (the satisfier's credits), `NeedsTick` per agent (credits that are due, decay, sleep) and
`Close`. Values are thousandths, credits hundredths. The credits of a tick are kept as a set, each
with the rule and the action that gave it; what they are worth together is counted (`Worth`).

### Relationships
`Call`, `Read`, `Write` are a tool of RelationshipPlugin with its reads and writes in
turn, `Learn` what PersonAgent notes of who spoke to it, `BeginDecay`, `ReadPlan`,
`ApplyUpdates`, `ApplyRemovals`, `DecayDone` decayAndPruneBatch. The in-memory store
and Neo4j differ in when a change lands and whether a key can be created twice.

### Places
`BeginMove`/`EndMove` around the movement policy, `Fix` a position from outside,
`WorldTick` dates the fixes; `Leave`, `Arrive`, `SetOut`, `Reach`, `Consume` are the tools of
AssetPlugin over the store, one action per await. The world is a road.

### Memory
`SaveBatch`, `Lands`, `Fails` are operations of stores that take their time; `Consolidate`,
`ScoreBatch`, `Promote`, `Summarise`, `Delete`, `Reject` are a consolidation, of which two may
overlap, under each strategy; the model's answer may omit or repeat entries. `Sifting`, which
Memory, Senses and Speech share, is a filter over an array: the elements at some of its places.

### Persons
`NewTick` and `Letter` are the world; `Begin`/`Skip`, `GatherContext`, `Iterate`, `Perceived`,
`Respond`, `EndIterations`, `TickFails` a tick of PersonAgent, `ChatUpdates` what a chat makes of
a state: the internal state (with the records shared through the default), what
the model is told of letters, past and rules, and what is remembered. `RulesFor` is
RulesLoader and what getRulesForAgent makes of it. Whether an
iteration may begin is WorldEngine's and Scheduling's question and free here.

### Persistence
Every call is one statement, except an estimate of usage (five queries at once) and an
erasure (statements in a row, any of which may fail). The saves (`SaveMemoryEntry`,
`SaveStateSnapshot`, …, `SaveAgentConfig`, `GiveConsent`), a consolidation (`Digest`, `SaveKnowledge`,
`DeleteMemoryEntries`), `AskUsage` and `Estimate`, `Erase`, `DeleteAgentData`, `DeleteConsents` and
`EraseFails`, the engine's end, and the pages of persistenceApi as operators.

### Reports (with Analysis)
`Reports` collects through the plugin's hooks along a script, builds live and final
reports; `Analysis` are the analyzers as operators. They are checked against reference
definitions (paths, closure, shortest paths, pairs of events).

### Thinking, Chat, Plugins
`Thinking`: `Invoke`, `Think`, `Respond`, `RequestFails`, `Sleep`, `ExecuteTool` are the loop of
AgentGraph over a pooled adapter with its retries and cache. `Chat`: `Send`, `AskModel`, `Chunk`,
`Finalize`, `Fails` around the two awaits of a chat. `Plugins`: the hooks of one tick in
order, each through the plugins by their places in the chain: `TransformOne`, `TransformEnds`,
`OnWorldTick`, `AgentsAct`, `OnBatch`, `ParallelEnds`, `SequentialOne`, with the gate
of PrivacyCompliancePlugin among them, consents that change and plugins that come late (`Use`).

### Entities, Clients, Phones
`Entities`: `Add`, `RemoveEntity`, and the walk `NewTick`, `Emit` over the live Map under
them, `Perceive`, `Tell`. `Clients`: `Connect`, `List`, `Launch`, `Stop`, `CloseClient`,
`CloseTransport`, `Forget`, with servers that refuse, accept and fail, or cannot be closed.
`Phones`: `Request`, `Look`, `Reach`, `Text`, `Dial`, `SpeakBegin`, `SpeakEnd`, `HangUp`, `CutOff` over a store of
phones that `TransferAsset`, `SwitchPhone` and `RemoveAsset` change between any two awaits.

### Streams and Studio
`Streams` is one world that emits, the servers that keep the log and the rooms, and one
dashboard that connects, loads, joins, reads and commands. A change of an agent and its
announcement are apart: `ApplyBudgetPolicy` pauses or stops an agent at the start of its tick and
only raises a control event, which `ApplyControl` (ControlEventApplier) makes again, logs and
announces after the actions of the tick; what a control agent's budget decides later is dropped
by `NewTick` and never announced. A host's command (`Control`) is announced at once, and once
more by the tick. `Stop` comes at any await of a tick in flight, which goes on to its end with
actions and whatever events the bus still holds, while `Stopped` says the end and clears the
registry; `Pause` and `Resume` come in any phase. `dark` remembers whose last change nobody has
announced. Left out: the second loop that a `resume()` during a tick starts (WorldEngine's), a pause
that is resumed before the bootstrap ends, and a stop during the bootstrap (Clients'). `Studio` is several worlds and
runs, scenarios, analyses and a dashboard that selects among them, with requests that are
answered in any order.

### Composition
The engine's clock, the conversations and the phone exchange, the federation and the post
are related by refinement. `MCSociety` and `MCPlatform` put components side by side that do
not wait for each other: a behaviour is one of one of them (`part`), in one of its worlds,
which keeps the sum of their state spaces instead of the product. `MCScheduling` does the
same for two agents. Where components do interact (router, perception, bus and timeline;
hooks and gate; registry, engine and dashboard; graph, pool and cache), one module has them
all.

## 3. Runs

Passing runs:

| Run | Instance | Shows |
|---|---|---|
| Engine_World | 2 persons (one with a budget that stops it), 2 iterations, 2 ticks, errors, 2 host commands | decisions stick (DecisionsStick), apply() leaves plugins and lists up to date (AppliedBetweenTicks), one late action at most, stop() leaves nothing behind, every loop ends (liveness), ImplementsClock |
| Engine_Resume | 1 person, 1 control agent with a budget, 2 loops, 4 calls of pause/resume/pauseAgent | the clock bound with overlapping loops; a running world has a loop |
| Conv_Calls | 3 agents, 2 calls, 3 ticks, threshold 1 | the right to speak across an await, ImplementsExchange |
| Conv_Host | 3 agents, host conversations of 2 and 3 with a limit of turns or none, threshold 0 | live membership, round robin, staleness bound |
| Sched | budgets of a tick, an hour and a life, costs 1 and 3, hour 3, 8 ticks; and a wrapping cycle, cooldown 2, quota 2, hour 12, 16 ticks, chats | overrun of one iteration, one iteration beyond the life, routine kept |
| Federation | 2 worlds that write, either transport, 2 letters (one to `*`), one world may be stopped | a stopped world has left and a letter is read in the tick that takes it (ReachedOrGone), no letter stays queued while its world runs (liveness), ImplementsPost |
| Speech | 3 agents, a radio, 10 worlds, among them agents that skip ticks and a call | speech is heard in the first tick that the hearer is not held back from while it is kept, receipts match the bus, answers stay in their thread, causes come before effects |
| Society | needs, ties, places, memory, persons, persistence: 3 to 6 worlds each; reports on every graph of four agents and on a story | one property per part, what the inventory says makes it correct |
| Platform | batch of 5 under limit 2, minds, chats, plugins, studio, streams, entities, clients, phones: 1 to 5 worlds each | one property per part, and every wait ends (liveness) |

Runs that expect a violation state what a document or comment says and find a behaviour
of the code that contradicts it; each has a finding with the quotation:

| Run | What the words say | What the code does |
|---|---|---|
| Engine_Overlap | the tick loop is the single clock, `pause()` ends it | a `resume()` before the paused loop has ended starts a second one: two ticks at once |
| Engine_Commands | a control agent's command changes the agent's status | it is only announced on a bus that the next tick empties |
| Sched_Quota | the quota is per simulated hour | only an action starts a new hour; an agent whose quota is full never acts again |

Limits of passing properties, in their own words: RunningWorldHasLoop needs that no error
leaves `executeTick` (`LoopErrors = FALSE`), DecisionsStick that no control agent commands,
AppliedBetweenTicks that `stop()` was not called, HeardWhileKept that neither speaker
nor hearer moves and that there is, of the ticks that stimuli are kept for, one from which
the hearer is not held back, AssetsAddUp that no two used a resource at once, AgentsAreShown
that the agent's last change was announced, StopCloses excepts clients that never were held,
ShownIsSelected excepts answers that cross, RunsAreAccountedFor excepts the runs of an id that is registered again while one of them goes on,
ConsentIsLatest excepts reused ids.

**Bounds.** *Engine*: `start()` once, one `stop()` at a time, `Loops` calls of
`runLoop`, `MaxHostCalls` calls after `start()`, at most one command of a control agent
per evaluation, one control agent. Two ticks reach every hand-over from a tick to the
next; two persons and two host calls suffice for a decision to be overtaken by
another and for one agent to be at work while another one changes. Two loops are needed
for an overlap, and four calls pause and resume around one; `Loops` is {1, 2}, so that `resume()` starts one
loop beside or after the first, and a third is beyond the bound.
*Conversations*: `Ids` conversations, `Lines` lines per iteration, `MaxTick` ticks. Three
agents and two conversations give every way of two calls to compete for an agent; a
threshold of 0 or 1 makes conversations stale within two or three ticks. Agents are
symmetric where no host list names them. *Scheduling*: `MaxTick`, `ChatCap`; hours of 3
and 12 ticks are crossed several times, costs of 1 and 3 hit a limit exactly and beyond.
*Federation*: `Worlds`, `Writers`, `Stoppable`, `MaxLetters`; ticks are not counted, so
a world makes any number of them. Two letters are one of each list of the bus, from one
world or both, and the least that can be swapped; only one world is stopped, the other
one goes on writing to it.
*Speech*: `until` (1 to 4 ticks; `Retention` is 3, one more than the engine's default, so that
there are two later ticks to hear in and to be held back from; topics expire after 1),
`reach` (positions of a move), three agents who think for 2, 1 and 3 units of time, so that
answers overtake one another. In *Busy* an agent may skip any tick or be paused after its
context is gathered (`sparing`: schedule, cooldown, budget and pause are one choice, Scheduling
says when each falls), in *OnThePhone* two agents are in a call and each waits for its turn. *Society and Platform*: each world is a record at the
head of its section in `MCSociety`/`MCPlatform` that says how many ticks (`until`), calls
(`requests`, `writes`, `erases`, `asks`, `commands`, `loads`, `changes`, `chats`) and members it
has. They are chosen pairwise: two ends of a tie and a witness, two users of one session and
one of another agent, two consolidations, two worlds and an id used three times, an erasure between two
writes, a cache one smaller than the prompts, a log and a window one shorter than the
events, one entity before and one after the one that changes. All graphs of four agents
whose six ties have one of three strengths (three of the ties: one of two) are analysed.

**Deadlock** is not checked: every one of these systems may stop (the batch is
answered, the world has made its ticks, the bound on ticks or calls is reached). That they
stop only where they should is LoopsEnd and EveryWaitEnds.

**Fairness.** Weak fairness of each loop's own steps, of the bootstrap, of a begun
`stop()`, of each task of a batch and of the steps of a thought: everything they await
(models, stores, timers, hooks) is taken to answer in the end, with a value or an error,
and the event loop runs what is ready. The host owes nothing; an error is never bound to
happen. In Federation only the steps of each world's tick are fair; Redis owes nothing.
The other parts are checked for safety and use no fairness.

## 4. Proofs

All theorems hold for every value of the constants their modules assume; a further
hypothesis is stated in the theorem and named below. Every inductive invariant was checked
by TLC on the run's instance before it was proved.

- **Services_proof**, batches: BatchSafety (from BoundHolds, NeverIdle and
  CompleteWhenResolved) and NothingAfterSettlement. The bound is not inductive: the invariant says that the
  tasks taken are exactly `1..nextIndex`, that the counters `running` and `completed`
  are the cardinalities of the tasks in those states, and that a filled slot holds its
  task's outcome. The cardinality steps are lemmas over FiniteSetTheorems.
- **WorldEngine_proof**, in the order of the module:
  - TypeCorrect, by `TypeInv`, which adds to the types that a loop counts no iteration it
    has no room for (`done < Iterations` at a model call);
  - ClockBound, with resume() too: only the top of the loop moves the clock, below maxTicks;
  - RunningHasLoop, unless an error that nothing catches ends a loop (`LoopErrors = FALSE`;
    that such an error leaves a running world without one is said in section 5);
  - EngineImplementsClock, for hosts that never call `resume()`. The mapping
    needs that there is at most one loop, that it is unused until launch, and that it
    sleeps only outside a tick; every action then maps to a step of the clock or a
    stutter. Engine_Overlap is the counterexample without the hypothesis;
  - AtMostOneLateAction, likewise without `resume()`: that a stopped agent publishes at most
    the answer it was waiting for needs that whoever works is of the batch (`WorkIsInBatch`)
    and that its late action is its last (`LateIsOver`);
  - StopLeavesNothing, for any host and any number of loops. `StopInv` follows `stop()` from
    await to await: from the first stretch on all agents are stopped, and who left the
    registry before was;
  - NewsIsApplied, without `resume()`: `AppliedInv` says of every agent whose status the
    plugins have not been told that the event is on the bus of this tick and that this tick
    has still to come to apply() (`NewsIsPending`), and that no stopped person
    is in the lists beyond it (`ListsAgree`);
  - DecisionsAreKept, for worlds without control agents. Its
    invariant says that the events of an agent on the bus are the trace of its
    transitions: the last one leads to its present status, nothing follows a stop. A
    replay from the status reached ends there again. Engine_Commands shows why control
    agents are excluded: their commands are announced without being made.
- **Conversations_proof**: MembershipHolds and StaleBounded for any host, with the
  inductive invariant that a speaker takes part in its conversation and membership
  leads to an active one; SpeakerKeepsTheTurn for any host, because a turn passes only by an
  answer or a line of the speaker itself and an agent does one of them at a time (a
  conversation held across the await exists, `HeldIsStarted`); TurnsGoRound for hosts whose
  groups list nobody twice (`Distinct`; section 5 says what happens otherwise), the index of
  the speaker being the only place where it is listed; BusyLine and
  ConversationsImplementExchange when the host
  starts no conversation of its own (`Groups = {}`), from the stronger fact that each
  participant of an active conversation is a member of it. The steps are
  first reduced to five kinds (`KindsOfStep`), so each fact is proved per kind.
- **Scheduling_proof**: LifetimeHolds with any chats, from the invariant that no
  iteration has begun beyond the life while the check is still to be made; OverrunBound
  without chats (`ChatCosts = {}`), which needs that at every model call the budget was
  looked at since the last record (`Checked`); ScheduleHolds, the quota and the cooldown of
  what is recorded.
- **Federation_proof**: FederationTypes and FederationImplementsPost for any worlds, any
  number of letters and both transports. The invariant `MailInv` says that every letter
  in a queue, a drain or between two processes is where it is addressed or on its way
  there, that these hold the letters of one sender in the order of their numbers, and
  that what arrived is ahead of what is drained, that ahead of what is queued, and that
  ahead of what travels; no letter travels outside Redis. The steps are reduced to the
  six things that can happen to a letter (`WaysOfALetter`), each of which is a step of
  Post or a stutter. LettersReachOrWorldIsGone needs where a letter of the tick's beginning
  can be at each phase of the tick (`TickReads`), and that a world that stops after its
  start leaves (`StartLeaves`, `StopCloses`).
- **Speech_proof**: ReceiptsTellTheBus and EffectsFollowCauses, for any agents, senses,
  audiences and delays. The first is inductive together with what a receipt and a message on
  the bus are (`ReceiptInv`, `BusInv`): the router names its recipients in the receipt in the
  same step that it publishes to them, and nobody publishes under the number of an earlier
  action (`Counted`). The second needs of the timeline only that what is on the bus, and so
  what an agent has read before it thinks, is behind its cursor (`LineInv`). `SpeechAssumption`
  says that agents, their senses and audiences are agents, and that none has the name of
  the bus's `"*"`.
- **Services_proof**, clients: ClientsStayKept, for plans without an agent listed twice or an agent
  with an empty list of servers (`PlansAreSound`). Its parts: the bootstrap holds the sessions
  of the agents it has passed and of none it has not come to (`BootInv`), tools are those of
  the servers that answered (`ToolsInv`), what is open and not held has been counted as such
  (`OpenInv`), and closing takes what it held one after the other (`ClosingInv`).
- **Services_proof**, entities: EmittersAreHeard, for any entities with a place of their own in the Map
  (`GroundsAreSound`). At every await what has been heard lies behind the walk and each of it once
  (`FiredInv`), and what was there and has not been heard lies ahead of it (`AheadInv`), in
  the order of the stamps first and of the emitters then; an entity added again has a new
  stamp, behind all others. That the walk finds the nearest emitter is `FollowingIs`, from
  the least element of a set of numbers. The indexes by kind agree because removing and adding
  commute with indexing (`RemovedFromItsKind`, `AddedToItsKind`).
- **Services_proof**, minds: MindsStayServed, for any agents, models, answers and sizes of a cache but 0
  (`MindsAreSound`; a cache of size 0 would hold one entry). Behind each message with calls stand
  the answers to its first calls, in their order, and what is pending is exactly the rest of them
  (`AnswersOf`, `InOrder`); when nothing is pending, as at every request, all are answered
  (`AllInOrder`). A cache stays sound, one entry per prompt and no more than it may hold, through
  eviction, expiry and two stores of one prompt (`TouchedIsSound`, `StoredIsSound`, `SweptIsSound`,
  the last from the order in which a filter counts what it keeps, `NthIs`).
- **Desk_proof**, chats: ChatsStayWhole, for any senders, streams and stops and any length of a
  session but 0 (`ParloursAreSound`; a cut at 0 would keep everything). A session's messages are
  the last of what was answered in it, which stays so because the last of what has been cut
  already, one exchange longer, are the last of all of it (`LastOfLast`, `ToldOneMore`); a
  prompt is that of an earlier moment, of which more has been answered since
  (`PromptsAreWhole`, `PrefixStays`); a call under way holds a session of its own agent
  (`CallsHaveSessions`).
- **Desk_proof**, studio: StudioStaysTrue, for any desks. That a run ends with its own world needs
  that the Map holds one run of a world and that no other engine runs under the name of a run
  that is spoken of (`MapIsSingle`): without the second the end of a forgotten engine would stop
  its record, and so it does (section 5). That an analysis of an ended run is of the final
  report needs the same of the analyses still under way (`FinalIsFinal`). The dashboard shows
  the selected world because either it does already or an answer about that world is due
  (`ShownOrDue`), and nothing on the socket or in an answer speaks of a tick that was not
  reached (`NewsIsTrue`).
- **Society_proof**: PlacesStayTrue, for any agents, cells, radii and worlds whose places are not
  negative (`RoadsAreSound`). That the grid finds exactly who is near needs two things: the grid
  and the cells are those of the places (`MapIsTrue`, kept by `MapMoves` through the deletion of
  empty cells), and places within a radius are in cells no further apart than the ring that is
  searched (`CellsNear`, from the bounds of a division). The trails continue because a move under
  way starts where its agent is unless a fix came (`MovesStartHere`), and because cutting a
  trail keeps its last record (`KeptRecords`). Nobody is in two venues because who enters has
  left (`EnteringHasLeft`); a resource adds up because, while none has raced for it, one uses it at
  a time and there is enough (`UsesAreCovered`).

- **Speech_proof**, perception: SpeechIsHeard, for any agents, senses and places and any retention. Speech is
  heard in the first later tick, among those that it is kept for, from which the hearer is not
  held back: not off its schedule, in a cooldown, over its budget or paused, nor waiting for its
  turn in a call (`held`). The engine keeps a stimulus for one more tick when nothing is
  configured (`engine/WorldEngine.ts:62`), so an agent that is held back from that one never
  hears it; with a retention of one tick the statement is about no tick. What a receipt names as
  perceived is on a row of the bus for that long (`KeptInv`), its hearers are those whom it reaches from where the two stood,
  and who has gathered a context since has it in what was heard (`HeardInv`); of the agents of a
  tick, only those that still wait may not have. Numbers are integers (`NumbersAssumption`); an
  intensity that is not a number is excepted in the property.
- **Speech_proof**, threads: AnswersKeepTheirThread, for any agents, delays and expiry of topics
  (`WindowIsThere`: a topic lives a tick at least). The tracker's two maps mirror each
  other (`Listed`, `Indexed`); a stimulus is in them no earlier than it is published (`FreshInv`);
  and the topic that a percept carries is the one under which the tracker has what was
  perceived, or none any more (`Filed`): so on the bus (`StimuliInv`), in what an agent
  perceived, ranked and is about to say (`HeldInv`), although topics expire and are reopened
  between its awaits.
- **Services_proof**, memory: MemoryStaysKept, for any strategies, answers and failures over finitely
  many entries (`BrainsAreSound`: no entry is saved twice, a batch to score is not empty). The two
  stores differ by what is under way only (`StoresFollow`), which concerns entries of the day, while
  a consolidation has read those of days before (`CallsReadThePast`): so two of them and the saves
  cannot meet. What is deleted was meant and is summarised first (`SummarisedFirst`).
- **Services_proof**, phones: PhonesStayHonest, for any callers and directories (`OfficesAreSound`).
  A phone can change hands at every await; so the invariant speaks of numbers that were had
  (`NumbersInv`) and of who held one, or was on, since it was asked for (`DirectoryInv`). A call's lines
  alternate because whoever is about to say one has the turn, across the await of `speak_in_call`
  (`Turn`), and after an end only a line begun before it can follow (`LastWord`). Excepted
  are calls to oneself.
- **Scheduling_proof**, hooks: HooksStayKept, for any plugins, hooks, failures and late arrivals
  with one name per plugin and one gate (`NetsAreSound`; the registry's Map has the first, the
  consents of one PrivacyCompliancePlugin are the second). While an action is on its way, the
  plugins up to the cursor have been offered it once each, and it is what the last of
  them that did not fail made of it (`OnItsWay`); behind the gate it shows nothing it hides. Of a
  notification, whoever was there at the start and is not among those still to be told was told
  once, the parallel ones before the others and these in their order (`ToldOnce`, `BeingTold`).
- **Society_proof**, the database: StoreStaysTrue, for any rows, erasures, failures and consolidations.
  Rows are numbered anew and saved (`TablesInv`); who is gone was erased or consolidated
  (`LostInv`); what an erasure has passed is younger than it, or distilled from what a consolidation
  had read by then (`RowsPassed`, `ConsentsPassed`, `DigestsPassed`), so that nothing older can come
  back behind it; what one counts is gone and counted by no other (`GoneInv`). An estimate is between what
  there was and what there is, as rows only become more without an erasure (`Bounded`), and the last
  decision on a consent is still the youngest (`Latest`).
- **Society_proof**, persons: PersonsStayThemselves, for any casts whose energies are numbers and whose
  born states are as the configuration types them (`CastsAreSound`). Nobody rests on a letter
  because who rests has none waiting (`RestInv`) and a tick's letters are told or wait
  (`LettersInv`). What a model is not told of the past is older than all that it is told: the context
  was the latest entries, and what is remembered since is of this tick (`PastInv`). That the rules told are the last of each id by priority, in their
  order, is `LineIsRight`, from lemmas about sorting as ranking (`PlacesInLine`, `OneStays`).

- **Society_proof**, needs: NeedsStayMet, for any agents and any needs whose regeneration is not
  negative (`SettingsAreSound`, which the bonus of sleep asks for), any iterations, crews and
  actions. Until an agent's needs advance they are what they were when the tick began, and what is
  owed to it is what the actions seen so far deserve (`Pending`); each action's credits are new,
  as none that was seen bears the number of one still to be seen (`CreditsInv`), so their worths
  add up (`WorthsAdd`) and none is counted twice. Advancing turns the one into the other
  (`AdvanceIs`), as clamping before the decay loses only what is below nothing; sleep takes
  20 thousandths more, which is more than a decay below 10 adds twice (`SleepIsStronger`).

Only model-checked:

- liveness (LoopsEnd, EveryWaitEnds, QueuedLettersAreTaken), which is out of reach of the
  proof system;
- TiesAreTrue (decay, cuts and cascades of writes by
  folds, SortSeq and SelectSeq), MirrorIsTrue (what was said on a socket, by SelectSeq, and lists
  sorted by SetToSortSeq) and ReportIsExact, which compares the analyses with
  their recursive reference definitions: what such an operator computes needs induction
  over data.

No module that is proved about declares a RECURSIVE operator.

## 5. Observed while modelling

What the code does where a reader may expect something else. No run carries these
remarks; the modules follow the code, and properties that would fail for one of these
reasons say so in their wording.

*Engine, agents, conversations, schedules, federation*

- a start is announced before any tick, and the first `newTick` empties the bus, so plugins
  never hear of it (`messaging/MessageBus.ts:117`; `docs/plugins.md:49`);
- a `stop()` during bootstrap is overwritten by `status = "running"`
  (`engine/WorldEngine.ts:184`; `architecture.md:24`);
- an error in `evaluateActions` or in the relationships' decay ends the loop and leaves the
  world running (`engine/internal/TickOrchestrator.ts:205`; `guide/ticks.md:7`);
- `stop()` clears the bus and the registries while a tick is still in flight
  (`engine/internal/WorldLifecycle.ts:27`; `scaling.md:250`);
- the announcement of a call is lost with the tick it is made in, unless its callee acts
  later in that tick (`messaging/MessageBus.ts:63`; `PhonePlugin.ts:177`);
- `canSpeak` is asked before the model is called, and the answer is published wherever
  the turn has gone meanwhile (`agents/PersonAgent.ts:176`; `architecture.md:151`);
- a `stop()` during the federation's `start()` finds nothing to unsubscribe, and the
  subscription made afterwards stays (`federation/FederationBus.ts:63`); a world that has
  made its ticks without `stop()` stays listed too, and its queue goes on collecting;
- `tickCleanup` compares the age of a conversation with its number of turns, which is not
  an idle time (`messaging/ConversationManager.ts:192`; its comment at line 28);
- the policy `degrade` skips ticks like the others (`agents/BaseAgent.ts:226`;
  `scaling.md:84`);
- a per-tick budget never makes an agent skip, its counter being reset before the agents'
  ticks (`TickOrchestrator.ts:76`; `scaling.md:65`);
- the budget's check before the first iteration uses what was read at the tick's beginning
  (`agents/PersonAgent.ts:150` and its comment at 149);
- ADR-001 has the federation's queue drained before `newTick`; the code drains it after
  (`TickOrchestrator.ts:43`), which is what makes the letters readable.

*Engine and entities*

- `start()` twice runs two bootstraps and two loops; `maxConcurrent` 0 launches nothing and
  the batch never settles; a participant listed twice breaks the round robin;
- with two overlapping loops a stopped person can stay in the lists, and what is stopped in
  the last tick before `stop()` is not replayed any more;
- stopped agents stay registered with the PerceptionEngine (only `removeEntity` unregisters,
  and it does so for any id, an agent's too); an entity added again without senses keeps its
  old registration;
- an entity added again during the walk over the entities is heard twice in that tick, and a
  hook that does so at every stimulus keeps the walk going for ever
  (`engine/internal/TickOrchestrator.ts:261`); changing `entity.kind` in place leaves a stale
  index.

*Persons and thinking*

- the default internal state is copied shallowly and updates are merged into its records
  (`agents/BaseAgent.ts:80-87, 127-130`): agents born without beliefs, knowledge or custom
  fields share them, across worlds of the process, although beliefs are said to be per agent
  (`docs/index.md:20`); a configured initial state is mutated. SelvesAreApart excepts the
  default's records;
- an agent with an active need never takes its free rest, even when exhausted; actions of
  iterations before a failing one are published and never remembered; entries of one batch
  have one timestamp, so a cut keeps the first ones; the second iteration of a tick is not
  told of the first; voice messages are not read in perception mode;
- the fingerprint of the adapter pool ignores temperature, maxTokens and retries: agents
  share the adapter of the first; cached hits are recorded as token usage again; the last
  tool answers before the loop limit are not thought about, and the last message, a tool's,
  is parsed as the action.

*Speech and perception*

- a sense without range of a perceiver without place delivers with intensity NaN, although
  the explanation says `no_location`; speech that "evaporates" (`MessageRouter.ts:104`) stays
  retained and can be perceived at the next tick; a reached recipient who moves away never
  sees the message; every type of action is published as speech; under the policy `error`
  the publication throws after its receipt;
- answers to an entity's speech in its own tick are not in its thread.

*Needs, ties, places*

- the bonus of sleep is stored in `regenPerTick` and compounds; decay is charged twice while
  asleep; an agent that its schedule leaves out counts as asleep, whatever the reason;
- two simultaneous declarations both stay "proposed"; a tie broken from one side and declared
  again is proposed while its reverse is mutual; a testimony that read before a break
  overwrites it with "validated"; `getActiveNeighbors` cuts before it sorts, other than its
  comment (`graph/NeighborhoodManager.ts:64-66`); the decay since the last interaction is
  subtracted in full at every tick; in Neo4j a tie can be created twice, and each of its ends
  may decay it once per tick; seeds are one direction only;
- a cell's column uses its own latitude's scale, so `findNearby` misses neighbours far from
  the prime meridian (its comment: `location/LocationIndex.ts:138`); of two fixes of an agent
  in a tick one stays dated -1; capacity is checked before the await that enters, so two who
  checked at once both enter; two who use a resource at once are both told they consumed it;
  use and ownership are not checked against each other.

*Memory and persistence*

- promoted entries are not deleted, so each consolidation promotes them again; a lone low
  entry is deleted without a summary; vectors stay when their deletion fails after that of
  the rows; `recall()` always answers with no knowledge; the memory store is never pruned;
- an erasure keeps agent configurations and the memory, vector and graph stores, a failed
  statement leaves it half done, and what is saved meanwhile stays; a request for an ended
  world acts on the latest engine's world; equal timestamps make "latest" arbitrary;
  `saveAgentConfig`, `saveConversation` and `restoreState` have no caller in src.

*Chats, plugins, clients, phones*

- a session id used with another agent replaces the session; an odd `maxHistory` splits an
  exchange; two concurrent chats of a session miss each other; a session found by id ignores
  the user; a chat that began before its agent stopped is answered;
- the audit's category is computed from the reduced action; a consent may change between gate
  and audit; a consent lookup that throws lets the action pass as it is; messages and
  stimuli were published before the gate; a hook that returns nothing makes the action
  undefined for the plugins after it; a plugin registered during a tick joins hooks that are
  under way; a parallel hook that throws synchronously ends the whole hook;
- a client leaks if its tools cannot be listed, or if it connects after the stop began; a
  second `connectAgent` forgets the first clients; a transport stays open if its client's
  close throws;
- an agent with two phones can write to and call itself; the end of a call by clean-up or
  host is told to nobody; `resolve` takes the first phone with a number, `isReachable` the
  lowest of its owner's; a text may reach who has just given the phone away.

*Streams, studio, reports*

- agent events reach a room's members twice; two plugins announce each tick; `resume`
  announces before it resumes; nothing is announced after "running" during the bootstrap, so
  who connects in between keeps "bootstrapping"; a pause during the bootstrap is announced
  and overridden; removed agents show "idle"; a refused `pauseAgent` is announced; starts,
  the budget decisions of control agents and, unless a tick in flight applies it, the world's stop
  are not streamed as statuses of agents; a person's budget decision is streamed after the
  actions of its tick; a host's command during a tick is announced twice;
  `agent:moved` is not emitted for tools' moves (`streaming/types.ts:35`);
- registering a world id again hides the earlier run, which is never marked stopped, and
  whose end stops the record of the second; its engine, if it was ended under the name of
  another, goes on ticking the record of a third (`studio/StudioServer.ts:181-188, 205-223`); a scenario that fails is only logged; world
  statuses carry no id; answers out of order may show another world; loaded events discard
  live ones that came meanwhile; a narrative of a running world is cached;
- every live report adds the violations to the timeline again, filling its cap; a speech is
  filed under a conversation that has ended (`analysis/DialogueAnalyzer.ts`); the response
  rate can exceed 1; density counts ties to unknown agents; a policy at tick 1 has tick 1
  both before and after it.

## 6. Not modelled, and the plan

Not modelled, and why:

- **LifeSkillsPlugin, RealWorldToolsPlugin**: tools without state that return texts drawn at
  random or fetched from outside services; nothing to interleave;
- **ProfilePromptBuilder, prompts, narrative texts, archetype scores**: wording and scores,
  pure functions of their input that no other component depends on;
- **ReportTypes and the other type files**: declarations;
- **floating-point measures** (eigenvector centrality, variance of moods, contagion): rounding
  is not something TLA+ checks better than a test;
- **rendering in `ui/app.js`**, StoreDetector, files of rules, CLI, re-exports, presets of
  interaction: no state of their own, or read once at start;
- **InMemorySocialStores, RedisMemoryStore**: the first has no caller in src, the second is
  the in-memory list behind a network;
- databases, the HTTP clients, Socket.IO, Redis and the MCP SDK are external: modelled from how
  the code uses them (order, failure, loss).

Left to do, in this order: proofs for ties (first that a mutual one was declared by both ends),
and the dashboard, for which their folds and filters would be written by places as Memory and
Senses are (`Sifting`); composition of the federation with the engine's overlapping loops, and of a
tick's needs, ties and speech in one module.
