-------------------------------- MODULE Streams --------------------------------
(***************************************************************************)
(* What a connected dashboard is told of a running world: the two plugins that   *)
(* stream it (src/streaming/SocketIOStreamPlugin.ts, src/studio/StudioPlugin.ts),  *)
(* their servers (src/streaming/WorldSimServer.ts, src/studio/StudioServer.ts)     *)
(* and the handlers of one client (src/studio/ui/app.js).                      *)
(*                                                                         *)
(* Time within a tick is the number of the event: IntraTickTimeline's offsets       *)
(* never decrease with it.  Which world is shown is Studio's question, what the     *)
(* engine does WorldEngine's: here a world has one loop at a time, a pause of the   *)
(* bootstrap is not resumed before it ends, and a stop comes after the bootstrap, at   *)
(* any await of a tick in flight, which then goes on to its end.                   *)
(***************************************************************************)
EXTENDS AgentLifecycle, Integers, SequencesExt, FiniteSetsExt

CONSTANTS
    Agents,
    Stages,      \* [agents: those of the world; controls: its control agents; policies: of the budgets, for
                 \* agents that run out; studio: StudioServer or WorldSimServer; until: ticks; commands, worlds (its
                 \* commands), rooms, visits, snapshots, loads: bounds on the client's]
    Cap,         \* events in the list of the client (500)
    LoadLimit,   \* events of an answer to /events (200)
    Window       \* bound: messages under way when the world takes a step

VARIABLES
    stage,
    phase,       \* "new", "bootstrap", "registering", "registered", "loop", "tick", "acting",
                 \* "announcing", "logging" or "watching"
    stops,       \* calls of stop() under way
    world,       \* the engine's status
    tick, seq,   \* of the clock, and of the tick's timeline
    registry,    \* registered agent -> status
    minds,       \* agents of the batch -> "due" or "thinking"
    raised,      \* control events on the list of the bus's tick
    acted, announced,  \* events of the tick's actions, and how many the plugins were told
    log,         \* the event log, in order
    commands,    \* commands so far
    online, rooms, wire,   \* the client's connection
    loading, answer,       \* its request for the events
    shown,       \* what it shows: [agents, world, tick, events]
    visits,
    \* history:
    got,         \* events the client's list is made from
    dark,        \* agents whose last change was not announced
    misled       \* the status last announced is not the world's, and known not to be

tickVars == <<phase, stops, minds, acted, announced>>
worldVars == <<world, tick, seq, registry, raised, tickVars, log>>
clientVars == <<online, rooms, wire, loading, answer, shown, visits>>
vars == <<stage, worldVars, commands, clientVars, got, dark, misled>>

Init ==
    /\ stage \in Stages /\ phase = "new" /\ world = "idle" /\ tick = 0 /\ seq = 0
    /\ stops = 0 /\ registry = <<>> /\ minds = <<>> /\ raised = <<>>
    /\ acted = <<>> /\ announced = 0 /\ log = <<>> /\ commands = 0
    /\ online = FALSE /\ rooms = {} /\ wire = <<>> /\ loading = "none" /\ answer = <<>>
    /\ shown = [agents |-> <<>>, world |-> "none", tick |-> 0, events |-> <<>>]
    /\ visits = [connects |-> 0, asks |-> 0, loads |-> 0]
    /\ got = {} /\ dark = {} /\ misled = FALSE

(***************************************************************************)
(* To the client: io.emit, and io.to(room).emit for those who joined.          *)
(***************************************************************************)
Emit(msgs) == wire' = IF online THEN wire \o msgs ELSE wire

StatusMessage(s) == <<[kind |-> "world:status", world |-> s]>>
AboutAgent(kind, event, new) ==
    LET msg(via) == [kind |-> kind, new |-> new, event |-> event @@ [via |-> via]]
    IN  <<msg("all")>> \o (IF event.of \in rooms THEN <<msg("room")>> ELSE <<>>)

\* Only WorldSimServer announces a start, a pause and a resume.
Announce(s) == Emit(IF stage.studio THEN <<>> ELSE StatusMessage(s))

\* The engine's agents; WorldSimServer lists all it was given, those it does not find as idle.
Listed ==
    IF stage.studio THEN registry ELSE registry @@ [a \in stage.agents |-> "idle"]
Snapshot == <<[kind |-> "world:snapshot", agents |-> Listed, world |-> world, tick |-> tick]>>

Event(of, type) == [tick |-> tick, seq |-> seq + 1, of |-> of, type |-> type]

(***************************************************************************)
(* The world.                                                               *)
(***************************************************************************)
Start ==
    /\ phase = "new" /\ phase' = "bootstrap" /\ world' = "bootstrapping"
    /\ Announce("bootstrapping")
    /\ UNCHANGED <<stops, tick, seq, registry, minds, raised, acted, announced, log, dark, misled>>

\* onBootstrap says "running" before it is.
BootstrapHook ==
    /\ phase = "bootstrap" /\ phase' = "registering" /\ Announce("running")
    /\ misled' = ~stage.studio
    /\ UNCHANGED <<stops, world, tick, seq, registry, minds, raised, acted, announced, log, dark>>

RegisterAgents ==
    /\ phase = "registering" /\ phase' = "registered"
    /\ registry' = [a \in stage.agents |-> "idle"]
    /\ UNCHANGED <<stops, world, tick, seq, minds, raised, acted, announced, log, wire, dark, misled>>

\* The last status the client has been sent.
Told ==
    LET said == SelectSeq(wire, LAMBDA m : m.kind \in {"world:status", "world:snapshot"})
    IN  IF said = <<>> THEN shown.world ELSE Last(said).world

\* Agents and world start without a word: who came after onBootstrap, or has seen a pause
\* since, does not know.
Started ==
    /\ phase = "registered" /\ phase' = "loop" /\ world' = "running"
    /\ registry' = [a \in DOMAIN registry |-> After("start", registry[a])]
    /\ dark' = dark \cup DOMAIN registry
    /\ misled' = (Told # "running")
    /\ UNCHANGED <<stops, tick, seq, minds, raised, acted, announced, log, wire>>

\* The control events of the last tick are dropped with its list.
NewTick ==
    /\ phase = "loop" /\ world = "running" /\ tick < stage.until
    /\ phase' = "tick" /\ tick' = tick + 1 /\ seq' = 0 /\ raised' = <<>>
    /\ UNCHANGED <<stops, world, registry, minds, acted, announced, log, wire, dark, misled>>

\* The plugin's hook and, in the studio, the engine's handler: the same message; then the
\* agents that run are selected.
TickHook ==
    /\ phase = "tick" /\ phase' = "acting"
    /\ LET said == <<[kind |-> "world:tick", tick |-> tick]>>
       IN  Emit(IF stage.studio THEN said \o said ELSE said)
    /\ LET selected == {a \in DOMAIN registry \ stage.controls : registry[a] = "running"}
       IN  minds' = [a \in selected |-> "due"]
    /\ UNCHANGED <<stops, world, tick, seq, registry, raised, acted, announced, log, dark, misled>>

\* An agent's tick: it thinks, unless it was stopped or paused meanwhile, its schedule keeps
\* it, or its budget is spent; what it then comes to may be nothing.
IsActive(a) == a \in DOMAIN registry /\ registry[a] = "running"
Done(a) == minds' = Restrict(minds, DOMAIN minds \ {a})

Begin(a) ==
    /\ phase = "acting" /\ a \in DOMAIN minds /\ minds[a] = "due" /\ IsActive(a)
    /\ minds' = [minds EXCEPT ![a] = "thinking"]
    /\ UNCHANGED <<phase, stops, world, tick, seq, registry, raised, acted, announced, log, wire,
                   dark, misled>>

Rest(a) ==
    /\ phase = "acting" /\ a \in DOMAIN minds /\ Done(a)
    /\ UNCHANGED <<phase, stops, world, tick, seq, registry, raised, acted, announced, log, wire,
                   dark, misled>>

Act(a) ==
    /\ phase = "acting" /\ a \in DOMAIN minds /\ minds[a] = "thinking" /\ Done(a)
    /\ acted' = Append(acted, Event(a, "action")) /\ seq' = seq + 1
    /\ UNCHANGED <<phase, stops, world, tick, registry, raised, announced, log, wire, dark, misled>>

\* A spent budget pauses or stops the agent, and nobody is told yet: the event it raises is
\* applied later in the tick.
ApplyBudgetPolicy(a, policy) ==
    /\ policy \in stage.policies /\ IsActive(a)
    /\ \/ phase = "acting" /\ a \in DOMAIN minds /\ minds[a] = "due" /\ Done(a)
       \/ phase \in {"logging", "watching"} /\ a \in stage.controls /\ UNCHANGED minds
    /\ registry' = [registry EXCEPT ![a] = After(policy, registry[a])]
    /\ raised' = Append(raised, Event(a, policy)) /\ seq' = seq + 1 /\ dark' = dark \cup {a}
    /\ UNCHANGED <<phase, stops, world, tick, acted, announced, log, wire, misled>>

EndActions ==
    /\ phase = "acting" /\ minds = <<>> /\ phase' = "announcing"
    /\ UNCHANGED <<stops, world, tick, seq, registry, minds, raised, acted, announced, log, wire,
                   dark, misled>>

AnnounceAction ==
    /\ phase = "announcing" /\ announced < Len(acted) /\ announced' = announced + 1
    /\ Emit(AboutAgent("agent:action", acted[announced + 1], ""))
    /\ UNCHANGED <<phase, stops, world, tick, seq, registry, minds, raised, acted, log, dark, misled>>

(***************************************************************************)
(* A command of the client or the host, or a control event of the tick: it is     *)
(* logged and announced whether or not the agent makes the transition.  For an     *)
(* agent that is not registered the command fails and the event is skipped.  A       *)
(* transition raises a control event, which the tick makes, logs and announces      *)
(* once more; those raised after it has done so, it never sees.                    *)
(***************************************************************************)
\* Fault: the announced status is the one that was asked for.
AskedFor(type, status) == To(type)
NewStatus(type, status) == After(type, status)

Changed(type, a, agents) ==
    IF type = "stop" THEN Restrict(agents, DOMAIN agents \ {a})
    ELSE [agents EXCEPT ![a] = After(type, agents[a])]
StatusSaid(event, status) ==
    AboutAgent("agent:status", event,
               IF event.type = "stop" THEN "stopped" ELSE NewStatus(event.type, status))

ApplyEvent(applied, event) ==
    IF event.of \notin DOMAIN applied.agents THEN applied
    ELSE LET status == applied.agents[event.of]
         IN  [agents |-> Changed(event.type, event.of, applied.agents),
              seq |-> applied.seq + (IF Legal(event.type, status) THEN 1 ELSE 0),
              said |-> applied.said \o StatusSaid(event, status),
              logged |-> Append(applied.logged, event)]

\* apply(tick): all of them, in the order they were raised.
ApplyControl ==
    /\ phase = "announcing" /\ announced = Len(acted) /\ phase' = "logging"
    /\ LET applied == FoldLeft(ApplyEvent, [agents |-> registry, seq |-> seq,
                                            said |-> <<>>, logged |-> <<>>], raised)
       IN  /\ registry' = applied.agents /\ seq' = applied.seq /\ Emit(applied.said)
           /\ log' = log \o applied.logged
           /\ dark' = dark \ {applied.logged[i].of : i \in DOMAIN applied.logged}
    /\ UNCHANGED <<stops, world, tick, minds, raised, acted, announced, misled>>

\* Only then the actions are logged, after the control agents have evaluated them.
LogActions ==
    /\ phase = "logging" /\ phase' = "watching"
    /\ log' = log \o acted /\ acted' = <<>> /\ announced' = 0
    /\ UNCHANGED <<stops, world, tick, seq, registry, minds, raised, wire, dark, misled>>

EndTick ==
    /\ phase = "watching" /\ phase' = "loop"
    /\ UNCHANGED <<stops, world, tick, seq, registry, minds, raised, acted, announced, log, wire,
                   dark, misled>>

EndOfTicks ==
    /\ phase = "loop" /\ world = "running" /\ tick = stage.until
    /\ world' = "stopped" /\ Emit(StatusMessage("stopped")) /\ misled' = FALSE
    /\ UNCHANGED <<tickVars, tick, seq, registry, raised, log, dark>>

Control(type, a) ==
    LET stamped(n) == [Event(a, type) EXCEPT !.seq = seq + n]
        legal == Legal(type, registry[a])
        event == stamped(IF legal THEN 2 ELSE 1)
    IN  /\ commands < stage.commands /\ commands' = commands + 1
        /\ a \in DOMAIN registry /\ type # "start"
        /\ registry' = Changed(type, a, registry)
        /\ raised' = IF legal THEN Append(raised, stamped(1)) ELSE raised
        /\ seq' = event.seq /\ log' = Append(log, event) /\ dark' = dark \ {a}
        /\ Emit(StatusSaid(event, registry[a]))
        /\ UNCHANGED <<tickVars, world, tick, misled>>

WorldCommand == commands < stage.worlds /\ ~stage.studio /\ phase # "new" /\ commands' = commands + 1
Bootstrapped == phase \notin {"new", "bootstrap", "registering", "registered"}

Pause ==
    /\ WorldCommand /\ world' = "paused" /\ Announce("paused")
    /\ misled' = FALSE
    /\ UNCHANGED <<tickVars, tick, seq, registry, raised, log, dark>>

\* "running" is announced first, and also when the world is not paused.
Resume ==
    /\ WorldCommand /\ (Bootstrapped \/ world # "paused") /\ Announce("running")
    /\ world' = IF world = "paused" THEN "running" ELSE world
    /\ misled' = (world' # "running")
    /\ UNCHANGED <<tickVars, tick, seq, registry, raised, log, dark>>

\* stop() stops the agents at once, a tick in flight or not, each with a control event; the
\* hook and the server speak after its awaits, and registry and bus are cleared last.
Stop ==
    LET running == SetToSeq({a \in DOMAIN registry : registry[a] # "stopped"})
    IN  /\ WorldCommand /\ Bootstrapped /\ stops' = stops + 1 /\ world' = "stopped"
        /\ registry' = [a \in DOMAIN registry |-> "stopped"]
        /\ raised' = raised \o [i \in DOMAIN running |->
                                  [Event(running[i], "stop") EXCEPT !.seq = seq + i]]
        /\ seq' = seq + Len(running) /\ dark' = dark \cup ToSet(running)
        /\ UNCHANGED <<phase, tick, minds, acted, announced, log, wire, misled>>

Stopped ==
    /\ stops > 0 /\ stops' = stops - 1
    /\ registry' = <<>> /\ raised' = <<>> /\ misled' = (world # "stopped")
    /\ Emit(StatusMessage("stopped") \o StatusMessage("stopped"))
    /\ UNCHANGED <<phase, world, tick, seq, minds, acted, announced, log, dark>>

(***************************************************************************)
(* The client.                                                              *)
(***************************************************************************)
Visit(field, bound) == visits[field] < bound /\ visits' = [visits EXCEPT ![field] = @ + 1]

Connect ==
    /\ ~online /\ Visit("connects", stage.visits) /\ online' = TRUE /\ wire' = Snapshot
    /\ dark' = {} /\ misled' = FALSE
    /\ UNCHANGED <<rooms, loading, answer, shown, got>>

\* What is under way is lost, and the rooms are left.
Disconnect ==
    /\ online /\ visits.connects < stage.visits /\ online' = FALSE
    /\ wire' = <<>> /\ rooms' = {}
    /\ UNCHANGED <<loading, answer, shown, visits, got, dark, misled>>

Subscribe(a) ==
    /\ online /\ a \in stage.agents /\ Cardinality(rooms) < stage.rooms /\ rooms' = rooms \cup {a}
    /\ UNCHANGED <<online, wire, loading, answer, shown, visits, got, dark, misled>>

RequestSnapshot ==
    /\ online /\ Visit("asks", stage.snapshots) /\ wire' = wire \o Snapshot
    /\ dark' = {} /\ misled' = FALSE
    /\ UNCHANGED <<online, rooms, loading, answer, shown, got>>

Later(e, f) == e.tick > f.tick \/ (e.tick = f.tick /\ e.seq > f.seq)
NewestFirst(events) == SetToSortSeq(events, Later)

\* unshift, sort, and cut.
\* Fault: cut, but not sorted.
OnTop(e, events) == SubSeq(<<e>> \o events, 1, Min({Cap, Len(events) + 1}))
Inserted(e, events) ==
    LET later == SelectSeq(events, LAMBDA f : Later(f, e))
        all == later \o <<e>> \o SubSeq(events, Len(later) + 1, Len(events))
    IN  SubSeq(all, 1, Min({Cap, Len(all)}))

Receive ==
    /\ wire # <<>> /\ wire' = Tail(wire)
    /\ LET m == Head(wire)
       IN  /\ shown' =
                CASE m.kind = "world:snapshot" ->
                       [shown EXCEPT !.agents = m.agents, !.world = m.world, !.tick = m.tick]
                  [] m.kind = "world:tick" -> [shown EXCEPT !.tick = m.tick]
                  [] m.kind = "world:status" -> [shown EXCEPT !.world = m.world]
                  [] m.kind = "agent:action" ->
                       [shown EXCEPT !.events = Inserted(m.event, shown.events)]
                  [] m.kind = "agent:status" ->
                       [shown EXCEPT !.events = Inserted(m.event, shown.events),
                            !.agents = [a \in DOMAIN shown.agents |->
                                IF a = m.event.of THEN m.new ELSE shown.agents[a]]]
           /\ got' = IF m.kind \in {"agent:action", "agent:status"} THEN got \cup {m.event} ELSE got
    /\ UNCHANGED <<online, rooms, loading, answer, visits, dark, misled>>

\* loadEvents: the answer replaces the list, with what came meanwhile.
LoadEvents ==
    /\ loading = "none" /\ Visit("loads", stage.loads) /\ loading' = "asked"
    /\ UNCHANGED <<online, rooms, wire, answer, shown, got, dark, misled>>
ServeEvents ==
    /\ loading = "asked" /\ loading' = "served"
    /\ LET sorted == NewestFirst({log[i] @@ [via |-> "load"] : i \in DOMAIN log})
       IN  answer' = SubSeq(sorted, 1, Min({LoadLimit, Len(sorted)}))
    /\ UNCHANGED <<online, rooms, wire, shown, visits, got, dark, misled>>
EventsLoaded ==
    /\ loading = "served" /\ loading' = "none"
    /\ shown' = [shown EXCEPT !.events = NewestFirst(ToSet(answer))]
    /\ got' = ToSet(answer) /\ answer' = <<>>
    /\ UNCHANGED <<online, rooms, wire, visits, dark, misled>>

WorldStep ==
    /\ Len(wire) <= Window
    /\ \/ /\ \/ Start \/ BootstrapHook \/ RegisterAgents \/ Started \/ NewTick \/ TickHook
             \/ (\E a \in Agents : Begin(a) \/ Rest(a) \/ Act(a))
             \/ (\E a \in Agents, policy \in LifecycleActions : ApplyBudgetPolicy(a, policy))
             \/ EndActions \/ AnnounceAction \/ ApplyControl \/ LogActions \/ EndTick
             \/ EndOfTicks \/ Stopped
          /\ UNCHANGED commands
       \/ \E a \in Agents, type \in LifecycleActions : Control(type, a)
       \/ Pause \/ Resume \/ Stop
    /\ UNCHANGED <<stage, online, rooms, loading, answer, shown, visits, got>>

ClientStep ==
    /\ \/ Connect \/ Disconnect \/ (\E a \in Agents : Subscribe(a)) \/ RequestSnapshot
       \/ Receive \/ LoadEvents \/ ServeEvents \/ EventsLoaded
    /\ UNCHANGED <<stage, worldVars, commands>>

Next == WorldStep \/ ClientStep
Spec == Init /\ [][Next]_vars

(***************************************************************************)
(* Properties: of a client that has read all that was sent.                   *)
(***************************************************************************)
UpToDate == online /\ wire = <<>>

\* It shows each agent it knows as it is, one that is not registered as stopped or idle,
\* unless nobody has announced the agent's last change: its start, the stop of the world, a
\* budget's decision that the tick has not applied yet, or one of a control agent, which it
\* never applies (SocketIOStreamPlugin.ts:89-105, TickOrchestrator.ts:200).
AgentsAreShown ==
    UpToDate => \A a \in DOMAIN shown.agents :
        /\ a \in DOMAIN registry \ dark => shown.agents[a] = registry[a]
        /\ a \notin DOMAIN registry \cup dark => shown.agents[a] \in {"stopped", "idle"}

\* A budget's decision on an agent of the batch, taken while commands arrive, is announced
\* before the tick's actions are logged (ControlEventApplier.ts:12-60); the control agents'
\* and a stop's are what may remain untold.
DecisionsAreTold ==
    phase \in {"logging", "watching", "loop"} /\ stops = 0 =>
        \A i \in DOMAIN raised : raised[i].of \in dark => raised[i].of \in stage.controls

\* It shows the tick, or the one before while the plugins are told, and in any case never a
\* tick that has not begun.
TickIsShown ==
    /\ shown.tick <= tick
    /\ UpToDate => shown.tick = tick \/ (phase = "tick" /\ shown.tick = tick - 1)

\* It shows the world's status, unless the server has announced another, or none: "running"
\* during the bootstrap and nothing after it (SocketIOStreamPlugin.ts:39), "running" after a
\* resume of a world that is not paused (WorldSimServer.ts:183), or while it stops.  The studio announces only the end.
StatusIsShown ==
    /\ UpToDate /\ ~stage.studio /\ ~misled /\ stops = 0 => shown.world = world
    /\ UpToDate /\ stage.studio /\ shown.world = "stopped" => world = "stopped"

\* Its list holds the newest of the events it was sent, newest first, each once for every
\* room it was sent to, in whatever order they came (ui/app.js:94-128, 771-794).
EventsAreShown ==
    LET list == shown.events
    IN  /\ Len(list) = Min({Cap, Cardinality(got)}) \/ (Len(list) = LoadLimit /\ ToSet(list) = got)
        /\ ToSet(list) \subseteq got
        /\ \A i, j \in DOMAIN list : i < j => list[i] # list[j] /\ ~Later(list[j], list[i])
        /\ \A e \in got \ ToSet(list), i \in DOMAIN list : ~Later(e, list[i])

MirrorIsTrue ==
    AgentsAreShown /\ DecisionsAreTold /\ TickIsShown /\ StatusIsShown /\ EventsAreShown
=============================================================================
