----------------------------- MODULE Federation -----------------------------
(***************************************************************************)
(* Letters between worlds: FederationBus with its inbound queue, the         *)
(* in-memory and the Redis transport, the local MessageBus they end on, and   *)
(* the engine's calls of them (bootstrap, executeTick, stop).                *)
(*                                                                         *)
(* One action stands for the code between two awaits.  A world is started    *)
(* and stopped once and runs one loop.                                      *)
(***************************************************************************)
EXTENDS Integers, Sequences

CONSTANTS
    Worlds,      \* worldIds of the federation
    Transports,  \* the transport they share: a subset of {"memory", "redis"}
    Writers,     \* bound: worlds whose agents write letters
    Stoppable,   \* bound: worlds that the host stops
    MaxLetters,  \* bound: letters of an execution
    Broadcasts   \* the letters to "*"; the others are to one agent of the world

ASSUME FederationAssumption ==
    /\ Transports \subseteq {"memory", "redis"}
    /\ Writers \subseteq Worlds
    /\ Stoppable \subseteq Worlds
    /\ MaxLetters \in Nat
    /\ Broadcasts \subseteq Nat

VARIABLES
    transport, \* the transport of this federation, which never changes
    \* per world, FederationBus:
    started,   \* the flag
    starting,  \* where start() is suspended
    unsub,     \* whether unsubscribe is defined
    queue,     \* FederationInboundQueue.buffer
    draining,  \* envelopes that drainInbound has yet to look at
    \* per world, the transport:
    handler,   \* whether a handler is subscribed
    nodes,     \* the worlds that are registered as nodes
    wire,      \* sender -> receiver -> letters between two processes
    \* per world, the engine:
    running,   \* status = "running"
    phase,     \* where its tick is
    stopping,  \* where stop() is suspended
    present,   \* whether the addressee is in the agent registry
    router,    \* whether the MessageBus has an external router
    bus,       \* the MessageBus: has a tick begun, and what getMessages finds
    \* history:
    letter,    \* the letters written so far: number -> [from, to]
    arrived,   \* world -> letters published on its bus, in order
    due,       \* world -> letters that waited for this tick and had an addressee
    early      \* the worlds whose stop() was called before start() had ended

fedVars == <<started, starting, unsub, queue, draining>>
transportVars == <<transport, handler, nodes, wire>>
engineVars == <<running, phase, stopping, present, router, bus>>
historyVars == <<letter, arrived, due, early>>
vars == <<fedVars, transportVars, engineVars, historyVars>>

Letters == 1..MaxLetters

TypeOK ==
    /\ transport \in Transports
    /\ started \in [Worlds -> BOOLEAN]
    /\ starting \in [Worlds -> {"not called", "register", "subscribe", "failed", "done"}]
    /\ unsub \in [Worlds -> BOOLEAN]
    /\ queue \in [Worlds -> Seq(Letters)]
    /\ draining \in [Worlds -> Seq(Letters)]
    /\ handler \in [Worlds -> BOOLEAN]
    /\ nodes \subseteq Worlds
    /\ wire \in [Worlds -> [Worlds -> Seq(Letters)]]
    /\ running \in [Worlds -> BOOLEAN]
    /\ phase \in [Worlds -> {"between", "draining", "agents"}]
    /\ stopping \in [Worlds -> {"not called", "disconnect", "unsubscribe", "unregister",
                                "hooks", "done"}]
    /\ present \in [Worlds -> BOOLEAN]
    /\ router \in [Worlds -> BOOLEAN]
    /\ bus \in [Worlds -> [indexed : BOOLEAN, letters : SUBSET Letters]]
    /\ letter \in Seq([from : Worlds, to : Worlds])
    /\ Len(letter) <= MaxLetters
    /\ arrived \in [Worlds -> Seq(Letters)]
    /\ due \in [Worlds -> SUBSET Letters]
    /\ early \subseteq Worlds

EmptyBus == [indexed |-> FALSE, letters |-> {}]

Init ==
    /\ transport \in Transports
    /\ started = [w \in Worlds |-> FALSE]
    /\ starting = [w \in Worlds |-> "not called"]
    /\ unsub = [w \in Worlds |-> FALSE]
    /\ queue = [w \in Worlds |-> <<>>]
    /\ draining = [w \in Worlds |-> <<>>]
    /\ handler = [w \in Worlds |-> FALSE]
    /\ nodes = {}
    /\ wire = [v \in Worlds |-> [w \in Worlds |-> <<>>]]
    /\ running = [w \in Worlds |-> FALSE]
    /\ phase = [w \in Worlds |-> "between"]
    /\ stopping = [w \in Worlds |-> "not called"]
    /\ present = [w \in Worlds |-> TRUE]
    /\ router = [w \in Worlds |-> FALSE]
    /\ bus = [w \in Worlds |-> EmptyBus]
    /\ letter = <<>>
    /\ arrived = [w \in Worlds |-> <<>>]
    /\ due = [w \in Worlds |-> {}]
    /\ early = {}

-----------------------------------------------------------------------------
(***************************************************************************)
(* The MessageBus.  Messages to "*" have a list of their own, which is       *)
(* created when it is missing; those to one agent are found only through the  *)
(* index of the tick, which newTick makes and clear removes.                *)
(***************************************************************************)
Held(box) == {box[i] : i \in DOMAIN box}

NewTick == [indexed |-> TRUE, letters |-> {}]

Publish(b, l) ==
    IF b.indexed \/ l \in Broadcasts THEN [b EXCEPT !.letters = @ \cup {l}] ELSE b

\* A letter reaches the bus of a world: when it is drained, or when the writer
\* lives in the same world, whose prefix the bus strips.
Deliver(w, l) ==
    /\ bus' = [bus EXCEPT ![w] = Publish(@, l)]
    /\ arrived' = [arrived EXCEPT ![w] = Append(@, l)]

-----------------------------------------------------------------------------
(***************************************************************************)
(* Transports.                                                             *)
(***************************************************************************)
\* Fault: the handler puts a letter before those that wait.
ReceiveFirst(w, l) == queue' = IF handler[w] THEN [queue EXCEPT ![w] = <<l>> \o @] ELSE queue

\* A transport calls the handlers that are subscribed: FederationBus' queues.
Receive(w, l) == queue' = IF handler[w] THEN [queue EXCEPT ![w] = Append(@, l)] ELSE queue

\* handleOutbound.  InMemoryFederationTransport.publish calls the handlers at once;
\* RedisFederationTransport.publish may fail, which is caught.
TransportPublish(v, w, l) ==
    \/ /\ transport = "memory"
       /\ Receive(w, l)
       /\ UNCHANGED wire
    \/ /\ transport = "redis"
       /\ wire' \in {wire, [wire EXCEPT ![v][w] = Append(@, l)]}
       /\ UNCHANGED queue

\* Redis hands a message to its subscribers, and to nobody when there are none
\* or when the connection breaks.  It keeps the order of each publisher.
WireDeliver(v, w) ==
    /\ wire[v][w] # <<>>
    /\ wire' = [wire EXCEPT ![v][w] = Tail(@)]
    /\ Receive(w, Head(wire[v][w]))
    /\ UNCHANGED <<started, starting, unsub, draining, transport, handler, nodes,
                   engineVars, historyVars>>

WireLose(v, w) ==
    /\ wire[v][w] # <<>>
    /\ wire' = [wire EXCEPT ![v][w] = Tail(@)]
    /\ UNCHANGED <<fedVars, transport, handler, nodes, engineVars, historyVars>>

-----------------------------------------------------------------------------
(***************************************************************************)
(* FederationBus.start, the last step of bootstrap.                        *)
(***************************************************************************)
Listed(w) == nodes \cup {w}

StartBegin(w) ==
    /\ starting[w] = "not called"
    /\ started' = [started EXCEPT ![w] = TRUE]
    /\ starting' = [starting EXCEPT ![w] = "register"]
    /\ nodes' = Listed(w)
    /\ UNCHANGED <<unsub, queue, draining, transport, handler, wire, engineVars, historyVars>>

\* The in-memory subscribe adds the handler in the call, Redis' after its await.
Registered(w) ==
    /\ starting[w] = "register"
    /\ starting' = [starting EXCEPT ![w] = "subscribe"]
    /\ handler' = [handler EXCEPT ![w] = transport = "memory"]
    /\ UNCHANGED <<started, unsub, queue, draining, transport, nodes, wire, engineVars,
                   historyVars>>

\* ... and bootstrap is over: WorldEngine.start marks the world running.
Subscribed(w) ==
    /\ starting[w] = "subscribe"
    /\ starting' = [starting EXCEPT ![w] = "done"]
    /\ handler' = [handler EXCEPT ![w] = TRUE]
    /\ unsub' = [unsub EXCEPT ![w] = TRUE]
    /\ router' = [router EXCEPT ![w] = TRUE]
    /\ running' = [running EXCEPT ![w] = TRUE]
    /\ UNCHANGED <<started, queue, draining, transport, nodes, wire, phase, stopping,
                   present, bus, historyVars>>

\* Redis does not answer: start() of the bus and of the engine reject.
StartFails(w) ==
    /\ transport = "redis"
    /\ starting[w] \in {"register", "subscribe"}
    /\ starting' = [starting EXCEPT ![w] = "failed"]
    /\ nodes' \in {nodes, IF starting[w] = "register" THEN nodes \ {w} ELSE nodes}
    /\ UNCHANGED <<started, unsub, queue, draining, transport, handler, wire, engineVars,
                   historyVars>>

-----------------------------------------------------------------------------
(***************************************************************************)
(* WorldLifecycle.stop and FederationBus.stop.                             *)
(***************************************************************************)
StopBegin(w) ==
    /\ w \in Stoppable
    /\ starting[w] # "not called"
    /\ stopping[w] = "not called"
    /\ stopping' = [stopping EXCEPT ![w] = "disconnect"]
    /\ running' = [running EXCEPT ![w] = FALSE]
    /\ early' = IF starting[w] \in {"register", "subscribe"} THEN early \cup {w} ELSE early
    /\ UNCHANGED <<fedVars, transportVars, phase, present, router, bus, letter, arrived, due>>

\* unregisterNode; when it fails the node stays on Redis' list.
Unregister(w) ==
    /\ nodes' \in {nodes \ {w}, IF transport = "redis" THEN nodes ELSE nodes \ {w}}
    /\ stopping' = [stopping EXCEPT ![w] = "unregister"]

\* Fault: unsubscribing deletes another function than the handler.
StillSubscribed(w) == handler

Forgotten(w) == [handler EXCEPT ![w] = FALSE]

\* MCP is disconnected.  Both transports forget the handler at once; a bus that
\* was never started has nothing to stop.
FederationStop(w) ==
    /\ stopping[w] = "disconnect"
    /\ started' = [started EXCEPT ![w] = FALSE]
    /\ router' = [router EXCEPT ![w] = FALSE]
    /\ \/ /\ unsub[w]
          /\ handler' = Forgotten(w)
          /\ stopping' = [stopping EXCEPT ![w] = "unsubscribe"]
          /\ UNCHANGED nodes
       \/ /\ ~unsub[w]
          /\ Unregister(w)
          /\ UNCHANGED handler
    /\ UNCHANGED <<starting, unsub, queue, draining, transport, wire, running, phase,
                   present, bus, historyVars>>

Unsubscribed(w) ==
    /\ stopping[w] = "unsubscribe"
    /\ unsub' = [unsub EXCEPT ![w] = FALSE]
    /\ Unregister(w)
    /\ UNCHANGED <<started, starting, queue, draining, transport, handler, wire, running,
                   phase, present, router, bus, historyVars>>

Unregistered(w) ==
    /\ stopping[w] = "unregister"
    /\ stopping' = [stopping EXCEPT ![w] = "hooks"]
    /\ UNCHANGED <<fedVars, transportVars, running, phase, present, router, bus, historyVars>>

\* The hooks have run; registry and bus are cleared.
Cleared(w) ==
    /\ stopping[w] = "hooks"
    /\ stopping' = [stopping EXCEPT ![w] = "done"]
    /\ present' = [present EXCEPT ![w] = FALSE]
    /\ bus' = [bus EXCEPT ![w] = EmptyBus]
    /\ UNCHANGED <<fedVars, transportVars, running, phase, router, historyVars>>

-----------------------------------------------------------------------------
(***************************************************************************)
(* A tick: newTick, drainInbound, then the agents.                         *)
(***************************************************************************)
\* Fault: the queue is not emptied when it is taken.
StillQueued(w) == queue

Emptied(w) == [queue EXCEPT ![w] = <<>>]

TickBegin(w) ==
    /\ running[w]
    /\ phase[w] = "between"
    /\ phase' = [phase EXCEPT ![w] = "draining"]
    /\ bus' = [bus EXCEPT ![w] = NewTick]
    /\ draining' = [draining EXCEPT ![w] = queue[w]]
    /\ queue' = Emptied(w)
    /\ due' = [due EXCEPT ![w] = Held(queue[w])]
    /\ UNCHANGED <<started, starting, unsub, transportVars, running, stopping, present,
                   router, letter, arrived, early>>

\* drainInbound up to its next await, the hook after a publication.  A letter
\* to somebody who is not registered is dropped.
HasAddressee(w, l) == l \in Broadcasts \/ present[w]

Drain(w) ==
    LET l == Head(draining[w]) IN
    /\ phase[w] = "draining"
    /\ draining[w] # <<>>
    /\ draining' = [draining EXCEPT ![w] = Tail(@)]
    /\ IF HasAddressee(w, l)
       THEN Deliver(w, l) /\ UNCHANGED due
       ELSE due' = [due EXCEPT ![w] = @ \ {l}] /\ UNCHANGED <<bus, arrived>>
    /\ UNCHANGED <<started, starting, unsub, queue, transportVars, running, phase, stopping,
                   present, router, letter, early>>

\* Fault: the bus begins its tick after the queue has been drained.
NewTickAfterDrain(w) == [bus EXCEPT ![w] = NewTick]

BusAfterDrain(w) == bus

\* The other hooks run and the active agents are selected: none after stop(),
\* which has stopped them.
DrainDone(w) ==
    /\ phase[w] = "draining"
    /\ draining[w] = <<>>
    /\ phase' = [phase EXCEPT ![w] = IF stopping[w] = "not called" THEN "agents" ELSE "between"]
    /\ bus' = BusAfterDrain(w)
    /\ UNCHANGED <<fedVars, transportVars, running, stopping, present, router, historyVars>>

AgentsDone(w) ==
    /\ phase[w] = "agents"
    /\ phase' = [phase EXCEPT ![w] = "between"]
    /\ UNCHANGED <<fedVars, transportVars, running, stopping, present, router, bus, historyVars>>

\* maxTicks is reached, or the host pauses the world and never resumes it.
Finish(w) ==
    /\ running[w]
    /\ phase[w] = "between"
    /\ running' = [running EXCEPT ![w] = FALSE]
    /\ UNCHANGED <<fedVars, transportVars, phase, stopping, present, router, bus, historyVars>>

\* WorldEngine.stopAgent, or a stop that apply() replays.
StopAddressee(w) ==
    /\ starting[w] # "not called"
    /\ present[w]
    /\ present' = [present EXCEPT ![w] = FALSE]
    /\ UNCHANGED <<fedVars, transportVars, running, phase, stopping, router, bus, historyVars>>

\* The tool send_cross_world_message publishes on the bus of its world.  Without
\* a router the address is that of nobody.
Send(v, w) ==
    LET l == Len(letter) + 1 IN
    /\ v \in Writers
    /\ phase[v] = "agents"
    /\ l <= MaxLetters
    /\ letter' = Append(letter, [from |-> v, to |-> w])
    /\ \/ /\ ~router[v]
          /\ UNCHANGED <<queue, wire, bus, arrived>>
       \/ /\ router[v] /\ v = w
          /\ Deliver(w, l)
          /\ UNCHANGED <<queue, wire>>
       \/ /\ router[v] /\ v # w
          /\ TransportPublish(v, w, l)
          /\ UNCHANGED <<bus, arrived>>
    /\ UNCHANGED <<started, starting, unsub, draining, transport, handler, nodes, running,
                   phase, stopping, present, router, due, early>>

-----------------------------------------------------------------------------
TickStep(w) == TickBegin(w) \/ Drain(w) \/ DrainDone(w) \/ AgentsDone(w)

Step(w) ==
    \/ StartBegin(w) \/ Registered(w) \/ Subscribed(w) \/ StartFails(w)
    \/ StopBegin(w) \/ FederationStop(w) \/ Unsubscribed(w) \/ Unregistered(w) \/ Cleared(w)
    \/ TickStep(w)
    \/ Finish(w) \/ StopAddressee(w)

Next ==
    \/ \E w \in Worlds : Step(w)
    \/ \E v, w \in Worlds :
          Send(v, w) \/ WireDeliver(v, w) \/ WireLose(v, w)

\* The event loop of every world goes on; hooks and agents answer.
Fairness == \A w \in Worlds : WF_vars(TickStep(w))

Spec == Init /\ [][Next]_vars /\ Fairness

-----------------------------------------------------------------------------
(***************************************************************************)
(* Properties.                                                             *)
(***************************************************************************)
\* A letter that waits when a tick begins is read in that tick: when the agents
\* run, it is on their bus unless its addressee was not there at the drain.
\* The tool that writes letters promises this to the model.
FirstTickDelivers ==
    \A w \in Worlds :
        phase[w] = "agents" /\ stopping[w] # "done" => due[w] \subseteq bus[w].letters

\* A world that was stopped after its start has left the federation: nothing
\* reaches its queue, nothing it says goes out, and an in-memory transport does
\* not list it.
StoppedWorldHasLeft ==
    \A w \in Worlds :
        stopping[w] = "done" /\ w \notin early =>
            ~handler[w] /\ ~router[w] /\ (transport = "memory" => w \notin nodes)

\* What the start, the ticks and the end of a world leave of its letters: those that waited
\* are read in its next tick, and none reaches a world that is gone.
ReachedOrGone == FirstTickDelivers /\ StoppedWorldHasLeft

\* A letter in the queue of a world is taken, unless the world's ticks are over.
QueuedLettersAreTaken ==
    \A w \in Worlds : \A l \in Letters :
        l \in Held(queue[w]) ~> (l \notin Held(queue[w]) \/ ~running[w])

\* Letters that may still arrive: in the receiver's queue, in the rest of what
\* its tick has taken from it, or between the processes.
InTransit ==
    {l \in DOMAIN letter :
        LET w == letter[l].to IN
        l \in Held(queue[w]) \cup Held(draining[w]) \cup Held(wire[letter[l].from][w])}

Post == INSTANCE Post WITH
    posted <- letter,
    transit <- InTransit

\* Letters arrive once at most, where they are addressed, and in the order in
\* which a world sent them, over both transports and through queue and drain.
ImplementsPost == Post!PostSpec
=============================================================================
