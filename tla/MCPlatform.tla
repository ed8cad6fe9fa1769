------------------------------- MODULE MCPlatform ------------------------------
(***************************************************************************)
(* What the engine and its servers are built on: the batch executor, the         *)
(* agents' minds, chats, plugins, the studio and the streams it reads, entities,     *)
(* MCP clients and phones.  A behaviour is one of one part, in one of its worlds; the  *)
(* other parts rest.  All parts but the streams, theorems being proved of them, are this     *)
(* module's own state.                                                     *)
(***************************************************************************)
EXTENDS BatchExecutor, Entities, Clients, Chat, Studio, Thinking, Phones, Plugins, TLC

CONSTANTS
    anna, bruno,   \* agents
    s1, s2,        \* chat sessions
    u, v           \* worlds of the studio

VARIABLES
    part,
    mirror, phase, status, stops, beat, seq, roster, thoughts, raised, acted, announced, log, commands,
    online, rooms, feed, loading, answer, mirrored, visits, got, dark, misled

Two == {anna, bruno}

(***************************************************************************)
(* Minds: two agents that share an adapter and its cache of one or two entries   *)
(* while prompts come back; and one with tools, one of them of an MCP server,     *)
(* whose model also calls a tool that is not there.                            *)
(***************************************************************************)
Asks(id, tool) == [id |-> id, tool |-> tool]
Sharing == [llm |-> anna :> [model |-> "m", temperature |-> 0]
                    @@ bruno :> [model |-> "m", temperature |-> 1],
    cached |-> TRUE, max |-> 1, ttl |-> 1, retries |-> 1, tools |-> [a \in Two |-> {}],
    prompts |-> [<<a, t>> \in Two \X (1..4) |-> IF t = 2 /\ a = anna THEN "q" ELSE "p"],
    replies |-> {<<>>}, until |-> 4]
Handy == [Sharing EXCEPT !.until = 2, !.tools = anna :> {"map", "mcp_home_search"} @@ bruno :> {},
    !.llm = anna :> [model |-> "m"] @@ bruno :> [model |-> "n"],
    !.replies = {<<>>, <<Asks(1, "map"), Asks(2, "nothing")>>, <<Asks(1, "mcp_home_search")>>}]
Heads == {Sharing, [Sharing EXCEPT !.max = 2], Handy}

(***************************************************************************)
(* Chats: users of one session with two agents, streamed or not; the limit of     *)
(* messages is one exchange, or two.                                         *)
(***************************************************************************)
Say(a, s, stream) == [agent |-> a, session |-> s, stream |-> stream]
Tables ==
    {[sends |-> <<Say(anna, s1, FALSE), Say(anna, s1, TRUE), Say(bruno, s1, FALSE),
                  Say(bruno, s2, FALSE)>>, max |-> 2, stops |-> {bruno}, chunks |-> 1],
     [sends |-> <<Say(anna, s1, FALSE), Say(anna, s1, TRUE), Say(anna, s1, FALSE)>>,
      max |-> 4, stops |-> {anna}, chunks |-> 2]}

(***************************************************************************)
(* Plugins: the gate before and behind others, plugins that throw, forget to       *)
(* return, cancel stimuli, run in parallel or are registered during the tick.     *)
(***************************************************************************)
Plugin(n, does, par, hooks, throws) ==
    [name |-> n, does |-> does, parallel |-> par, hooks |-> hooks, throws |-> throws]
OnAct == {"onAgentAction"}
OnBatches == {"onAgentActionsBatch"}
Notified == OnBatches \cup {"onWorldTick"}
Privacy == Plugin("privacy", "gate", FALSE, OnAct \cup OnBatches, OnAct)
Logger(throws) == Plugin("log", "keep", FALSE, OnAct \cup {"onWorldTick"}, throws)

Demand(required, level, covered) == [required |-> required, level |-> level, tools |-> covered]
Rules == "tool_inputs" :> Demand(TRUE, "none", TRUE) @@ "social_graph" :> Demand(FALSE, "partial", TRUE)
         @@ "telemetry" :> Demand(FALSE, "none", TRUE) @@ "memory" :> Demand(TRUE, "strict", FALSE)
Does(a, type) == [agent |-> a, type |-> type]
Gated == [plugins |-> <<Privacy, Plugin("enrich", "enrich", FALSE, OnAct, OnAct),
                        Logger({"onWorldTick"})>>,
    late |-> {Logger({}), Plugin("late", "keep", TRUE, OnAct \cup OnBatches, {})},
    actions |-> <<Does(anna, "tool_call"), Does(bruno, "speak")>>, stimuli |-> 0,
    rules |-> Rules, changes |-> 1]
Crowded == [Gated EXCEPT !.late = {}, !.changes = 0, !.stimuli = 2,
    !.plugins = <<Plugin("p1", "keep", TRUE, Notified, Notified),
                  Plugin("p2", "forget", FALSE, Notified \cup OnAct, {"onWorldTick"}), Privacy,
                  Plugin("p3", "keep", TRUE, Notified, {}),
                  Plugin("p4", "cancel", FALSE, {"onStimulusEmit"}, {"onStimulusEmit"})>>]
Chains == {Gated, Crowded,
         [Gated EXCEPT !.late = {}, !.actions = <<Does(anna, "interact"), Does(anna, "observe")>>]}

(***************************************************************************)
(* The studio: a second world beside the host's and a user who goes back and        *)
(* forth; a world id that is started twice; analyses during and after a run.       *)
(***************************************************************************)
Rooms == {[host |-> u, scenarios |-> <<v>>, until |-> 1, picks |-> 2, asks |-> 0],
          [host |-> u, scenarios |-> <<v>>, until |-> 2, picks |-> 1, asks |-> 0],
          [host |-> u, scenarios |-> <<v, v, v>>, until |-> 1, picks |-> 0, asks |-> 0],
          [host |-> u, scenarios |-> <<v>>, until |-> 1, picks |-> 0, asks |-> 2]}

(***************************************************************************)
(* Streams: agents that are paused and stopped, by commands and by their budgets,  *)
(* while the dashboard comes, goes, joins a room, asks again and loads the log; a      *)
(* control agent beside another; and the commands of the world, a stop in a tick.     *)
(***************************************************************************)
Mirror == [agents |-> {anna}, controls |-> {}, policies |-> {}, studio |-> FALSE, until |-> 1,
           commands |-> 0, worlds |-> 0, rooms |-> 0, visits |-> 1, snapshots |-> 0, loads |-> 0]
Spent == {"pause", "stop"}
Mirrors == {[Mirror EXCEPT !.agents = Two, !.commands = 1],
            [Mirror EXCEPT !.agents = Two, !.controls = {bruno}, !.policies = Spent, !.commands = 1],
            [Mirror EXCEPT !.studio = TRUE, !.commands = 2, !.loads = 1],
            [Mirror EXCEPT !.worlds = 2, !.visits = 2, !.policies = {"pause"}],
            [Mirror EXCEPT !.commands = 1, !.policies = Spent, !.rooms = 1, !.snapshots = 1]}

Streams == INSTANCE Streams WITH
    Agents <- Two, Stages <- Mirrors, Cap <- 2, LoadLimit <- 1, Window <- 1,
    stage <- mirror, world <- status, registry <- roster, wire <- feed, shown <- mirrored,
    tick <- beat, minds <- thoughts

(***************************************************************************)
(* Entities: a bell, a dog and a silenced lamp; the dog may come back as a toy that      *)
(* feels nothing, and a sun may be added.                                     *)
(***************************************************************************)
Emits(every, enabled) == [every |-> every, enabled |-> enabled]
Entity(id, kind, rank, senses, verbs, emitters) ==
    [id |-> id, kind |-> kind, rank |-> rank, senses |-> senses, verbs |-> verbs,
     emitters |-> emitters]
Bell == Entity("bell", "object", 1, FALSE, {"ring"}, <<Emits(1, TRUE), Emits(1, FALSE)>>)
Dog == Entity("dog", "animal", 2, TRUE, {"pet", "feed"}, <<Emits(2, TRUE), Emits(1, TRUE)>>)
Lamp == Entity("lamp", "object", 3, FALSE, {}, <<Emits(1, TRUE)>>)
Yard == [at |-> "bell" :> Bell @@ "dog" :> Dog @@ "lamp" :> Lamp,
         adds |-> {[Dog EXCEPT !.kind = "toy", !.senses = FALSE], [Lamp EXCEPT !.id = "sun"]},
         silenced |-> {"lamp"}, until |-> 2, changes |-> 2]
Yards == {Yard}

(***************************************************************************)
(* MCP clients: agents that share servers, of which some refuse, keep their tools to     *)
(* themselves or cannot be closed; a host that stops the world while it bootstraps.  *)
(***************************************************************************)
Plan == [agents |-> <<anna, bruno>>,
         servers |-> anna :> <<"map", "mail", "shop">> @@ bruno :> <<"mail", "map">>,
         refuses |-> {}, unlisted |-> {}, stuck |-> {}, jammed |-> {}, early |-> FALSE]
Bootstraps ==
         {[Plan EXCEPT !.early = TRUE, !.unlisted = {"mail"}, !.stuck = {"shop"}],
          [Plan EXCEPT !.early = TRUE, !.jammed = {"mail"}],
          [Plan EXCEPT !.refuses = {"shop"}, !.stuck = {"map"}, !.jammed = {"mail"}]}

(***************************************************************************)
(* Phones: an agent with two of them, another with one; texts and a call while phones    *)
(* change hands, and a longer call.                                         *)
(***************************************************************************)
Phone(id, number, owner) == [id |-> id, number |-> number, owner |-> owner, online |-> TRUE]
Office == [phones |-> <<Phone(2, 20, anna), Phone(1, 10, anna), Phone(3, 30, bruno)>>,
           requests |-> 2, changes |-> 1, dials |-> {20, 30}]
Companies == {Office, [Office EXCEPT !.requests = 3, !.dials = {30}]}

-----------------------------------------------------------------------------
\* A part that rests has one of its worlds, and stays as it begins.
Only(p, one, all) == part = p \/ one = CHOOSE w \in all : TRUE

PlatformInit ==
    /\ part \in {"batch", "minds", "chats", "plugins", "studio", "streams",
                "entities", "clients", "phones"}
    /\ Init /\ (part = "batch" \/ settled)
    /\ ThinkingInit /\ Only("minds", mind, Minds)
    /\ ChatInit /\ Only("chats", parlour, Parlours)
    /\ HooksInit /\ Only("plugins", net, Chains)
    /\ StudioInit /\ Only("studio", desk, Desks)
    /\ Streams!Init /\ Only("streams", mirror, Mirrors)
    /\ EntitiesInit
    /\ ClientsInit /\ Only("clients", plan, Plans)
    /\ PhonesInit /\ Only("phones", office, Offices)

streamVars == <<mirror, phase, status, stops, beat, seq, roster, thoughts, raised, acted, announced, log,
                commands, online, rooms, feed, loading, answer, mirrored, visits, got, dark, misled>>
outerVars == <<entityVars, clientVars, phoneVars>>
platformVars == <<part, vars, mindVars, chatVars, hookVars, studioVars, streamVars, outerVars>>

MindStep ==
    /\ part = "minds" /\ ThinkingNext
    /\ UNCHANGED <<part, vars, chatVars, hookVars, studioVars, streamVars, outerVars>>

PlatformNext ==
    \/ MindStep
    \/ /\ part = "batch" /\ Next
       /\ UNCHANGED <<part, mindVars, chatVars, hookVars, studioVars, streamVars, outerVars>>
    \/ /\ part = "chats" /\ ChatNext
       /\ UNCHANGED <<part, vars, mindVars, hookVars, studioVars, streamVars, outerVars>>
    \/ /\ part = "plugins" /\ HooksNext
       /\ UNCHANGED <<part, vars, mindVars, chatVars, studioVars, streamVars, outerVars>>
    \/ /\ part = "studio" /\ StudioNext
       /\ UNCHANGED <<part, vars, mindVars, chatVars, hookVars, streamVars, outerVars>>
    \/ /\ part = "streams" /\ Streams!Next
       /\ UNCHANGED <<part, vars, mindVars, chatVars, hookVars, studioVars, outerVars>>
    \/ /\ part = "entities" /\ EntitiesNext
       /\ UNCHANGED <<part, vars, mindVars, chatVars, hookVars, studioVars, streamVars,
                      clientVars, phoneVars>>
    \/ /\ part = "clients" /\ ClientsNext
       /\ UNCHANGED <<part, vars, mindVars, chatVars, hookVars, studioVars, streamVars,
                      entityVars, phoneVars>>
    \/ /\ part = "phones" /\ PhonesNext
       /\ UNCHANGED <<part, vars, mindVars, chatVars, hookVars, studioVars, streamVars,
                      entityVars, clientVars>>

\* The executor's fairness, of the batch that runs, and that of the minds.
Settles(i) == Reject(i) \/ \E o \in Outcomes : Complete(i, o) \/ Late(i, o)
BatchMoves(A) == part = "batch" /\ A
PlatformFairness ==
    /\ WF_platformVars(MindStep)
    /\ WF_vars(BatchMoves(Call))
    /\ \A i \in Tasks : WF_vars(BatchMoves(Settles(i)))

PlatformSpec == PlatformInit /\ [][PlatformNext]_platformVars /\ PlatformFairness

(***************************************************************************)
(* Properties: of the part that runs, each stated in its module.              *)
(***************************************************************************)
\* The caller of execute or executeSettled is answered, by executeSettled never with a
\* rejection (BatchExecutor.ts:10-127).
BatchIsAnswered == part = "batch" => CallerIsAnswered

\* Who waits is answered: the caller of a batch and the tick that waits for a thought.
EveryWaitEnds == BatchIsAnswered /\ ThoughtsEnd

\* A client that has read what it was sent shows agents, tick, status and events as they
\* are, as far as they are announced (SocketIOStreamPlugin.ts:37-114, ui/app.js:64-187).
MirrorIsTrue == Streams!MirrorIsTrue
=============================================================================
