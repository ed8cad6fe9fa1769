-------------------------------- MODULE Clients --------------------------------
(***************************************************************************)
(* The MCP clients of the agents (src/mcp/McpClientManager.ts): they are connected   *)
(* one after another while the world bootstraps, and closed, those of different       *)
(* agents at the same time, when it stops.  A server may refuse, accept and then fail   *)
(* to list its tools, or fail to close.                                     *)
(***************************************************************************)
EXTENDS Integers, SequencesExt, FiniteSetsExt

CONSTANTS
    Agents,
    Plans        \* [agents: persons in the order of the bootstrap; servers: agent -> sequence of
                 \* names; refuses, unlisted, stuck, jammed: servers that do so: no connection,
                 \* no list of tools, no closing of the client, none of the transport;
                 \* early: the host may stop the world while it bootstraps]

VARIABLES
    plan,
    boot,        \* [agent, server: positions, at: "connect", "list" or "done", kept: of this agent]
    open,        \* [client, transport]: sets of <<agent, server>>
    connections, \* agent -> its clients
    tools,       \* agent -> clients whose tools it has been given
    closing,     \* agent -> [left: its clients, at: "client" or "transport"]
    world,       \* "bootstrapping", "running", "disconnecting" or "left"
    \* history:
    unheld,      \* clients that were not held when the stop began
    broken       \* clients that threw when they were to be closed

clientVars == <<plan, boot, open, connections, tools, closing, world, unheld, broken>>

\* The persons have different ids, and those that are connected have servers.
SoundPlan(p) ==
    /\ p.agents \in Seq(Agents) \ {<<>>}
    /\ \A i, j \in DOMAIN p.agents : p.agents[i] = p.agents[j] => i = j
    /\ \A a \in ToSet(p.agents) : /\ Len(p.servers[a]) \in Nat \ {0}
                                  /\ DOMAIN p.servers[a] = 1..Len(p.servers[a])

ASSUME PlansAreSound == \A p \in Plans : SoundPlan(p)

ClientsInit ==
    /\ plan \in Plans
    /\ boot = [agent |-> 1, server |-> 1, at |-> "connect", kept |-> <<>>]
    /\ open = [client |-> {}, transport |-> {}] /\ connections = <<>> /\ tools = <<>>
    /\ closing = <<>> /\ world = "bootstrapping" /\ unheld = {} /\ broken = {}

Booting == boot.at # "done"
Person == plan.agents[boot.agent]
Servers == plan.servers[Person]
Client == <<Person, Servers[boot.server]>>

\* The next server of the agent, or the end of connectAgent: its clients are held, it gets
\* its tools and the next agent is created.
Set(f, a, v) == [b \in DOMAIN f \cup {a} |-> IF b = a THEN v ELSE f[b]]
NextServer(kept) ==
    IF boot.server < Len(Servers)
    THEN /\ boot' = [boot EXCEPT !.server = @ + 1, !.at = "connect", !.kept = kept]
         /\ UNCHANGED <<connections, tools>>
    ELSE /\ connections' = IF kept = <<>> THEN connections ELSE Set(connections, Person, kept)
         /\ tools' = Set(tools, Person, ToSet(kept))
         /\ boot' = IF boot.agent < Len(plan.agents)
                    THEN [agent |-> boot.agent + 1, server |-> 1, at |-> "connect", kept |-> <<>>]
                    ELSE [boot EXCEPT !.at = "done", !.kept = <<>>]

\* createClient
Connect ==
    /\ boot.at = "connect"
    /\ IF Client[2] \in plan.refuses
       THEN NextServer(boot.kept) /\ UNCHANGED open
       ELSE /\ open' = [client |-> open.client \cup {Client},
                        transport |-> open.transport \cup {Client}]
            /\ boot' = [boot EXCEPT !.at = "list"] /\ UNCHANGED <<connections, tools>>
    /\ UNCHANGED <<plan, closing, world, unheld, broken>>

\* listAndWrapMcpTools: when it throws nobody keeps the client.
List ==
    /\ boot.at = "list"
    /\ NextServer(IF Client[2] \in plan.unlisted THEN boot.kept ELSE Append(boot.kept, Client))
    /\ UNCHANGED <<plan, open, closing, world, unheld, broken>>

\* markRunning; that it also overrides an early stop is WorldEngine's question.
Launch ==
    /\ ~Booting /\ world = "bootstrapping" /\ world' = "running"
    /\ UNCHANGED <<plan, boot, open, connections, tools, closing, unheld, broken>>

\* stop() up to its first await: disconnectAll takes the agents that have connections now.
Stop ==
    /\ world = "running" \/ (plan.early /\ world = "bootstrapping")
    /\ world' = "disconnecting"
    /\ closing' = [a \in DOMAIN connections |-> [left |-> connections[a], at |-> "client"]]
    /\ unheld' = UNION {{<<a, s>> : s \in ToSet(plan.servers[a])} :
                        a \in {b \in ToSet(plan.agents) : b \notin DOMAIN connections}}
    /\ UNCHANGED <<plan, boot, open, connections, tools, broken>>

\* Fault: the try around the loop.
GivesUp(left) == <<>>
AfterFailure(left) == Tail(left)

Close(a, part, fails, next) ==
    /\ a \in DOMAIN closing /\ closing[a].at = part /\ closing[a].left # <<>>
    /\ LET c == Head(closing[a].left)
       IN  IF c[2] \in fails
           THEN /\ broken' = broken \cup {c} /\ UNCHANGED open
                /\ closing' = [closing EXCEPT ![a] =
                      [left |-> AfterFailure(closing[a].left), at |-> "client"]]
           ELSE /\ open' = [open EXCEPT ![part] = @ \ {c}] /\ UNCHANGED broken
                /\ closing' = [closing EXCEPT ![a] =
                      [left |-> IF next = "client" THEN Tail(closing[a].left) ELSE closing[a].left,
                       at |-> next]]
    /\ UNCHANGED <<plan, boot, connections, tools, world, unheld>>

CloseClient(a) == Close(a, "client", plan.stuck, "transport")
CloseTransport(a) == Close(a, "transport", plan.jammed, "client")

\* The end of disconnectAgent.
Forget(a) ==
    /\ a \in DOMAIN closing /\ closing[a].left = <<>>
    /\ connections' = Restrict(connections, DOMAIN connections \ {a})
    /\ closing' = Restrict(closing, DOMAIN closing \ {a})
    /\ UNCHANGED <<plan, boot, open, tools, world, unheld, broken>>

Disconnected ==
    /\ world = "disconnecting" /\ DOMAIN closing = {} /\ world' = "left"
    /\ UNCHANGED <<plan, boot, open, connections, tools, closing, unheld, broken>>

ClientsNext ==
    \/ Connect \/ List \/ Launch \/ Stop \/ Disconnected
    \/ \E a \in Agents : CloseClient(a) \/ CloseTransport(a) \/ Forget(a)
ClientsSpec == ClientsInit /\ [][ClientsNext]_clientVars

(***************************************************************************)
(* Properties.                                                              *)
(***************************************************************************)
\* Until the world stops an agent has the tools of exactly the servers that answered, and
\* the manager holds their clients, all connected, although others refused or failed in
\* between (McpClientManager.ts:23-62).
ToolsAreServed ==
    \A a \in DOMAIN tools :
        /\ tools[a] = {<<a, s>> : s \in ToSet(plan.servers[a]) \ (plan.refuses \cup plan.unlisted)}
        /\ world \in {"bootstrapping", "running"} /\ tools[a] # {} =>
              a \in DOMAIN connections /\ ToSet(connections[a]) = tools[a] /\ tools[a] \subseteq open.client

\* A stop leaves a client open only if that threw when it was closed, or failed to list its
\* tools, or was not held yet when the stop began; and it tries all others however many fail
\* (McpClientManager.ts:65-88).
StopCloses ==
    world = "left" =>
        /\ \A c \in open.client \cup open.transport :
              c \in broken \cup unheld \/ c[2] \in plan.unlisted
        /\ \A a \in DOMAIN connections : ToSet(connections[a]) \subseteq unheld
        /\ open.client \subseteq open.transport

ClientsAreKept == ToolsAreServed /\ StopCloses
=============================================================================
