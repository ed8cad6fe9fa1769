---------------------------- MODULE Conversations ----------------------------
(***************************************************************************)
(* Conversations and phone calls: ConversationManager (src/messaging), the    *)
(* call tools of PhonePlugin, and the turn-taking of PersonAgent.tick.       *)
(*                                                                         *)
(* The agents of a tick are concurrent activities of one event loop, so one   *)
(* action stands for the code between two awaits.  The tools that one model   *)
(* call asks for run one after the other.  The host may use the public        *)
(* methods of the engine and of its conversation manager at any time.        *)
(***************************************************************************)
EXTENDS Integers, Sequences, FiniteSets

CONSTANTS
    Agents,         \* PersonAgents, each with a phone
    Ids,            \* bound: the conversations of an execution, 1..n
    Groups,         \* participant lists of the host, the initiator first
    Limits,         \* values the host gives maxTurns in startCall, 0 for none
    StaleThreshold, \* the manager's staleThreshold (default 5)
    Iterations,     \* iterationsPerTick
    Lines,          \* bound: lines an agent speaks in one iteration
    MaxTick,        \* bound: ticks of an execution
    Ending          \* whether the host ends conversations

None == 0

ASSUME ConversationAssumption ==
    /\ None \notin Agents
    /\ Ids \subseteq Nat \ {0}
    /\ Groups \subseteq Seq(Agents) \ {<<>>}
    /\ Limits \subseteq Nat
    /\ StaleThreshold \in Nat
    /\ Iterations \in Nat \ {0}
    /\ Lines \in Nat
    /\ MaxTick \in Nat
    /\ Ending \in BOOLEAN

VARIABLES
    tick,   \* the tick in progress
    conv,   \* conversations: id -> Conversation
    member, \* agentConversations: agent -> id, or None
    pc,     \* agent -> where its tick() is suspended
    step,   \* agent -> iterations begun in this tick
    spoken, \* agent -> lines spoken in this iteration
    held    \* agent -> the call that a suspended speak_in_call has in hand

managerVars == <<conv, member>>
agentVars == <<pc, step, spoken, held>>
vars == <<tick, managerVars, agentVars>>

\* "gone": deleted from the map.  An id is never used twice (randomUUID).
Status == {"unused", "active", "ended", "gone"}

Conversation ==
    [status : Status, people : Seq(Agents), speaker : Agents \cup {None},
     turn : Nat, start : Nat, kind : {"call", "talk"}, limit : Nat]

Unused == [status |-> "unused", people |-> <<>>, speaker |-> None, turn |-> 0,
           start |-> 0, kind |-> "talk", limit |-> 0]

\* Not at work in this tick; before the check of an iteration; in the graph of
\* model and tools; in the await of speak_in_call; in the hooks of the router.
AgentPc == {"out", "ready", "thinking", "line", "routed"}

TypeOK ==
    /\ tick \in Nat
    /\ conv \in [Ids -> Conversation]
    /\ member \in [Agents -> Ids \cup {None}]
    /\ pc \in [Agents -> AgentPc]
    /\ step \in [Agents -> 0..Iterations]
    /\ spoken \in [Agents -> 0..Lines]
    /\ held \in [Agents -> Ids \cup {None}]

Init ==
    /\ tick = 0
    /\ conv = [c \in Ids |-> Unused]
    /\ member = [a \in Agents |-> None]
    /\ pc = [a \in Agents |-> "out"]
    /\ step = [a \in Agents |-> 0]
    /\ spoken = [a \in Agents |-> 0]
    /\ held = [a \in Agents |-> None]

-----------------------------------------------------------------------------
(***************************************************************************)
(* ConversationManager.                                                    *)
(***************************************************************************)
Active == {c \in Ids : conv[c].status = "active"}
ActiveCalls == {c \in Active : conv[c].kind = "call"}
People(c) == {conv[c].people[i] : i \in DOMAIN conv[c].people}

\* getConversationForAgent, which forgets an entry that leads nowhere.
InConversation(a) == member[a] \in Active
Looked(a) == IF InConversation(a) THEN member ELSE [member EXCEPT ![a] = None]

CanSpeak(a) == InConversation(a) => conv[member[a]].speaker = a

Fresh(c) == conv[c].status = "unused" /\ \A d \in Ids : d < c => conv[d].status # "unused"

\* startConversation: whoever takes part leaves the conversation it was in.
StartConversation(c, people, kind, limit) ==
    /\ Fresh(c)
    /\ conv' = [conv EXCEPT ![c] =
                  [status |-> "active", people |-> people, speaker |-> people[1],
                   turn |-> 0, start |-> tick, kind |-> kind, limit |-> limit]]
    /\ member' = [a \in Agents |->
                    IF \E i \in DOMAIN people : people[i] = a THEN c ELSE member[a]]

\* Fault: startCall asks only the caller whether it is in a conversation.
BusyCallerOnly(a, b) == member[a] # None

Busy(a, b) == member[a] # None \/ member[b] # None

StartCall(c, a, b, limit) ==
    /\ ~Busy(a, b)
    /\ StartConversation(c, <<a, b>>, "call", limit)

\* Fault: only the first of the participants is freed.
FreedFirst(c) == [member EXCEPT ![conv[c].people[1]] = IF @ = c THEN None ELSE @]

\* endConversation: those it still has are free.
Freed(c) ==
    [a \in Agents |-> IF a \in People(c) /\ member[a] = c THEN None ELSE member[a]]

EndConversation(c) ==
    /\ conv' = [conv EXCEPT ![c].status = "ended"]
    /\ member' = Freed(c)

FirstIndex(people, a) ==
    CHOOSE i \in DOMAIN people : people[i] = a /\ \A j \in 1..(i - 1) : people[j] # a

\* Fault: the next index is that of the speaker, counted from zero.
NextSpeakerSame(people, a) == people[FirstIndex(people, a)]

\* Round robin.
NextSpeaker(people, a) == people[(FirstIndex(people, a) % Len(people)) + 1]

\* Fault: the turn that has just been taken is not counted.
LastTurnLate(c) == conv[c].limit # 0 /\ conv[c].turn >= conv[c].limit

LastTurn(c) == conv[c].limit # 0 /\ conv[c].turn + 1 >= conv[c].limit

MayAdvance(c, a) == c \in Active /\ conv[c].speaker = a

AdvanceTurn(c, a) ==
    \/ /\ MayAdvance(c, a)
       /\ ~LastTurn(c)
       /\ conv' = [conv EXCEPT ![c].turn = @ + 1,
                               ![c].speaker = NextSpeaker(conv[c].people, a)]
       /\ UNCHANGED member
    \/ /\ MayAdvance(c, a)
       /\ LastTurn(c)
       /\ conv' = [conv EXCEPT ![c].turn = @ + 1, ![c].status = "ended"]
       /\ member' = Freed(c)
    \/ ~MayAdvance(c, a) /\ UNCHANGED managerVars

\* Fault: a conversation is kept one tick longer.
StaleLater(c, now) == now - conv[c].start - conv[c].turn > StaleThreshold + 1

Stale(c, now) == now - conv[c].start - conv[c].turn > StaleThreshold

\* tickCleanup: what has ended is deleted, what is stale is ended and deleted.
TickCleanup(now) ==
    LET old == {c \in Ids : conv[c].status = "ended"}
                 \cup {c \in Active : Stale(c, now)}
    IN  /\ conv' = [c \in Ids |-> IF c \in old THEN [conv[c] EXCEPT !.status = "gone"]
                                               ELSE conv[c]]
        /\ member' = [a \in Agents |-> IF member[a] \in old /\ a \in People(member[a])
                                       THEN None ELSE member[a]]

-----------------------------------------------------------------------------
(***************************************************************************)
(* The tick.                                                               *)
(***************************************************************************)
\* The conversations are cleaned up, and some of the agents are handed to the
\* batch executor.
TickStart ==
    /\ tick < MaxTick
    /\ \A a \in Agents : pc[a] = "out"
    /\ tick' = tick + 1
    /\ TickCleanup(tick + 1)
    /\ \E chosen \in SUBSET Agents :
         pc' = [a \in Agents |-> IF a \in chosen THEN "ready" ELSE "out"]
    /\ UNCHANGED <<step, spoken, held>>

\* The tick() of an agent is over, one way or the other.
Leave(a) ==
    /\ pc' = [pc EXCEPT ![a] = "out"]
    /\ step' = [step EXCEPT ![a] = 0]
    /\ spoken' = [spoken EXCEPT ![a] = 0]

MayBegin(a) == step[a] < Iterations

\* canSpeak allows the iteration; its messages are read and the model is called.
BeginIteration(a) ==
    /\ pc[a] = "ready"
    /\ MayBegin(a)
    /\ CanSpeak(a)
    /\ member' = Looked(a)
    /\ pc' = [pc EXCEPT ![a] = "thinking"]
    /\ step' = [step EXCEPT ![a] = @ + 1]
    /\ UNCHANGED <<tick, conv, spoken, held>>

\* It is another one's turn, no iteration is left, or the agent may not go on
\* (stopped, paused, over its budget): its tick ends.
EndIterations(a) ==
    /\ pc[a] = "ready"
    /\ Leave(a)
    /\ UNCHANGED <<tick, managerVars, held>>

\* The model fails, or a hook of the message router does.
AgentFails(a) ==
    /\ pc[a] \in {"thinking", "routed"}
    /\ Leave(a)
    /\ UNCHANGED <<tick, managerVars, held>>

\* start_call, after its look-ups, for a callee that is somebody else and free.
Dial(a, b) ==
    /\ pc[a] = "thinking"
    /\ a # b
    /\ \E c \in Ids : StartCall(c, a, b, 0)
    /\ UNCHANGED <<tick, agentVars>>

\* Fault: speak_in_call does not ask whose turn it is.
MaySpeakInCallAnyway(a) == member[a] \in ActiveCalls

MaySpeakInCall(a) == member[a] \in ActiveCalls /\ CanSpeak(a)

\* speak_in_call, up to the look-up of the speaker's phone number.
SpeakBegin(a) ==
    /\ pc[a] = "thinking"
    /\ MaySpeakInCall(a)
    /\ spoken[a] < Lines
    /\ pc' = [pc EXCEPT ![a] = "line"]
    /\ spoken' = [spoken EXCEPT ![a] = @ + 1]
    /\ held' = [held EXCEPT ![a] = member[a]]
    /\ UNCHANGED <<tick, managerVars, step>>

\* The line is published and the turn passed on, in the call found before.
SpeakEnd(a) ==
    /\ pc[a] = "line"
    /\ AdvanceTurn(held[a], a)
    /\ pc' = [pc EXCEPT ![a] = "thinking"]
    /\ held' = [held EXCEPT ![a] = None]
    /\ UNCHANGED <<tick, step, spoken>>

\* The look-up throws: the model is told so.
SpeakFails(a) ==
    /\ pc[a] = "line"
    /\ pc' = [pc EXCEPT ![a] = "thinking"]
    /\ held' = [held EXCEPT ![a] = None]
    /\ UNCHANGED <<tick, managerVars, step, spoken>>

HangUp(a) ==
    /\ pc[a] = "thinking"
    /\ member[a] \in ActiveCalls
    /\ EndConversation(member[a])
    /\ UNCHANGED <<tick, agentVars>>

\* The model's answer is an action, published to the conversation or, without
\* one, to a wider audience.
Route(a) ==
    /\ pc[a] = "thinking"
    /\ member' = Looked(a)
    /\ pc' = [pc EXCEPT ![a] = "routed"]
    /\ spoken' = [spoken EXCEPT ![a] = 0]
    /\ UNCHANGED <<tick, conv, step, held>>

\* After the hooks of the router: the turn passes on in the conversation that
\* the agent is in by now.
AfterRoute(a) ==
    /\ pc[a] = "routed"
    /\ pc' = [pc EXCEPT ![a] = "ready"]
    /\ IF InConversation(a)
       THEN AdvanceTurn(member[a], a)
       ELSE member' = Looked(a) /\ UNCHANGED conv
    /\ UNCHANGED <<tick, step, spoken, held>>

AgentStep(a) ==
    \/ BeginIteration(a) \/ EndIterations(a) \/ AgentFails(a)
    \/ \E b \in Agents : Dial(a, b)
    \/ SpeakBegin(a) \/ SpeakEnd(a) \/ SpeakFails(a) \/ HangUp(a)
    \/ Route(a) \/ AfterRoute(a)

-----------------------------------------------------------------------------
(***************************************************************************)
(* The host.                                                               *)
(***************************************************************************)
HostConverses ==
    /\ \E c \in Ids, people \in Groups : StartConversation(c, people, "talk", 0)
    /\ UNCHANGED <<tick, agentVars>>

HostCalls ==
    /\ \E c \in Ids, a, b \in Agents, limit \in Limits :
         a # b /\ StartCall(c, a, b, limit)
    /\ UNCHANGED <<tick, agentVars>>

HostEnds ==
    /\ Ending
    /\ \E c \in Active : EndConversation(c)
    /\ UNCHANGED <<tick, agentVars>>

Next ==
    \/ TickStart
    \/ \E a \in Agents : AgentStep(a)
    \/ HostConverses \/ HostCalls \/ HostEnds

Spec == Init /\ [][Next]_vars

-----------------------------------------------------------------------------
(***************************************************************************)
(* Properties.                                                             *)
(***************************************************************************)
\* Whoever is said to be in a conversation is a participant of one that goes on:
\* nobody is kept silent, or busy, by a conversation that has ended, whether by
\* hang_up, by its last turn, by cleanup or by the host, in the middle of a tick.
MembershipIsLive ==
    \A a \in Agents :
        member[a] # None => /\ member[a] \in Active
                            /\ a \in People(member[a])

\* The busy line: while only calls are made no agent is in two of them, although
\* a callee may be called, call and be called back while it thinks.
OneConversationEach ==
    \A c, d \in Active : c # d => People(c) \cap People(d) = {}

\* A speaker suspended in speak_in_call still has the turn when it goes on,
\* unless the call has ended: nobody else can pass its turn on.
RightToSpeakHeld ==
    \A a \in Agents :
        pc[a] = "line" /\ held[a] \in Active => conv[held[a]].speaker = a

\* Turns go round: after n turns it is the turn of participant n + 1, also when an
\* agent passes the turn on twice in one iteration or in the wrong order; a limited
\* call ends with its last allowed turn, under suspended speakers too.
TurnOrder ==
    \A c \in Active :
        /\ conv[c].speaker = conv[c].people[(conv[c].turn % Len(conv[c].people)) + 1]
        /\ conv[c].limit # 0 => conv[c].turn < conv[c].limit

\* No conversation outlives its silence: it is never older, in ticks, than the
\* turns taken in it and the threshold allow; it cannot block its people for ever.
StaleBound ==
    \A c \in Active : tick - conv[c].start <= conv[c].turn + StaleThreshold

\* The calls implement the exchange: a new one joins two agents that are free,
\* and the others go on undisturbed.
Exchange == INSTANCE PhoneExchange
              WITH lines <- {People(c) : c \in ActiveCalls}
ImplementsExchange == Exchange!Spec
=============================================================================
