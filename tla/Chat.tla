--------------------------------- MODULE Chat ---------------------------------
(***************************************************************************)
(* A user's conversation with an agent, beside the ticks (src/plugins/built-in/ *)
(* ChatPlugin.ts), called by the socket handlers of                             *)
(* src/streaming/WorldSimServer.ts.  A session is an object in a Map: a call     *)
(* keeps the object it found, across two awaits.                               *)
(***************************************************************************)
EXTENDS Integers, SequencesExt, FiniteSetsExt

CONSTANTS
    Parlours  \* [sends: <<[agent, session, stream]>>, the messages users send; max: messages of
              \* a session; stops: agents that may stop; chunks: pieces of a streamed answer]

\* slice(-0) would keep all.
ASSUME ParloursAreSound == \A p \in Parlours : p.max \in Nat \ {0}

VARIABLES
    parlour,
    sessions,  \* session objects in the order they were made: [id, agent, messages]
    sessionOf, \* the Map: the object an id stands for
    chats,     \* message i of the users: [at, session, prompt, chunks]
    inactive,  \* agents that are stopped
    persisted, \* exchanges handed to the agent's memory
    \* history:
    exchanged  \* session object -> the messages answered in it, in order

chatVars == <<parlour, sessions, sessionOf, chats, inactive, persisted, exchanged>>

Sends == DOMAIN parlour.sends
NewSession(id, a) == [id |-> id, agent |-> a, messages |-> <<>>]
Unsent == [at |-> "unsent", session |-> 0, prompt |-> <<>>, chunks |-> 0]

ChatInit ==
    /\ parlour \in Parlours
    /\ sessions = <<>> /\ sessionOf = <<>> /\ inactive = {} /\ persisted = {} /\ exchanged = <<>>
    /\ chats = [i \in Sends |-> Unsent]

StopAgent(a) ==
    /\ a \in parlour.stops \ inactive
    /\ inactive' = inactive \cup {a}
    /\ UNCHANGED <<parlour, sessions, sessionOf, chats, persisted, exchanged>>

\* *Fault*: the session of an id is taken, whichever agent it is with.
FoundById(id, a) == id \in DOMAIN sessionOf
\* getOrCreateSession finds the one there is
Found(id, a) == id \in DOMAIN sessionOf /\ sessions[sessionOf[id]].agent = a

\* *Fault*: the user's message goes into the session before it is answered.
SaysFirst(messages, i) == Append(messages, [role |-> "user", of |-> i])
Untouched(messages, i) == messages

\* chat:send up to the await of buildChatContext; a stopped agent is an error.  A message
\* without a session gets an id of its own; an id that is another agent's is given away.
Send(i) ==
    /\ chats[i] = Unsent
    /\ LET s == parlour.sends[i]
           known == Found(s.session, s.agent)
           object == IF known THEN sessionOf[s.session] ELSE Len(sessions) + 1
           made == IF known THEN sessions ELSE Append(sessions, NewSession(s.session, s.agent))
       IN  IF s.agent \in inactive
           THEN /\ chats' = [chats EXCEPT ![i].at = "failed"]
                /\ UNCHANGED <<sessions, sessionOf, exchanged>>
           ELSE /\ sessions' = [made EXCEPT ![object].messages = Untouched(@, i)]
                /\ sessionOf' = [id \in DOMAIN sessionOf \cup {s.session} |->
                                    IF id = s.session THEN object ELSE sessionOf[id]]
                /\ chats' = [chats EXCEPT ![i].at = "context", ![i].session = object]
                /\ exchanged' = IF known THEN exchanged ELSE Append(exchanged, <<>>)
    /\ UNCHANGED <<parlour, inactive, persisted>>

Exchange(i) == <<[role |-> "user", of |-> i], [role |-> "agent", of |-> i]>>
LastOf(messages, max) == SubSeq(messages, Max({1, Len(messages) - max + 1}), Len(messages))

\* The context is there: the history goes into the prompt, and the model is asked.
AskModel(i) ==
    /\ chats[i].at = "context"
    /\ chats' = [chats EXCEPT ![i].at = "asked",
                              ![i].prompt = LastOf(sessions[chats[i].session].messages, parlour.max)]
    /\ UNCHANGED <<parlour, sessions, sessionOf, inactive, persisted, exchanged>>

\* A piece of a streamed answer goes to the socket.
Chunk(i) ==
    /\ chats[i].at = "asked" /\ parlour.sends[i].stream /\ chats[i].chunks < parlour.chunks
    /\ chats' = [chats EXCEPT ![i].chunks = @ + 1]
    /\ UNCHANGED <<parlour, sessions, sessionOf, inactive, persisted, exchanged>>

\* finalize, in one go: both messages of the exchange, the cut, the memory, whose store may
\* fail (the failure is logged), and the answer to the socket.
Finalize(i, stored) ==
    /\ chats[i].at = "asked"
    /\ chats' = [chats EXCEPT ![i].at = "answered"]
    /\ sessions' = [sessions EXCEPT ![chats[i].session].messages =
                       LastOf(@ \o Exchange(i), parlour.max)]
    /\ persisted' = IF stored THEN persisted \cup {i} ELSE persisted
    /\ exchanged' = [exchanged EXCEPT ![chats[i].session] = Append(@, i)]
    /\ UNCHANGED <<parlour, sessionOf, inactive>>

\* The model fails, also in the middle of a stream: an error to the socket.
Fails(i) ==
    /\ chats[i].at = "asked"
    /\ chats' = [chats EXCEPT ![i].at = "failed"]
    /\ UNCHANGED <<parlour, sessions, sessionOf, inactive, persisted, exchanged>>

\* chat:history of an agent and a session id.
History(a, id) == IF Found(id, a) THEN sessions[sessionOf[id]].messages ELSE <<>>

ChatNext ==
    \/ \E a \in parlour.stops : StopAgent(a)
    \/ \E i \in Sends : \/ Send(i) \/ AskModel(i) \/ Chunk(i) \/ Fails(i)
                        \/ \E stored \in BOOLEAN : Finalize(i, stored)

ChatSpec == ChatInit /\ [][ChatNext]_chatVars

(***************************************************************************)
(* Properties.                                                             *)
(***************************************************************************)
Told(done) ==
    [j \in 1..2 * Len(done) |->
        [role |-> IF j % 2 = 1 THEN "user" ELSE "agent", of |-> done[(j + 1) \div 2]]]

\* However the calls of a session overlap and fail, its history is the latest exchanges that
\* were answered in it, whole and in the order they were answered, and all with its agent;
\* a prompt holds what had been answered when it was built, and nobody's chat with another
\* agent; what an agent remembers was answered (ChatPlugin.ts:168-321).
ExchangesAreWhole ==
    /\ \A s \in DOMAIN sessions :
          /\ sessions[s].messages = LastOf(Told(exchanged[s]), parlour.max)
          /\ \A i \in ToSet(exchanged[s]) : parlour.sends[i].agent = sessions[s].agent
    /\ \A i \in Sends : chats[i].prompt # <<>> =>
          \E n \in DOMAIN exchanged[chats[i].session] :
             chats[i].prompt = LastOf(Told(SubSeq(exchanged[chats[i].session], 1, n)), parlour.max)
    /\ \A i \in Sends : \A m \in ToSet(History(parlour.sends[i].agent, parlour.sends[i].session)) :
          parlour.sends[m.of].agent = parlour.sends[i].agent
    /\ \A i \in persisted : chats[i].at = "answered"
=============================================================================
