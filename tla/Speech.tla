------------------------------- MODULE Speech -------------------------------
(***************************************************************************)
(* How what an agent does reaches the others: the MessageRouter between the  *)
(* StimulusBus, the TopicTracker, the PerceptionEngine and the MessageBus,   *)
(* driven by the tick of the TickOrchestrator and by PersonAgent.tick.       *)
(*                                                                         *)
(* Every action of an agent is published as speech, whatever its type.  One  *)
(* TLA+ action stands for the code between two awaits; the agents of a tick  *)
(* interleave at all of them.  An agent makes one iteration per tick, so     *)
(* <<agent, tick>> names its action, its message and its stimulus.           *)
(***************************************************************************)
EXTENDS Senses, Topics

CONSTANTS
    Agents,      \* person agents, registered
    Emitters,    \* emitters of entities: [from, kind, channel, intensity, range, tags,
                 \* every]
    Modes,       \* worlds: the InteractionConfig, senses and places, the agents that a schedule,
                 \* a cooldown, a budget or a pause may keep from a tick (`sparing`), and the
                 \* bounds `until` (ticks), `walkers` (agents that may move, once)
    Retention,   \* retentionTicks of the StimulusBus
    Novelty,     \* the length of recentPerceivedStimulusIds (50)
    Placeholder, \* what a model writes for an id that it does not give
    Faint,       \* DEFAULT_PERCEPTION_FLOOR of TickContextLoader
    Delay        \* thinking delay of an agent, in units

\* No agent has the name of the bus's "*" or of another world, or is its own neighbour; what
\* converses, senses and writes in are agents.
ASSUME SpeechAssumption ==
    /\ IsFiniteSet(Agents) /\ IsFiniteSet(Emitters) /\ Retention \in Nat \ {0}
    /\ {"*", "abroad"} \cap Agents = {}
    /\ Delay \in [Agents -> Nat]
    /\ \A m \in Modes :
          /\ m.conversation \subseteq Agents /\ DOMAIN m.senses \subseteq Agents
          /\ m.inbound \subseteq SUBSET Agents
          /\ m.friends = <<>> \/ \A a \in Agents : m.friends[a] \subseteq Agents \ {a}

\* What the code takes for a number is one, and no entity has the name of an agent.
ASSUME NumbersAssumption ==
    /\ \A e \in Emitters : e.from \notin Agents /\ {e.intensity, e.range} \subseteq Int
    /\ \A m \in Modes :
          /\ m.reach \subseteq Int /\ \A x \in DOMAIN m.places : m.places[x] \in Int
          /\ \A a \in DOMAIN m.senses : \A c \in DOMAIN m.senses[a] :
                {m.senses[a][c].range, m.senses[a][c].sensitivity} \subseteq Int
          /\ \A a \in Agents : m.voice[a] \in Int /\ LET cares == m.cares[a] IN
                /\ {cares.needWeight, cares.relationshipWeight, cares.budget} \subseteq Int
                /\ \A n \in cares.needs : {n.value, n.activation} \subseteq Int
                /\ \A t \in cares.ties : t.strength \in Int

VARIABLES
    mode,     \* the InteractionConfig, which never changes
    tick,
    stage,    \* "closed", "opened" (before the batch) or "running" (the batch)
    bus,      \* MessageBus: the messages of the current tick in order of arrival
    line,     \* IntraTickTimeline: sequence and offset
    stims,    \* StimulusBus.perTick
    tracker,  \* TopicTracker
    where,    \* LocationIndex
    agent,    \* where the tick of an agent is suspended, with its locals
    recent,   \* recentPerceivedStimulusIds
    drowsy,   \* agents without goals whose energy is at most 30
    turn,     \* the participant of the conversation that may speak
    \* history:
    receipts, \* MessageDeliveryReceipts so far
    heard,    \* agent -> stimuli among the percepts it looked at
    held,     \* <<agent, tick>>: the agent's tick ended before it looked at its percepts
    walked    \* agents that have moved

worldVars == <<mode, tick, stage, where, walked>>
mediaVars == <<bus, line, stims, tracker>>
turnVars == <<turn, held>>
mindVars == <<agent, recent, drowsy, heard, turnVars>>
vars == <<worldVars, mediaVars, mindVars, receipts>>

Everyone == "*"
Nobody == "nobody"
Free == [pc |-> "done", incoming |-> {}, raw |-> <<>>, ranked |-> <<>>,
         stim |-> <<>>, stamp |-> <<>>, hearers |-> {}]

Init ==
    /\ mode \in Modes
    /\ tick = 0 /\ stage = "closed"
    /\ bus = <<>> /\ line = [seq |-> 0, offset |-> 0]
    /\ stims = <<>> /\ tracker = NoTopics
    /\ where = mode.places
    /\ agent = [a \in Agents |-> Free]
    /\ recent = [a \in Agents |-> <<>>]
    /\ drowsy = mode.drowsy
    /\ turn \in IF mode.conversation = {} THEN {Nobody} ELSE mode.conversation
    /\ receipts = {} /\ heard = [a \in Agents |-> {}] /\ held = {} /\ walked = {}

(***************************************************************************)
(* Queries.                                                                *)
(***************************************************************************)
\* VenueLineOfSightProvider, whose filter is there when shared labels are configured: sound
\* and sight of an agent do not pass from one venue into another.  A label comes with a place.
Label(x) ==
    IF x \in DOMAIN where /\ where[x] \in DOMAIN mode.venues THEN mode.venues[where[x]] ELSE "none"
Walled(x, y) ==
    LET labels == {Label(x), Label(y)}
    IN  /\ mode.shared # {} /\ x \in Agents
        /\ Cardinality(labels) = 2 /\ labels \cap (mode.shared \cup {"none"}) = {}
Blocked(a) == {"sound", "sight"} \X {x \in Agents : Walled(x, a)}

Percepts(a, t) ==
    IF t \notin DOMAIN stims \/ a \notin DOMAIN mode.senses THEN <<>>
    ELSE PerceiveFor(a, stims[t], mode.senses[a], where, mode.geography, Blocked(a))

\* perceiveRetained: the retained ticks in ascending order
PerceiveRetained(a) == Flat([t \in 1..tick |-> Percepts(a, t)])

\* a plugin's onPerceptDelivered drops what the hearer is deaf to
Delivered(a, percepts) ==
    Sifted(percepts, {i \in DOMAIN percepts : <<a, percepts[i].from>> \notin mode.deaf})

\* getMessages, getMessageCount
InboxOf(a) == {i \in DOMAIN bus : bus[i].to \in {a, Everyone}}

\* sortMessagesByTimeline: by offset, then by sequence
Before(m, n) == m.offset < n.offset \/ (m.offset = n.offset /\ m.seq < n.seq)

Idle(a) ==
    /\ InboxOf(a) = {}
    /\ a \in drowsy
    /\ a \notin mode.conversation
    /\ \A t \in {u \in DOMAIN stims : mode.perception /\ u <= tick} :
          \A i \in DOMAIN Percepts(a, t) :
             LET felt == Percepts(a, t)[i].felt IN felt = NotANumber \/ felt < Faint
    /\ a \notin mode.needy

(***************************************************************************)
(* Timeline and buses.                                                     *)
(***************************************************************************)
NextEvent(at) == [seq |-> line.seq + 1, offset |-> Max({line.offset, at})]

\* *Fault*: the thinking starts when the tick does
ReserveFromTickStart(a, observed) == [seq |-> line.seq + 1, offset |-> Delay[a]]

\* reserveAction: thinking starts after the latest message the agent observed
ReserveAction(a, observed) ==
    NextEvent(Max({line.offset} \cup {m.offset : m \in observed}) + Delay[a])

\* *Fault*: the new tick is not counted among those that are kept
RetainedOneLess(t) == {u \in DOMAIN stims \cup {t} : u > t - Retention + 1}

\* StimulusBus.newTick keeps `Retention` ticks, the new one included
RetainedFrom(t) == {u \in DOMAIN stims \cup {t} : u >= t - Retention + 1}

Publish(stim) == [stims EXCEPT ![stim.tick] = Append(stims[stim.tick], stim)]

\* emitEntityStimuli: the emitters that fire on this tick and are not cancelled
EntityStimuli(t) ==
    LET firing == {e \in Emitters : t % e.every = 0 /\ e.from \notin mode.hushed}
    IN  SetToSeq({[id |-> <<e.from, t>>, from |-> e.from, tick |-> t, kind |-> e.kind,
                   channel |-> e.channel, intensity |-> e.intensity, range |-> e.range,
                   tongue |-> "untold", topic |-> {}, cause |-> {}, words |-> {},
                   tags |-> e.tags] : e \in firing})

(***************************************************************************)
(* The tick.                                                               *)
(***************************************************************************)
(* executeTick up to the tick handlers: the new tick of both buses, the      *)
(* letters drained from other worlds, the stimuli of the entities.          *)
OpenTick ==
    /\ stage = "closed" /\ tick < mode.until
    /\ tick' = tick + 1 /\ stage' = "opened"
    /\ \E letters \in mode.inbound :
          /\ bus' = SetToSeq({[id |-> <<"letter", a, tick'>>, from |-> "abroad", to |-> a,
                               seq |-> 1, offset |-> 0] : a \in letters})
          /\ line' = [seq |-> Cardinality(letters), offset |-> 0]
    /\ stims' = [t \in RetainedFrom(tick') |->
                    IF t # tick' THEN stims[t]
                    ELSE IF mode.perception THEN EntityStimuli(tick') ELSE <<>>]
    /\ UNCHANGED <<mode, where, walked, tracker, mindVars, receipts>>

(* The filter of the active agents: a message or any percept overrides the   *)
(* activity ratio, which `drawn` stands for.                                *)
Activate ==
    /\ stage = "opened"
    /\ stage' = "running"
    /\ \E drawn \in mode.drawn :
          agent' = [a \in Agents |->
             [Free EXCEPT !.pc =
                IF \/ InboxOf(a) # {}
                   \/ mode.perception /\ PerceiveRetained(a) # <<>>
                   \/ a \in drawn
                THEN "waiting" ELSE "done"]]
    /\ UNCHANGED <<mode, tick, where, walked, mediaVars, recent, drowsy, heard, turnVars, receipts>>

(* The rest of executeTick: speech that has no topic yet is ingested.        *)
CloseTick ==
    /\ stage = "running" /\ \A a \in Agents : agent[a].pc = "done"
    /\ stage' = "closed"
    /\ IF mode.perception
       THEN LET said == stims[tick]
                upto[n \in 0..Len(said)] ==
                   IF n = 0 THEN tracker
                   ELSE IF said[n].kind = "speech" THEN Ingest(upto[n - 1], said[n], said[n].id)
                   ELSE upto[n - 1]
            IN  /\ tracker' = upto[Len(said)]
                /\ stims' = [stims EXCEPT ![tick] = [i \in DOMAIN said |->
                      IF said[i].kind # "speech" THEN said[i]
                      ELSE [said[i] EXCEPT !.topic = TopicOf(tracker', said[i])]]]
       ELSE UNCHANGED <<tracker, stims>>
    /\ UNCHANGED <<mode, tick, where, walked, bus, line, mindVars, receipts>>

(***************************************************************************)
(* PersonAgent.tick.                                                       *)
(***************************************************************************)
At_(a, pc) == stage = "running" /\ agent[a].pc = pc

\* the tick of an agent that returns before it reads anything
HoldBack(a) ==
    /\ agent' = [agent EXCEPT ![a].pc = "done"]
    /\ held' = held \cup {<<a, tick>>}

(* shouldSkipTick ends the tick of an agent off its schedule, in a cooldown,  *)
(* over its budget, or no longer active: Scheduling says when.  An idle agent *)
(* rests, which stamps an action that is not published and restores some      *)
(* energy; another one gathers its context.                                 *)
Begin(a) ==
    /\ At_(a, "waiting")
    /\ \/ /\ a \in mode.sparing
          /\ HoldBack(a)
          /\ UNCHANGED <<line, drowsy>>
       \/ /\ Idle(a)
          /\ line' = ReserveAction(a, {})
          /\ drowsy' \in {drowsy, drowsy \ {a}}
          /\ agent' = [agent EXCEPT ![a].pc = "done"]
          /\ UNCHANGED held
       \/ /\ ~Idle(a)
          /\ agent' = [agent EXCEPT ![a].pc = "gathering"]
          /\ UNCHANGED <<line, drowsy, held>>
    /\ UNCHANGED <<worldVars, bus, stims, tracker, recent, heard, turn, receipts>>

\* canSpeak; Conversations says how turns pass and conversations begin and end.
CanSpeak(a) == a \in mode.conversation => turn = a

(* After the await of the context: isActive and canSpeak are asked, and the    *)
(* messages and the percepts read, before the hooks are awaited.             *)
Observe(a) ==
    /\ At_(a, "gathering")
    /\ \/ /\ a \in mode.sparing \/ ~CanSpeak(a)
          /\ HoldBack(a)
          /\ UNCHANGED heard
       \/ /\ CanSpeak(a)
          /\ LET raw == IF mode.perception THEN PerceiveRetained(a) ELSE <<>>
             IN  /\ agent' = [agent EXCEPT ![a] =
                       [@ EXCEPT !.pc = "perceiving", !.raw = raw,
                                 !.incoming = {bus[i] : i \in InboxOf(a)}]]
                 /\ heard' = [heard EXCEPT ![a] = @ \cup {raw[i].stim : i \in DOMAIN raw}]
          /\ UNCHANGED held
    /\ UNCHANGED <<worldVars, mediaVars, recent, drowsy, turn, receipts>>

\* the end of computeAttendedPercepts: rank, attend, and the novelty window
AttendPercepts(a) ==
    /\ At_(a, "perceiving")
    /\ LET ranked == Attend(Rank(Delivered(a, agent[a].raw), Range(recent[a]),
                                 mode.cares[a], tick), mode.cares[a])
           seen == recent[a] \o [i \in DOMAIN ranked |-> ranked[i].percept.stim]
       IN  /\ agent' = [agent EXCEPT ![a] = [@ EXCEPT !.pc = "thinking", !.ranked = ranked,
                                                      !.raw = <<>>]]
           /\ recent' = [recent EXCEPT ![a] =
                            SubSeq(seen, Max({1, Len(seen) - Novelty + 1}), Len(seen))]
    /\ UNCHANGED <<worldVars, mediaVars, drowsy, heard, turnVars, receipts>>

(* parseAgentAction: text without JSON is speech that names nothing; a key of *)
(* the envelope wins over the same key of its metadata, and placeholders like *)
(* "null" and "-" are not ids.                                              *)
Useful(ids) == ids \ {Placeholder}

Named(answer, key) ==
    IF ~answer.json THEN {}
    ELSE IF Useful(answer.outer[key]) # {} THEN Useful(answer.outer[key])
                                          ELSE Useful(answer.metadata[key])

\* buildActionMetadata: what the model does not name comes from the top percept
TopicNamed(a, answer) ==
    IF Named(answer, "topic") # {} \/ agent[a].ranked = <<>>
    THEN Named(answer, "topic") ELSE agent[a].ranked[1].percept.topic

Cause(a, answer) ==
    IF Named(answer, "cause") # {} \/ agent[a].ranked = <<>>
    THEN Named(answer, "cause") ELSE {agent[a].ranked[1].percept.stim}

Silent == [json |-> FALSE]

SpeechOf(a, answer) ==
    [id |-> <<a, tick>>, from |-> a, tick |-> tick, kind |-> "speech", channel |-> "sound",
     intensity |-> mode.voice[a], range |-> Unlimited, tongue |-> "untold",
     topic |-> TopicNamed(a, answer), cause |-> Cause(a, answer), words |-> mode.says[a],
     tags |-> {}]

(***************************************************************************)
(* MessageRouter.publish.                                                  *)
(***************************************************************************)
Receipt(a, route, to, reason) ==
    [id |-> <<a, tick>>, from |-> a, tick |-> tick, route |-> route, to |-> to, reason |-> reason]

\* deliverToGroup and deliverBroadcast, up to the hook of the receipt
Send(a, to, route, stamp) ==
    /\ bus' = bus \o SetToSeq({[id |-> <<a, tick>>, from |-> a, to |-> r,
                                seq |-> stamp.seq, offset |-> stamp.offset] : r \in to})
    /\ receipts' = receipts \cup {Receipt(a, route, to, "none")}
    /\ agent' = [agent EXCEPT ![a] = [Free EXCEPT !.pc = "receipt"]]

RecordDropped(a, reason) ==
    /\ receipts' = receipts \cup {Receipt(a, "dropped", {}, reason)}
    /\ agent' = [agent EXCEPT ![a] = [Free EXCEPT !.pc = "receipt"]]
    /\ UNCHANGED bus

Nearby(a) ==
    {b \in Agents \ {a} : /\ Placed(where, a) /\ Placed(where, b)
                          /\ where[a] - where[b] \in -mode.radius..mode.radius}

\* the end of the cascade: proximity, then the policy
Fallback(a, stamp) ==
    IF mode.radius > 0 /\ Nearby(a) # {} THEN Send(a, Nearby(a), "proximity", stamp)
    ELSE IF mode.policy = "broadcast" THEN Send(a, {Everyone}, "broadcast", stamp)
    ELSE RecordDropped(a, "no_routing_audience") \* and an error, after it, with "error"

\* *Fault*: the speaker is among the participants it speaks to
CascadeToAll(a, stamp) ==
    IF a \in mode.conversation THEN Send(a, mode.conversation, "conversation", stamp)
                               ELSE Fallback(a, stamp)

\* the cascade up to the await of getActiveNeighbors
Cascade(a, stamp) ==
    IF a \in mode.conversation THEN Send(a, mode.conversation \ {a}, "conversation", stamp)
    ELSE IF mode.friends # <<>>
         THEN /\ agent' = [agent EXCEPT ![a] = [Free EXCEPT !.pc = "routing", !.stamp = stamp]]
              /\ UNCHANGED <<bus, receipts>>
    ELSE Fallback(a, stamp)

(* The end of singleIteration, when the model has answered, and the start of *)
(* publish: its metadata, its stateUpdate, the stamp and the stimulus.       *)
Act(a) ==
    /\ At_(a, "thinking")
    /\ LET stamp == ReserveAction(a, agent[a].incoming)
       IN  /\ line' = stamp
           /\ IF mode.perception
              THEN /\ \E answer \in mode.answers :
                         agent' = [agent EXCEPT ![a] =
                            [@ EXCEPT !.pc = "emitting", !.stim = SpeechOf(a, answer),
                                      !.stamp = stamp, !.incoming = {}, !.ranked = <<>>]]
                   /\ UNCHANGED <<bus, receipts>>
              ELSE Cascade(a, stamp)
    /\ drowsy' \in {drowsy \ {a}, drowsy \cup ({a} \cap mode.drowsy)}
    /\ UNCHANGED <<worldVars, stims, tracker, recent, heard, turnVars>>

\* *Fault*: perceiveAll before the stimulus is on the bus
HearersTooEarly(a, spoken) == {b \in DOMAIN mode.senses : FALSE}

\* perceiveAll, of which only this stimulus matters to its speaker
HearersOf(a, spoken) ==
    {b \in DOMAIN mode.senses \ {a} :
        Percept(spoken, b, mode.senses[b], where, mode.geography, Blocked(b)) # {}}

(* publishViaPerception after onStimulusEmit: the topic, the stimulus and     *)
(* perceiveAll, before the hooks of the hearers.                            *)
Emit(a) ==
    /\ At_(a, "emitting")
    /\ IF a \in mode.hushed
       THEN RecordDropped(a, "stimulus_cancelled") /\ UNCHANGED <<tracker, stims>>
       ELSE LET spoken == agent[a].stim
            IN  /\ tracker' = Ingest(tracker, spoken, spoken.id)
                /\ stims' = Publish([spoken EXCEPT !.topic = TopicOf(tracker', spoken)])
                /\ agent' = [agent EXCEPT ![a] =
                      [@ EXCEPT !.pc = "delivering", !.hearers = HearersOf(a, spoken)]]
                /\ UNCHANGED <<bus, receipts>>
    /\ UNCHANGED <<worldVars, line, recent, drowsy, heard, turnVars>>

\* after onPerceptDelivered of every hearer
Deliver(a) ==
    /\ At_(a, "delivering")
    /\ LET reached == {b \in agent[a].hearers : <<b, a>> \notin mode.deaf}
           reason == ExplainUndelivered(agent[a].stim, a, mode.senses, where, mode.geography)
       IN  IF reached # {} THEN Send(a, reached, "perception", agent[a].stamp)
           ELSE IF mode.fallback THEN Cascade(a, agent[a].stamp)
           ELSE RecordDropped(a, reason)
    /\ UNCHANGED <<worldVars, line, stims, tracker, recent, drowsy, heard, turnVars>>

\* after getActiveNeighbors
Route(a) ==
    /\ At_(a, "routing")
    /\ IF mode.friends[a] # {} THEN Send(a, mode.friends[a], "neighborhood", agent[a].stamp)
                               ELSE Fallback(a, agent[a].stamp)
    /\ UNCHANGED <<worldVars, line, stims, tracker, recent, drowsy, heard, turnVars>>

(* After onMessageRouted: who had the turn passes it on.  The rest of the tick *)
(* is in WorldEngine and Society.                                           *)
Finish(a) ==
    /\ At_(a, "receipt")
    /\ agent' = [agent EXCEPT ![a] = Free]
    /\ turn' \in IF turn = a /\ mode.conversation \ {a} # {} THEN mode.conversation \ {a} ELSE {turn}
    /\ UNCHANGED <<worldVars, mediaVars, recent, drowsy, heard, held, receipts>>

\* updateLocation, from a tool of the agent or from a plugin
Move(a) ==
    /\ stage = "running" /\ a \in mode.walkers \ walked
    /\ \E place \in mode.reach : where' = [where EXCEPT ![a] = place]
    /\ walked' = walked \cup {a}
    /\ UNCHANGED <<mode, tick, stage, mediaVars, mindVars, receipts>>

Step(a) ==
    \/ Begin(a) \/ Observe(a) \/ AttendPercepts(a) \/ Act(a) \/ Emit(a)
    \/ Deliver(a) \/ Route(a) \/ Finish(a)

Next == OpenTick \/ Activate \/ CloseTick \/ \E a \in Agents : Step(a) \/ Move(a)

\* the event loop runs what is ready, and every await of a tick is answered
Spec == Init /\ [][Next]_vars /\ WF_vars(OpenTick \/ Activate \/ CloseTick \/ \E a \in Agents : Step(a))

(***************************************************************************)
(* Properties.                                                             *)
(***************************************************************************)
Felt(a, b) == PerceivedIntensity(SpeechOf(a, Silent), mode.senses[b]["sound"],
                                 DistanceInfo(SpeechOf(a, Silent), b, where, mode.geography).km)

\* a speech that is not a number keeps nobody from resting
Loud(a, b) == ~(Felt(a, b) = NotANumber \/ Felt(a, b) < Faint)

\* Speech that a receipt says reached an agent, loudly enough to keep it from resting and with
\* neither of the two moving, is not lost although the agent may have looked before it was
\* spoken: once a later tick in which the bus still keeps it is over, the agent has looked at it,
\* unless it was held back in that tick.  Only who skips its tick or awaits its turn in each of
\* them (with the default retention of two ticks there is one) never hears it: retention, the
\* filter of active agents, the idle check and the turns of a conversation decide together.
HeardWhileKept ==
    stage = "closed" =>
        \A k \in receipts : k.route = "perception" =>
            \A b \in (k.to \cap Agents) \ walked, t \in (k.tick + 1)..tick :
                /\ k.from \notin walked /\ Loud(k.from, b)
                /\ t < k.tick + Retention /\ <<b, t>> \notin held
                => k.id \in heard[b]

MessagesOf(id) == {i \in DOMAIN bus : bus[i].id = id}

\* The receipts of a tick and the message bus tell the same story: whatever path
\* the cascade took, an action has one receipt, and exactly one message for each
\* of its recipients, none of whom is the speaker.  A speech that is dropped in strict mode
\* for no physical reason was dropped by a plugin or a wall: the explanation looks at the senses
\* again, after the hooks of the hearers, and agrees unless somebody moved meanwhile.
ReceiptsMatchTheBus ==
    /\ \A k, l \in receipts : k.id = l.id => k = l
    /\ \A k \in {r \in receipts : r.tick = tick} :
          /\ {bus[i].to : i \in MessagesOf(k.id)} = k.to
          /\ Cardinality(MessagesOf(k.id)) = Cardinality(k.to)
          /\ k.from \notin k.to
    /\ \A i \in DOMAIN bus : bus[i].from \in Agents => \E k \in receipts : k.id = bus[i].id
    /\ \A k \in receipts : k.reason = "filtered" =>
          walked # {} \/ (\E d \in mode.deaf : d[2] = k.from) \/ \E b \in Agents : Walled(k.from, b)

Nameable(key) == UNION {Named(answer, key) : answer \in mode.answers}

\* The two maps of the tracker agree, and an answer to the words of another agent
\* is filed under their topic as long as that is tracked, unless the model named
\* a topic or the words itself: whoever names only the words it answers is filed under
\* the topic of what it perceived most strongly.  Topics expire and are reopened in between.
AnswersStayInTheThread ==
    /\ \A id \in DOMAIN tracker.topics : \A s \in Range(tracker.topics[id].stims) :
          s \in DOMAIN tracker.of /\ tracker.of[s] = id
    /\ \A s \in DOMAIN tracker.of :
          Tracks(tracker, tracker.of[s]) /\ s \in Range(tracker.topics[tracker.of[s]].stims)
    /\ \A t \in DOMAIN stims : \A i \in DOMAIN stims[t] : LET s == stims[t][i] IN
          \A c \in s.cause \ Nameable("cause") :
             /\ {s.id, c} \subseteq DOMAIN tracker.of /\ c[1] \in Agents
             /\ tracker.of[s.id] \notin Nameable("topic")
             => tracker.of[s.id] = tracker.of[c]

\* An action is stamped after every message its agent had read when it decided,
\* so that whoever reads the bus in the order of the stamps sees what was said
\* before what it led to, in whatever order the two were published.
CauseBeforeEffect ==
    [][\A a \in Agents : agent[a].pc = "thinking" /\ agent'[a].pc # "thinking" =>
          \A m \in agent[a].incoming : Before(m, line')]_vars
=============================================================================
