-------------------------------- MODULE Persons --------------------------------
(***************************************************************************)
(* Who a person agent is over the ticks: its internal state, what a tick and a   *)
(* chat make of it, and what the model is told of the agent's past, letters and   *)
(* rules (src/agents/BaseAgent.ts, PersonAgent.ts, internal/TickContextLoader.ts  *)
(* and internal/ActionParser.ts).                                           *)
(*                                                                         *)
(* The three records of an internal state (beliefs, knowledge, custom) are        *)
(* merged and shared alike: "beliefs" stands for them.  Whether an iteration may   *)
(* begin (budget, turns, pauses) is decided in other modules, and here freely.    *)
(***************************************************************************)
EXTENDS Integers, SequencesExt, FiniteSetsExt, TLC

CONSTANTS
    People,  \* the agents
    Casts    \* [present: the agents there are; born: their initial states, as far as given;
             \* profiles, light, always: agents; needy: those whom a conversation, a stimulus or
             \* another need keeps from resting;
             \* iterations; fatigue: by agent, per cent; perceives; rules; answers: [json, type, update]; updates of
             \* chats; until: ticks, letters: messages of a tick, chats: bounds]

\* Fields an agent is born with are its own, numbers are numbers, rules are listed.
Sound(u) == u.energy \subseteq Int
ASSUME CastsAreSound ==
    /\ "default" \notin People
    /\ \A c \in Casts :
          /\ \A a \in People :
                /\ "energy" \in DOMAIN c.born[a] => c.born[a].energy \in Int
                /\ "beliefs" \in DOMAIN c.born[a] =>
                      c.born[a].beliefs = [k \in DOMAIN c.born[a].beliefs |-> c.born[a].beliefs[k]]
          /\ \A answer \in c.answers : answer.update # <<>> => Sound(answer.update[1])
          /\ \A u \in c.updates : Sound(u)
          /\ c.rules \in Seq([id : {c.rules[i].id : i \in DOMAIN c.rules}, priority : Int,
                              scope : {"all", "person", "control"}])

VARIABLES
    cast, sun,  \* sun: the number of the tick
    own,      \* agent -> [mood, energy, goals]
    records,  \* beliefs by cell: an agent's own, or the one of DEFAULT_INTERNAL_STATE
    pc,       \* "ready", "gathering", "iterating", "perceiving", "asked" or "done"
    context,  \* agent -> the memories of the TickContext
    incoming, iteration,
    deeds,    \* actions of the tick
    inbox,    \* messages of the tick: [to, channel, n]
    stored,   \* agent -> entries of its memory: [tick, n, kind]
    told,     \* agent -> its last prompt of the tick
    chats,
    \* history:
    learnt,   \* agent -> what its own answers and chats have made it believe
    lastMood,
    waiting,  \* agent -> messages there when its tick began
    heard,    \* agent -> messages of the tick it has been told
    rests,    \* agent -> ticks it has rested in a row
    tiredAt,  \* agent -> energy at the first of them
    past      \* agent -> what it has done, as its memory should have it

selfVars == <<own, records>>
tickVars == <<pc, context, incoming, iteration, deeds>>
historyVars == <<learnt, lastMood, waiting, heard, rests, tiredAt, past>>
personsVars == <<cast, sun, selfVars, tickVars, inbox, stored, told, chats, historyVars>>

Shared == "default"
DefaultState == [mood |-> "neutral", energy |-> 100, goals |-> 0, beliefs |-> <<>>]

\* What is new stands over what is old.
Over(new, old) ==
    [k \in DOMAIN new \cup DOMAIN old |-> IF k \in DOMAIN new THEN new[k] ELSE old[k]]

\* { ...DEFAULT_INTERNAL_STATE, ...initialState }: a field that is not given is the default's
\* own object.
Born(a) == Over(cast.born[a], DefaultState)

\* Fault: an agent that says who it is has the default's records nevertheless.
AlwaysShared(a) == Shared
Cell(a) == IF "beliefs" \in DOMAIN cast.born[a] THEN a ELSE Shared

NoPrompt == [tick |-> 0, sections |-> {}, memories |-> {}, letters |-> {}, rules |-> <<>>,
             energy |-> 0, warning |-> "none", mood |-> {}]

PersonsInit ==
    /\ cast \in Casts /\ sun = 0
    /\ own = [a \in People |-> [mood |-> Born(a).mood, energy |-> Born(a).energy,
                                goals |-> Born(a).goals]]
    /\ records = [c \in {Shared} \cup {a \in People : Cell(a) = a} |->
                     IF c = Shared THEN DefaultState.beliefs ELSE Born(c).beliefs]
    /\ pc = [a \in People |-> "done"]
    /\ context = [a \in People |-> {}] /\ incoming = [a \in People |-> {}]
    /\ iteration = [a \in People |-> 0] /\ deeds = [a \in People |-> <<>>]
    /\ inbox = {} /\ stored = [a \in People |-> {}] /\ told = [a \in People |-> NoPrompt]
    /\ chats = 0
    /\ learnt = [a \in People |-> <<>>] /\ lastMood = [a \in People |-> Born(a).mood]
    /\ waiting = [a \in People |-> {}] /\ heard = [a \in People |-> {}]
    /\ rests = [a \in People |-> 0] /\ tiredAt = [a \in People |-> 0]
    /\ past = [a \in People |-> {}]

Entry(n, kind) == [tick |-> sun, n |-> n, kind |-> kind]
To(a, pcs) == pc' = [pc EXCEPT ![a] = pcs]
InboxOf(a) == {m \in inbox : m.to = a}

(***************************************************************************)
(* updateInternalState: scalars are replaced, records are merged in place.     *)
(***************************************************************************)
\* Fault: the new beliefs replace the old.
Replaced(new, old) == new
Assigned(new, old) == Over(new, old)

Given(options, otherwise) == IF options = {} THEN otherwise ELSE CHOOSE v \in options : TRUE

UpdateInternalState(a, u) ==
    /\ own' = [own EXCEPT ![a] = [mood |-> Given(u.mood, own[a].mood),
                                  energy |-> Given(u.energy, own[a].energy),
                                  goals |-> Given(u.goals, own[a].goals)]]
    /\ records' = [records EXCEPT ![Cell(a)] = Assigned(u.beliefs, records[Cell(a)])]
    /\ learnt' = [learnt EXCEPT ![a] = Over(u.beliefs, learnt[a])]
    /\ lastMood' = [lastMood EXCEPT ![a] = Given(u.mood, lastMood[a])]

Nothing == [mood |-> {}, energy |-> {}, goals |-> {}, beliefs |-> <<>>]

\* The energy that is left after an action the model tells nothing about.
EnergyCost(type) ==
    CASE type = "observe" -> 2
      [] type \in {"perceive", "finish"} -> 0
      [] OTHER -> 5
ApplyEnergyDecay(energy, type) == Max({0, energy - EnergyCost(type)})

(***************************************************************************)
(* The tick of an agent.                                                     *)
(***************************************************************************)
NewTick ==
    /\ sun < cast.until /\ \A a \in People : pc[a] = "done"
    /\ sun' = sun + 1 /\ inbox' = {}
    /\ pc' = [a \in People |-> IF a \in cast.present THEN "ready" ELSE "done"]
    /\ context' = [a \in People |-> {}] /\ incoming' = [a \in People |-> {}]
    /\ iteration' = [a \in People |-> 0] /\ deeds' = [a \in People |-> <<>>]
    /\ told' = [a \in People |-> NoPrompt]
    /\ heard' = [a \in People |-> {}] /\ waiting' = [a \in People |-> {}]
    /\ UNCHANGED <<cast, selfVars, stored, chats, learnt, lastMood, rests, tiredAt, past>>

\* A message reaches an agent: speech, an SMS or a line of a call.
Letter(a, channel) ==
    /\ a \in cast.present /\ Cardinality(inbox) < cast.letters
    /\ inbox' = inbox \cup {[to |-> a, channel |-> channel, n |-> Cardinality(inbox)]}
    /\ UNCHANGED <<cast, sun, selfVars, tickVars, stored, told, chats, historyVars>>

\* Needs are tracked in perception mode only.
FatigueActive(a) == cast.perceives /\ cast.fatigue[a] >= 50

\* Fault: who is tired rests, whoever has written.
IdleWhenTired(a) == own[a].goals = 0 /\ own[a].energy <= 30 /\ a \notin cast.needy
ShouldIdle(a) ==
    /\ InboxOf(a) = {} /\ own[a].goals = 0 /\ own[a].energy <= 30
    /\ a \notin cast.needy /\ ~FatigueActive(a)

\* An idle agent rests without asking the model: that is not remembered.
Begin(a) ==
    /\ pc[a] = "ready"
    /\ waiting' = [waiting EXCEPT ![a] = InboxOf(a)]
    /\ IF a \notin cast.always /\ ShouldIdle(a)
       THEN /\ own' = [own EXCEPT ![a] = [@ EXCEPT !.energy = Min({100, own[a].energy + 5})]]
            /\ rests' = [rests EXCEPT ![a] = @ + 1]
            /\ tiredAt' = [tiredAt EXCEPT ![a] = IF rests[a] = 0 THEN own[a].energy ELSE @]
            /\ To(a, "done")
       ELSE /\ rests' = [rests EXCEPT ![a] = 0] /\ To(a, "gathering")
            /\ UNCHANGED <<own, tiredAt>>
    /\ UNCHANGED <<cast, sun, records, context, incoming, iteration, deeds, inbox, stored,
                   told, chats, learnt, lastMood, heard, past>>

\* Outside its hours, over its budget or paused: shouldSkipTick.
Skip(a) ==
    /\ pc[a] = "ready" /\ To(a, "done")
    /\ UNCHANGED <<cast, sun, selfVars, context, incoming, iteration, deeds, inbox, stored,
                   told, chats, historyVars>>

MemoryLimit(a) == IF a \in cast.light THEN 2 ELSE 4   \* bounds, for 5 and 20

\* getRecent: the newest, those of one tick in any order.
Recents(a, M) ==
    /\ Cardinality(M) = Min({MemoryLimit(a), Cardinality(stored[a])})
    /\ \A e \in M, f \in stored[a] \ M : e.tick >= f.tick

GatherContext(a) ==
    /\ pc[a] = "gathering" /\ To(a, "iterating")
    /\ \E M \in SUBSET stored[a] : Recents(a, M) /\ context' = [context EXCEPT ![a] = M]
    /\ iteration' = [iteration EXCEPT ![a] = 0] /\ deeds' = [deeds EXCEPT ![a] = <<>>]
    /\ UNCHANGED <<cast, sun, selfVars, incoming, inbox, stored, told, chats, historyVars>>

(***************************************************************************)
(* An iteration: what the model is told.                                      *)
(***************************************************************************)
\* The rules are sorted when they are loaded, equals as they were.
SortsAfter(i, j) ==
    \/ cast.rules[i].priority > cast.rules[j].priority
    \/ cast.rules[i].priority = cast.rules[j].priority /\ i > j

\* Those of all and of the scope are put in a map, first those of all; of each id the last
\* stays, where the first was.  Then they are sorted again.
RulesFor(scope) ==
    LET scoped == {i \in DOMAIN cast.rules : cast.rules[i].scope \in {scope, "all"}}
        same(i) == {j \in scoped : cast.rules[j].id = cast.rules[i].id}
        kept == {i \in scoped : \A j \in same(i) \ {i} : SortsAfter(i, j)}
        comesFirst(i, j) ==
            IF (cast.rules[i].scope = "all") = (cast.rules[j].scope = "all")
            THEN SortsAfter(j, i) ELSE cast.rules[i].scope = "all"
        earlierId(j, i) == \E k \in same(j) : \A l \in same(i) : comesFirst(k, l)
        before(i) == {j \in kept : \/ cast.rules[j].priority < cast.rules[i].priority
                                   \/ cast.rules[j].priority = cast.rules[i].priority /\ earlierId(j, i)}
    IN  [n \in 1..Cardinality(kept) |->
            cast.rules[CHOOSE i \in kept : Cardinality(before(i)) = n - 1]]

PerceivedSections(a, seen) ==
    (IF seen THEN {"percepts"} ELSE {}) \cup (IF FatigueActive(a) THEN {"needs"} ELSE {})

Sections(a, seen) ==
    (IF a \in cast.profiles THEN {"profile", "personality", "dynamics", "conflict"} ELSE {})
    \cup (IF a \in cast.profiles \/ DOMAIN cast.born[a] # {} THEN {"state"} ELSE {})
    \cup (IF context[a] # {} THEN {"memories"} ELSE {})
    \cup PerceivedSections(a, seen) \cup {"rules"}

\* The energy the prompt speaks of, and its warning: fatigue before energy.
ShownEnergy(a) ==
    IF FatigueActive(a) /\ own[a].energy > 50
    THEN Max({20, 100 - (cast.fatigue[a] * 80) \div 100}) ELSE own[a].energy
Warning(a) ==
    CASE FatigueActive(a) -> IF cast.fatigue[a] >= 90 THEN "critical" ELSE "tired"
      [] ~FatigueActive(a) /\ own[a].energy < 20 -> "critical"
      [] ~FatigueActive(a) /\ own[a].energy \in 20..39 -> "low"
      [] OTHER -> "none"

\* Fault: a perceiving agent reads no messages at all.
NoLetters(letters) == IF cast.perceives THEN {} ELSE letters
\* In perception mode speech is perceived and not read.
Letters(letters) == {m \in letters : m.channel # "voice" \/ ~cast.perceives}

Tell(a, letters, seen) ==
    /\ told' = [told EXCEPT ![a] =
          [tick |-> sun, sections |-> Sections(a, seen), memories |-> context[a],
           letters |-> Letters(letters), rules |-> RulesFor("person"),
           energy |-> ShownEnergy(a), warning |-> Warning(a),
           mood |-> IF "state" \in Sections(a, seen) THEN {own[a].mood} ELSE {}]]
    /\ heard' = [heard EXCEPT ![a] = @ \cup Letters(letters)]
    /\ To(a, "asked")

\* The messages are read before the percepts are awaited.
Iterate(a) ==
    /\ pc[a] = "iterating" /\ iteration[a] < cast.iterations
    /\ IF cast.perceives
       THEN /\ incoming' = [incoming EXCEPT ![a] = InboxOf(a)] /\ To(a, "perceiving")
            /\ UNCHANGED <<told, heard>>
       ELSE Tell(a, InboxOf(a), FALSE) /\ UNCHANGED incoming
    /\ UNCHANGED <<cast, sun, selfVars, context, iteration, deeds, inbox, stored, chats,
                   learnt, lastMood, waiting, rests, tiredAt, past>>

Perceived(a) ==
    /\ pc[a] = "perceiving"
    /\ \E seen \in BOOLEAN : Tell(a, incoming[a], seen)
    /\ UNCHANGED <<cast, sun, selfVars, context, incoming, iteration, deeds, inbox, stored,
                   chats, learnt, lastMood, waiting, rests, tiredAt, past>>

ValidActionTypes == {"speak", "observe", "interact", "tool_call", "finish", "perceive"}

\* Text that is not JSON is speech and updates nothing; an unknown type is speech.
ParseAgentAction(answer) ==
    IF ~answer.json THEN [type |-> "speak", update |-> <<>>]
    ELSE [type |-> IF answer.type \in ValidActionTypes THEN answer.type ELSE "speak",
          update |-> answer.update]

\* The model's answer: what it updates, or else what the action costs.
Respond(a, answer) ==
    /\ pc[a] = "asked" /\ To(a, "iterating")
    /\ LET parsed == ParseAgentAction(answer)
       IN  /\ UpdateInternalState(a, IF parsed.update # <<>> THEN parsed.update[1]
                 ELSE [Nothing EXCEPT !.energy = {ApplyEnergyDecay(own[a].energy, parsed.type)}])
           /\ deeds' = [deeds EXCEPT ![a] = Append(@, parsed.type)]
    /\ iteration' = [iteration EXCEPT ![a] = @ + 1]
    /\ past' = [past EXCEPT ![a] = @ \cup {Entry(Len(deeds[a]) + 1, "action")}]
    /\ UNCHANGED <<cast, sun, context, incoming, inbox, stored, told, chats, waiting, heard,
                   rests, tiredAt>>

\* Fault: only a tick with all its iterations is remembered.
Complete(a) == IF iteration[a] = cast.iterations THEN deeds[a] ELSE <<>>
PersistedActions(a) == deeds[a]

\* After the last iteration, or before one that may not begin: persistActions.
EndIterations(a) ==
    /\ pc[a] = "iterating" /\ To(a, "done")
    /\ stored' = [stored EXCEPT ![a] =
          @ \cup {Entry(i, "action") : i \in DOMAIN PersistedActions(a)}]
    /\ UNCHANGED <<cast, sun, selfVars, context, incoming, iteration, deeds, inbox, told,
                   chats, historyVars>>

\* The model, or a hook, fails: what was done before is not remembered.
TickFails(a) ==
    /\ pc[a] = "asked" /\ To(a, "done")
    /\ deeds' = [deeds EXCEPT ![a] = <<>>]
    /\ past' = [past EXCEPT ![a] = @ \ {Entry(i, "action") : i \in DOMAIN deeds[a]}]
    /\ UNCHANGED <<cast, sun, selfVars, context, incoming, iteration, inbox, stored, told,
                   chats, learnt, lastMood, waiting, heard, rests, tiredAt>>

\* A chat with a user is answered at any time: it updates the agent and is remembered.
ChatUpdates(a, u) ==
    /\ a \in cast.present /\ chats < cast.chats /\ sun > 0 /\ chats' = chats + 1
    /\ UpdateInternalState(a, u)
    /\ stored' = [stored EXCEPT ![a] = @ \cup {Entry(chats, "chat")}]
    /\ past' = [past EXCEPT ![a] = @ \cup {Entry(chats, "chat")}]
    /\ rests' = [rests EXCEPT ![a] = 0]
    /\ UNCHANGED <<cast, sun, tickVars, inbox, told, waiting, heard, tiredAt>>

PersonsNext ==
    \/ NewTick
    \/ \E a \in People, channel \in {"voice", "sms", "call"} : Letter(a, channel)
    \/ \E a \in People :
          \/ Begin(a) \/ Skip(a) \/ GatherContext(a) \/ Iterate(a) \/ Perceived(a)
          \/ EndIterations(a) \/ TickFails(a)
          \/ \E answer \in cast.answers : Respond(a, answer)
          \/ \E u \in cast.updates : ChatUpdates(a, u)

PersonsSpec == PersonsInit /\ [][PersonsNext]_personsVars

(***************************************************************************)
(* Properties.                                                              *)
(***************************************************************************)
\* An agent's mood is the last it was given itself, and it believes what it was born with
\* and what its own answers and chats told it since - except that agents made without
\* beliefs share one record, in which any of them writes (BaseAgent.ts:127-130, 176-189).
SelvesAreApart ==
    LET sharing == {a \in People : "beliefs" \notin DOMAIN cast.born[a]}
        believed(a) == records[Cell(a)]
    IN  /\ \A a \in People : own[a].mood = lastMood[a]
        /\ \A a \in People \ sharing : believed(a) = Over(learnt[a], Born(a).beliefs)
        /\ \A a \in sharing :
              /\ DOMAIN believed(a) = UNION {DOMAIN learnt[b] : b \in sharing}
              /\ \A k \in DOMAIN believed(a) :
                    \E b \in sharing : k \in DOMAIN learnt[b] /\ learnt[b][k] = believed(a)[k]

\* A message that is there when an agent's tick begins is told to its model in that tick,
\* unless the tick fails or may not iterate; only speech is not read where it is perceived
\* (TickContextLoader.ts:106-140, PersonAgent.ts:164, 412-448).
MessagesAreTold ==
    \A a \in People :
        pc[a] = "done" /\ deeds[a] # <<>> /\ told[a].tick = sun =>
            {m \in waiting[a] : m.channel # "voice" \/ ~cast.perceives} \subseteq heard[a]
\* ... and one who is written to does not rest.
NobodyRestsOnALetter ==
    \A a \in People : pc[a] = "done" /\ rests[a] > 0 => waiting[a] = {}

\* Rest ends: each tick of it restores energy until the agent thinks again (PersonAgent.ts:122-136).
RestEnds == \A a \in People : rests[a] > 0 => 5 * (rests[a] - 1) <= 30 - tiredAt[a]

\* Every prompt tells what the agent has done in its earlier ticks, those that failed aside,
\* or, where there is no room for all, what is newer (TickContextLoader.ts:53-99).
PastIsTold ==
    \A a \in People : told[a].tick = sun /\ sun > 0 /\ pc[a] = "asked" =>
        \A e \in past[a] : e.tick < sun /\ e \notin told[a].memories =>
            /\ Cardinality(told[a].memories) = MemoryLimit(a)
            /\ \A m \in told[a].memories : m.tick >= e.tick

\* Every rule that applies to an agent is told, each id once, in the order of priority; of
\* those of one id the last in that order (RulesLoader.ts:23-33, BaseAgent.ts:328-343).
Apply(rules) ==
    LET applying == {r \in ToSet(cast.rules) : r.scope \in {"all", "person"}}
    IN  /\ ToSet(rules) \subseteq applying
        /\ \A i, j \in DOMAIN rules :
              i < j => rules[i].priority <= rules[j].priority /\ rules[i].id # rules[j].id
        /\ \A r \in applying :
              \E i \in DOMAIN rules : rules[i].id = r.id /\ r.priority <= rules[i].priority
RulesAreTold == \A a \in People : told[a].tick > 0 => Apply(told[a].rules)

PersonsAreThemselves ==
    SelvesAreApart /\ MessagesAreTold /\ NobodyRestsOnALetter /\ RestEnds /\ PastIsTold /\ RulesAreTold
=============================================================================
