------------------------------- MODULE Needs -------------------------------
(***************************************************************************)
(* The needs of the agents over the ticks: the NeedsTracker, the             *)
(* NeedsSatisfierPlugin that credits what an action satisfies, and the end   *)
(* of the tick in which the plugin registry hands the actions to the plugins *)
(* and the tracker advances.  Values are in thousandths,  *)
(* credits in hundredths.                                                 *)
(*                                                                         *)
(* Nothing else touches the tracker while a hook is awaited, so one step     *)
(* takes one action, or one agent, through all plugins.  What concerns one agent  *)
(* is in the order of the code; agents, who share none of it, come in any order.  *)
(***************************************************************************)
EXTENDS Integers, SequencesExt, FiniteSetsExt

CONSTANTS
    Folk,       \* the agents
    Settings,   \* worlds: [perception, template, auto, require: the InteractionConfig;
                \* own: agent -> the needs of its config; plugins: set of names;
                \* crews: who may be active in a tick; asleep: agent -> ticks outside its
                \* schedule; moves: what agents do; iterations, until: ticks]
    Unknown     \* no value

\* A need has a name, a value in [0, 1], a decay, and a regeneration that is not negative.
SoundNeed(n) ==
    /\ n = [id |-> n.id, value |-> n.value, decay |-> n.decay, regen |-> n.regen,
            activation |-> n.activation, critical |-> n.critical]
    /\ n.value \in 0..1000 /\ n.decay \in Int /\ n.regen \in Nat
SoundNeeds(list) == \A i \in DOMAIN list : SoundNeed(list[i])

ASSUME SettingsAreSound ==
    \A c \in Settings :
        /\ {c.perception, c.auto, c.require} \subseteq BOOLEAN
        /\ \A a \in Folk : SoundNeeds(c.own[a])
        /\ \A crew \in c.crews : crew \subseteq Folk
        /\ \A m \in c.moves : m.restored \in Nat

VARIABLES
    config, tick,
    stage,     \* "configured", "failed", "idle", "acting", "transforming" or "ticking"
    plugins,   \* names of the registered plugins
    needs,     \* agent -> sequence of needs, if it has any
    owed,      \* pendingRegen
    energy,
    active,    \* agents of this tick whose own tick has not ended
    done,      \* agent -> what it has done in its own tick
    actions,   \* actions of the tick that the plugins have not seen yet
    toFeel,      \* agents whose needs have not advanced yet
    \* history of the tick:
    crew,      \* its agents
    before,    \* needs when it began
    credits    \* what its actions deserve: set of [why, of: the action, agent, need, amount]

needsVars == <<config, tick, stage, plugins, needs, owed, energy, active, done, actions, toFeel,
               crew, before, credits>>

Satisfier == "needs-satisfier"
Clamp(v) == Max({0, Min({1000, v})})

NeedsInit ==
    /\ config \in Settings
    /\ tick = 0 /\ stage = "configured" /\ plugins = config.plugins
    /\ needs = <<>> /\ owed = [a \in Folk |-> <<>>]
    /\ energy = [a \in Folk |-> 100]
    /\ active = {} /\ done = [a \in Folk |-> <<>>] /\ actions = <<>> /\ toFeel = {}
    /\ crew = {} /\ before = <<>> /\ credits = {}

(***************************************************************************)
(* Bootstrap.                                                              *)
(***************************************************************************)
Need(id, value, decay) == [id |-> id, value |-> value, decay |-> decay, regen |-> 0,
                           activation |-> 500, critical |-> 900]

Template(name) ==
    CASE name = "humanBasic" -> <<Need("hunger", 200, 10), Need("thirst", 200, 12),
                                  Need("fatigue", 0, 8), Need("social", 300, 5)>>
      [] name = "animalBasic" -> <<Need("hunger", 300, 15), Need("thirst", 200, 13),
                                   Need("fear", 0, 5), Need("territory", 0, 4)>>
      [] OTHER -> <<>>

\* worldHasNeedsAgents
HasNeeds ==
    config.perception /\ (\/ config.template \notin {Unknown, "none"} /\ Folk # {}
                          \/ \E a \in Folk : config.own[a] # <<>>)

\* autoRegisterNeedsSatisfierIfNeeded
Registered ==
    plugins \cup (IF config.auto /\ HasNeeds THEN {Satisfier} ELSE {})

\* validateNeedsLoop
Validates(registry) == ~(HasNeeds /\ config.require /\ Satisfier \notin registry)

\* init or initFromTemplate, in perception mode only
Initial ==
    IF ~config.perception THEN <<>>
    ELSE [a \in {b \in Folk : config.own[b] # <<>> \/ config.template # Unknown} |->
             IF config.own[a] # <<>> THEN config.own[a] ELSE Template(config.template)]

Bootstrap ==
    /\ stage = "configured"
    /\ plugins' = Registered
    /\ IF Validates(plugins') THEN stage' = "idle" /\ needs' = Initial
                              ELSE stage' = "failed" /\ UNCHANGED needs
    /\ UNCHANGED <<config, tick, owed, energy, active, done, actions, toFeel, crew, before, credits>>

(***************************************************************************)
(* What an agent does.                                                     *)
(***************************************************************************)
Effort(type) ==
    CASE type = "observe" -> 2
      [] type \in {"perceive", "finish"} -> 0
      [] OTHER -> 5

\* The payload of an action is abstracted to the patterns its text matches and the fields
\* the structured rules look for.
Affordance ==
    [eat |-> [need |-> "hunger", amount |-> 35], drink |-> [need |-> "thirst", amount |-> 35],
     sit |-> [need |-> "fatigue", amount |-> 25], rest |-> [need |-> "fatigue", amount |-> 30],
     sleep |-> [need |-> "fatigue", amount |-> 40], pet |-> [need |-> "social", amount |-> 20],
     talk |-> [need |-> "social", amount |-> 15]]

\* the credit of a rule for the action at hand, of which this number is still to be seen
Credit(why, a, need, amount) ==
    {[why |-> why, of |-> Len(actions), agent |-> a, need |-> need, amount |-> amount]}

\* what the rules on the text of a payload give, in the energy its agent has by then
DefaultRules(m, a) ==
    UNION {
      IF m.type = "interact" /\ "eat" \in m.words THEN Credit("eat", a, "hunger", 30) ELSE {},
      IF m.type = "interact" /\ "drink" \in m.words THEN Credit("drink", a, "thirst", 30) ELSE {},
      IF m.type = "interact" /\ "rest" \in m.words
         THEN Credit("rest-explicit", a, "fatigue", 30) ELSE {},
      IF m.type \in {"finish", "observe"} /\ energy[a] < 30
         THEN Credit("rest-low-energy", a, "fatigue", 20) ELSE {},
      IF m.type = "speak" /\ m.participants >= 2 THEN Credit("social-talk", a, "social", 10) ELSE {}}

\* and those on its fields
StructuredRules(m, a) ==
    UNION {
      IF m.type = "interact" /\ m.verb \in DOMAIN Affordance
         THEN Credit("affordance-verb", a, Affordance[m.verb].need, Affordance[m.verb].amount)
         ELSE {},
      IF m.restored > 0
         THEN Credit("tool-energy-restored", a, "fatigue", Min({40, m.restored})) ELSE {},
      IF m.harvest THEN Credit("tool-harvest-food", a, "hunger", 25) ELSE {},
      IF m.company THEN Credit("tool-social-effect", a, "social", 15) ELSE {}}

Satisfies(m, a) == DefaultRules(m, a) \cup StructuredRules(m, a)

\* what an agent does that finds no stimulus
Resting == [type |-> "observe", words |-> {}, verb |-> "", participants |-> 0, restored |-> 0,
            harvest |-> FALSE, company |-> FALSE, tells |-> Unknown]

(* activePersonAgents: those that are running now.                            *)
Open ==
    /\ stage = "idle" /\ tick < config.until
    /\ tick' = tick + 1 /\ stage' = "acting"
    /\ crew' \in config.crews /\ active' = crew' /\ toFeel' = crew'
    /\ before' = needs /\ credits' = {}
    /\ UNCHANGED <<config, plugins, needs, owed, energy, done, actions>>

Acting(a) ==
    /\ stage = "acting" /\ a \in active
    /\ UNCHANGED <<config, tick, stage, plugins, needs, owed, toFeel, crew, before, credits>>

(* A person agent ticks: it acts in each iteration it is allowed, *)
Act(a) ==
    /\ Acting(a) /\ Len(done[a]) < config.iterations
    /\ \E m \in config.moves :
          /\ done' = [done EXCEPT ![a] = Append(done[a], m)]
          /\ energy' = [energy EXCEPT ![a] =
                           IF m.tells # Unknown THEN m.tells
                           ELSE Max({0, energy[a] - Effort(m.type)})]
    /\ UNCHANGED <<active, actions>>

(* or rests, *)
Rest(a) ==
    /\ Acting(a) /\ done[a] = <<>>
    /\ active' = active \ {a}
    /\ actions' = Append(actions, [agent |-> a, move |-> Resting])
    /\ energy' = [energy EXCEPT ![a] = Min({100, energy[a] + 5})]
    /\ UNCHANGED done

(* and returns what it did, *)
HandOver(a) ==
    /\ Acting(a)
    /\ active' = active \ {a}
    /\ actions' = actions \o [i \in DOMAIN done[a] |-> [agent |-> a, move |-> done[a][i]]]
    /\ done' = [done EXCEPT ![a] = <<>>]
    /\ UNCHANGED energy

(* or fails, and what it did is never seen.                                   *)
OwnTickFails(a) ==
    /\ Acting(a)
    /\ active' = active \ {a}
    /\ done' = [done EXCEPT ![a] = <<>>]
    /\ UNCHANGED <<energy, actions>>

Settle ==
    /\ stage = "acting" /\ active = {}
    /\ stage' = "transforming"
    /\ UNCHANGED <<config, tick, plugins, needs, owed, energy, active, done, actions, toFeel, crew,
                   before, credits>>

(***************************************************************************)
(* The end of the tick.                                                    *)
(***************************************************************************)
Owed(a, need) == IF need \in DOMAIN owed[a] THEN owed[a][need] ELSE 0

\* the amounts of some credits, added up
Worth(dues) == Cardinality(UNION {{d} \X (1..d.amount) : d \in dues})

For(a, need, dues) == {d \in dues : d.agent = a /\ d.need = need}

\* satisfy, once per rule
Schedule(a, dues) ==
    [owed EXCEPT ![a] =
        [need \in DOMAIN owed[a] \cup {d.need : d \in dues} |->
            Owed(a, need) + Worth(For(a, need, dues))]]

(* runHookWithTransform("onAgentAction"): the satisfier credits the action.  *)
Transform ==
    /\ stage = "transforming" /\ actions # <<>>
    /\ LET action == Head(actions)
           dues == Satisfies(action.move, action.agent)
           heeded == Satisfier \in plugins /\ action.agent \in DOMAIN needs
       IN  /\ owed' = IF heeded THEN Schedule(action.agent, dues) ELSE owed
           /\ credits' = IF heeded THEN credits \cup dues ELSE credits
    /\ actions' = Tail(actions)
    /\ UNCHANGED <<config, tick, stage, plugins, needs, energy, active, done, toFeel, crew, before>>

BeginNeeds ==
    /\ stage = "transforming" /\ actions = <<>>
    /\ stage' = IF config.perception THEN "ticking" ELSE "idle"
    /\ UNCHANGED <<config, tick, plugins, needs, owed, energy, active, done, actions, toFeel, crew,
                   before, credits>>

\* find: the first of a name
First(i, list) == \A j \in 1..(i - 1) : list[j].id # list[i].id

\* tick(): what is owed first, then decay and regeneration
Advance(i, a) ==
    LET n == needs[a][i]
        paid == IF First(i, needs[a]) THEN Clamp(n.value - 10 * Owed(a, n.id)) ELSE n.value
    IN  [n EXCEPT !.value = Clamp(paid + n.decay - n.regen)]

\* onNeedsTick: outside its schedule the agent regains strength
Recover(n) ==
    IF n.id # "fatigue" THEN n
    ELSE LET regen == n.regen + 20
         IN  [n EXCEPT !.regen = regen, !.value = Clamp(n.value + n.decay - regen)]

Asleep(a) == Satisfier \in plugins /\ tick \in config.asleep[a]

\* *Fault*: what was owed stays owed
StillOwed(a) == owed
\* regen.clear()
Paid(a) == [owed EXCEPT ![a] = <<>>]

NeedsTick(a) ==
    /\ stage = "ticking" /\ a \in toFeel
    /\ IF a \notin DOMAIN needs THEN UNCHANGED <<needs, owed>>
       ELSE /\ needs' = [needs EXCEPT ![a] = [i \in DOMAIN needs[a] |->
                            IF Asleep(a) THEN Recover(Advance(i, a)) ELSE Advance(i, a)]]
            /\ owed' = Paid(a)
    /\ toFeel' = toFeel \ {a}
    /\ UNCHANGED <<config, tick, stage, plugins, energy, active, done, actions, crew, before,
                   credits>>

\* runActionHooks is asked to skip the plugins that take actions one by one
Close ==
    /\ stage = "ticking" /\ toFeel = {}
    /\ stage' = "idle"
    /\ UNCHANGED <<config, tick, plugins, needs, owed, energy, active, done, actions, toFeel, crew,
                   before, credits>>

NeedsNext ==
    \/ Bootstrap \/ Open \/ Settle \/ Transform \/ BeginNeeds \/ Close
    \/ \E a \in Folk : Act(a) \/ Rest(a) \/ HandOver(a) \/ OwnTickFails(a) \/ NeedsTick(a)

NeedsSpec == NeedsInit /\ [][NeedsNext]_needsVars

(***************************************************************************)
(* Properties.                                                             *)
(***************************************************************************)
\* What the actions of the tick deserve of a need.
Total(a, need) == Worth(For(a, need, credits))

\* A need after a tick of who was awake: what it was, less what the actions of the tick
\* deserve, each counted once and in this tick, plus the decay, also when it had hit a
\* bound.  Of two needs of one name the first has it all.
After(then, first, total) ==
    Clamp((IF first THEN Max({0, then.value - 10 * total}) ELSE then.value)
          + then.decay - then.regen)

Felt(a) ==
    \A i \in DOMAIN needs[a] :
        needs[a][i].value =
            After(before[a][i], First(i, before[a]), Total(a, before[a][i].id))

\* Sleep never makes the agents of a template more tired, for all that the decay is
\* charged twice while they sleep.
Rested(a) ==
    \A i \in DOMAIN needs[a] : needs[a][i].id = "fatigue" /\ needs[a][i].decay < 10 =>
        needs[a][i].value <= before[a][i].value

\* Between two ticks nothing stays owed, nothing is paid twice, and who was not of the tick
\* feels as before.
FeltOnce ==
    stage = "idle" /\ tick > 0 /\ config.perception =>
      \A a \in DOMAIN needs :
         /\ owed[a] = <<>>
         /\ a \notin crew => needs[a] = before[a]
         /\ a \in crew /\ tick \notin config.asleep[a] => Felt(a)

SleepRests ==
    stage = "idle" /\ tick > 0 /\ Satisfier \in plugins =>
      \A a \in DOMAIN needs : tick \in config.asleep[a] => Rested(a)

\* A world that requires the loop and runs has someone who closes it, and one that may
\* have it does start.
LoopIsClosed ==
    /\ stage \notin {"configured", "failed"} /\ config.require /\ HasNeeds => Satisfier \in plugins
    /\ stage = "failed" => ~config.auto

\* Between two ticks the need of an agent that was awake is what it was, less what the
\* actions of the tick deserve, each counted once, plus the decay; sleep makes nobody more
\* tired; a world that requires the loop has a satisfier, or does not start
\* (NeedsTracker.ts:71-104, NeedsSatisfierPlugin.ts:208-247, needsLoop.ts:50-71).
NeedsAreMet == FeltOnce /\ SleepRests /\ LoopIsClosed
=============================================================================
