------------------------------- MODULE Entities -------------------------------
(***************************************************************************)
(* Things that are no agents: their registry (src/entities/InMemoryEntityRegistry.ts), *)
(* the walk over it that publishes what they emit at the start of a tick             *)
(* (TickOrchestrator.emitEntityStimuli), the perceivers among them, and what an agent  *)
(* is told it may do with those it perceives (src/entities/AffordanceResolver.ts).     *)
(*                                                                         *)
(* The walk awaits the plugins' hooks at every stimulus, and meanwhile the host or a   *)
(* hook adds and removes entities under it.                                 *)
(***************************************************************************)
EXTENDS Integers, Sequences, FiniteSetsExt

CONSTANTS
    Grounds      \* [at: entities from the start, by id; adds: entities that may be added;
                 \* silenced: ids whose stimuli a plugin cancels; until: ticks; changes: bound]

\* An entity: [id, kind, rank: place among those of the start, senses: it perceives, verbs: its
\* affordances, emitters: sequence of [every, enabled]]

VARIABLES
    ground,
    registry,    \* id -> [entity, stamp]; the Map is in the order of the stamps
    byKind,      \* kind -> ids
    perceivers,  \* ids of entities registered with the perception engine
    stamp, changes,
    tick,
    walk,        \* [stamp, entity, k]: the emitter whose hooks are awaited, or Over
    bus,         \* stimuli of this tick and the one before: [from, tick]
    told,        \* what an agent was told it may do: <<id, verb>>
    seen,        \* the sources among its percepts
    \* history:
    before,      \* stamps that were there when the walk began
    fired,       \* <<stamp, k>> in the order of the walk
    gone         \* stamps that were removed before the walk had come to them

registryVars == <<registry, byKind, perceivers, stamp, changes>>
tickVars == <<tick, walk, bus, told, seen, before, fired>>
entityVars == <<ground, registryVars, tickVars, gone>>

\* What is there from the start has its place in the Map, one each.
SoundGround(g) ==
    /\ IsFiniteSet(DOMAIN g.at)
    /\ \A i \in DOMAIN g.at : g.at[i].rank \in 1..Cardinality(DOMAIN g.at)
    /\ \A i, j \in DOMAIN g.at : g.at[i].rank = g.at[j].rank => i = j
    /\ \A e \in g.adds \cup {g.at[i] : i \in DOMAIN g.at} : DOMAIN e.emitters \subseteq Nat

ASSUME GroundsAreSound == \A g \in Grounds : SoundGround(g)

Nothing == [id |-> "nothing", kind |-> "none", rank |-> 0, senses |-> FALSE, verbs |-> {},
            emitters |-> <<>>]
Over == [stamp |-> 0, entity |-> Nothing, k |-> 0]

KindsOf(entries) ==
    [kind \in {entries[id].entity.kind : id \in DOMAIN entries} |->
        {id \in DOMAIN entries : entries[id].entity.kind = kind}]

EntitiesInit ==
    /\ ground \in Grounds
    /\ registry = [id \in DOMAIN ground.at |-> [entity |-> ground.at[id], stamp |-> ground.at[id].rank]]
    /\ byKind = KindsOf(registry)
    /\ perceivers = {id \in DOMAIN ground.at : ground.at[id].senses}
    /\ stamp = Cardinality(DOMAIN ground.at) /\ changes = 0
    /\ tick = 0 /\ walk = Over /\ bus = <<>> /\ told = {} /\ seen = {}
    /\ before = {} /\ fired = <<>> /\ gone = {}

(***************************************************************************)
(* The registry.                                                            *)
(***************************************************************************)
\* remove takes the id out of its kind, and the kind out when it was the last.
Unlisted(kinds, id) ==
    LET kind == registry[id].entity.kind
        left == kinds[kind] \ {id}
    IN  [k \in {j \in DOMAIN kinds : j # kind \/ left # {}} |->
            IF k = kind THEN left ELSE kinds[k]]
Listed(kinds, e) ==
    [k \in DOMAIN kinds \cup {e.kind} |->
        (IF k \in DOMAIN kinds THEN kinds[k] ELSE {}) \cup (IF k = e.kind THEN {e.id} ELSE {})]

Walking == walk # Over
\* who is removed before the walk has come to it
Missed(id) == IF Walking /\ registry[id].stamp > walk.stamp THEN {registry[id].stamp} ELSE {}

\* addEntity: what has the same id is removed first, so that it comes last in the Map; a
\* perceiver that comes back without senses is not unregistered.
Add(e) ==
    /\ changes < ground.changes /\ changes' = changes + 1 /\ stamp' = stamp + 1
    /\ registry' = [id \in DOMAIN registry \cup {e.id} |->
                       IF id = e.id THEN [entity |-> e, stamp |-> stamp'] ELSE registry[id]]
    /\ byKind' = Listed(IF e.id \in DOMAIN registry THEN Unlisted(byKind, e.id) ELSE byKind, e)
    /\ perceivers' = IF e.senses THEN perceivers \cup {e.id} ELSE perceivers
    /\ gone' = IF e.id \in DOMAIN registry THEN gone \cup Missed(e.id) ELSE gone
    /\ UNCHANGED <<ground, tickVars>>

RemoveEntity(id) ==
    /\ changes < ground.changes /\ changes' = changes + 1 /\ id \in DOMAIN registry
    /\ registry' = [j \in DOMAIN registry \ {id} |-> registry[j]]
    /\ byKind' = Unlisted(byKind, id)
    /\ perceivers' = perceivers \ {id}
    /\ gone' = gone \cup Missed(id)
    /\ UNCHANGED <<ground, stamp, tickVars>>

(***************************************************************************)
(* The walk, at the time t: the emitters left of the entity at hand, then the      *)
(* next one in the Map that has something to emit.                           *)
(***************************************************************************)
Due(entity, t) ==
    {k \in DOMAIN entity.emitters : entity.emitters[k].enabled /\ entity.emitters[k].every > 0
                                     /\ t % entity.emitters[k].every = 0}

DueAt(t) == {entry \in {registry[id] : id \in DOMAIN registry} : Due(entry.entity, t) # {}}
SameEntity(w, t) == {k \in Due(w.entity, t) : k > w.k}
FirstOf(entries, t) ==
    IF entries = {} THEN Over
    ELSE LET e == CHOOSE e \in entries : \A f \in entries : e.stamp <= f.stamp
         IN  [stamp |-> e.stamp, entity |-> e.entity, k |-> Min(Due(e.entity, t))]

\* Fault: counted through an array, which closes up when an entity is removed.
FollowingByIndex(w, t) ==
    LET met == {fired[j][1] : j \in DOMAIN fired} \cup {w.stamp}
    IN  IF SameEntity(w, t) # {} THEN [w EXCEPT !.k = Min(SameEntity(w, t))]
        ELSE FirstOf({e \in DueAt(t) : Cardinality({f \in DueAt(t) : f.stamp < e.stamp})
                                         >= Cardinality(met \ {0})}, t)
Following(w, t) ==
    IF SameEntity(w, t) # {} THEN [w EXCEPT !.k = Min(SameEntity(w, t))]
    ELSE FirstOf({e \in DueAt(t) : e.stamp > w.stamp}, t)

NewTick ==
    /\ ~Walking /\ tick < ground.until /\ tick' = tick + 1
    /\ walk' = Following(Over, tick')
    /\ bus' = SelectSeq(bus, LAMBDA s : s.tick = tick)
    /\ before' = {registry[id].stamp : id \in DOMAIN registry} /\ fired' = <<>> /\ gone' = {}
    /\ told' = {} /\ seen' = {}
    /\ UNCHANGED <<ground, registryVars>>

\* After the hooks: the stimulus, unless a plugin has cancelled it, and the next.
Emit ==
    /\ Walking /\ walk' = Following(walk, tick)
    /\ bus' = IF walk.entity.id \in ground.silenced THEN bus
              ELSE Append(bus, [from |-> walk.entity.id, tick |-> tick])
    /\ fired' = Append(fired, <<walk.stamp, walk.k>>)
    /\ UNCHANGED <<ground, registryVars, tick, told, seen, before, gone>>

(***************************************************************************)
(* An agent perceives some of the stimuli; when its prompt is built, after the      *)
(* hooks, it is told the affordances of those entities that are still there.       *)
(***************************************************************************)
Perceive ==
    /\ ~Walking /\ tick > 0 /\ told = {}
    /\ seen' \in SUBSET {bus[i].from : i \in DOMAIN bus}
    /\ UNCHANGED <<ground, registryVars, tick, walk, bus, told, before, fired, gone>>

FromPercepts(sources) ==
    LET there == {id \in sources : id \in DOMAIN registry}
    IN  UNION {{<<id, verb>> : verb \in registry[id].entity.verbs} : id \in there}

Tell ==
    /\ ~Walking /\ told = {} /\ told' = FromPercepts(seen)
    /\ UNCHANGED <<ground, registryVars, tick, walk, bus, seen, before, fired, gone>>

EntitiesNext ==
    \/ NewTick \/ Emit \/ Perceive \/ Tell
    \/ \E e \in ground.adds : Add(e)
    \/ \E id \in DOMAIN registry : RemoveEntity(id)
EntitiesSpec == EntitiesInit /\ [][EntitiesNext]_entityVars

(***************************************************************************)
(* Properties.                                                              *)
(***************************************************************************)
\* Whatever is added and removed while the walk awaits the hooks: each emitter of an entity
\* that stays is heard once, one that is removed before its turn is silent, and nothing is
\* heard twice, unless it was added again (TickOrchestrator.ts:260-287).
WalkIsExact ==
    /\ \A i, j \in DOMAIN fired : fired[i] = fired[j] => i = j
    /\ \A i \in DOMAIN fired : fired[i][1] \notin gone
    /\ ~Walking /\ tick > 0 => \A id \in DOMAIN registry : registry[id].stamp \in before =>
          \A k \in Due(registry[id].entity, tick) : \E i \in DOMAIN fired :
              fired[i] = <<registry[id].stamp, k>>

\* The index by kind holds what the registry holds, whoever comes back as another kind
\* (InMemoryEntityRegistry.ts:13-35); who perceives is registered, and who is registered
\* with senses perceives (WorldEngine.ts:441-453).
IndexesAgree ==
    /\ byKind = KindsOf(registry)
    /\ perceivers \subseteq DOMAIN registry
    /\ \A id \in DOMAIN registry : registry[id].entity.senses => id \in perceivers

EntitiesAreHeard == WalkIsExact /\ IndexesAgree
=============================================================================
