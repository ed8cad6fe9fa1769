--------------------------- MODULE Relationships ---------------------------
(***************************************************************************)
(* The social graph: the GraphStore, the tools of the RelationshipPlugin,    *)
(* what PersonAgent learns from who spoke to it, and the NeighborhoodManager *)
(* that decays and prunes the ties at the end of a tick and caches the       *)
(* neighbours the router asks for.                                          *)
(*                                                                         *)
(* Every call of the store is awaited: a tool reads the ties it needs one    *)
(* by one and then writes what it has computed from them one by one, and the *)
(* agents of a tick interleave in between.  Strengths are in units of 1/400, *)
(* so that a quarter of the decay rate of 0.01 is one unit.                 *)
(***************************************************************************)
EXTENDS Integers, SequencesExt, FiniteSetsExt

CONSTANTS
    Agents,
    Scenes,   \* worlds: [store: "memory" or "neo4j"; ties: those that exist already;
              \* seeds: pairs of initialRelationships; calls: agent -> tool calls it may
              \* make, [tool, from, to]; asks: agents whose neighbours the router
              \* asks for; says: pairs <<speaker, hearer>>; contacts:
              \* agent -> maxContacts; from, until: first and last tick]
    Absent

VARIABLES
    scene, day,
    phase,     \* "acting" or "decaying"
    ties,      \* the relationships, in the order of their insertion
    task,      \* agent -> the tool call it is in
    free,      \* agents that may still begin a call in this tick
    met,       \* pairs whose talk has still to be learned from, as <<hearer, speaker, type>>
    plan,      \* agent -> what decayAndPruneBatch has decided for it
    cache,     \* neighborCache
    \* history:
    declared,  \* pairs <<from, to>> somebody has declared
    dawn       \* ties when the decay began

vars == <<scene, day, phase, ties, task, free, met, plan, cache, declared, dawn>>

Rate == 4          \* decayRate
Least == 20        \* minStrength
Full == 400        \* strength 1

(***************************************************************************)
(* The GraphStore.                                                         *)
(***************************************************************************)
Is(tie, key) == <<tie.from, tie.to, tie.type>> = key
KeyOf(tie) == <<tie.from, tie.to, tie.type>>

\* getRelationship
Get(key) ==
    IF \E i \in DOMAIN ties : Is(ties[i], key)
    THEN ties[CHOOSE i \in DOMAIN ties : Is(ties[i], key) /\ \A j \in 1..(i - 1) : ~Is(ties[j], key)]
    ELSE Absent

\* getRelationships: the ties at either end of an agent
Of(a, graph) == SelectSeq(graph, LAMBDA t : a \in {t.from, t.to})

\* Neo4j CREATEs another tie where the map replaces the value in its place
Add(tie, graph) ==
    IF scene.store = "memory" /\ \E i \in DOMAIN graph : Is(graph[i], KeyOf(tie))
    THEN [i \in DOMAIN graph |-> IF Is(graph[i], KeyOf(tie)) THEN tie ELSE graph[i]]
    ELSE Append(graph, tie)

\* updateRelationship merges into what is there, and does nothing if it is gone
Update(key, changes, graph) ==
    [i \in DOMAIN graph |->
        IF Is(graph[i], key)
        THEN [f \in DOMAIN graph[i] |-> IF f \in DOMAIN changes THEN changes[f] ELSE graph[i][f]]
        ELSE graph[i]]

\* removeRelationship, removeRelationshipBatch
Without(keys, graph) == SelectSeq(graph, LAMBDA t : KeyOf(t) \notin keys)

Tie(from, to, type, strength, meta) ==
    [from |-> from, to |-> to, type |-> type, strength |-> strength, last |-> day,
     status |-> meta.status, by |-> meta.by, witnesses |-> meta.witnesses]
Automatic == [status |-> "none", by |-> {}, witnesses |-> {}]

\* seedRelationships: one direction only
Seeded(pairs) ==
    [i \in DOMAIN pairs |->
        [from |-> pairs[i][1], to |-> pairs[i][2], type |-> "friend", strength |-> 320,
         last |-> 0, status |-> "validated", by |-> ToSet(pairs[i]), witnesses |-> {}]]

Idle == [tool |-> "none", keys |-> <<>>, seen |-> <<>>, todo |-> <<>>]

Init ==
    /\ scene \in Scenes
    /\ day = scene.from /\ phase = "acting"
    /\ ties = scene.ties \o Seeded(scene.seeds)
    /\ task = [a \in Agents |-> Idle] /\ free = Agents
    /\ met = {<<p[2], p[1], type>> : p \in scene.says, type \in {"knows", "trusts"}}
    /\ plan = <<>> /\ cache = <<>>
    /\ declared = {} /\ dawn = <<>>

(***************************************************************************)
(* The tools.                                                              *)
(***************************************************************************)
\* the reads of a tool, in their order
Reads(call) ==
    LET there == <<call.from, call.to, "friend">>
        back == <<call.to, call.from, "friend">>
    IN  IF call.tool = "break" THEN <<there>> ELSE <<there, back>>

Call(a) ==
    /\ phase = "acting" /\ a \in free /\ task[a] = Idle
    /\ \E call \in scene.calls[a] :
          /\ call.from # call.to
          /\ task' = [task EXCEPT ![a] = [Idle EXCEPT !.tool = call.tool, !.keys = Reads(call)]]
          /\ declared' = IF call.tool = "declare" THEN declared \cup {<<call.from, call.to>>}
                                                  ELSE declared
    /\ free' = free \ {a}
    /\ UNCHANGED <<scene, day, phase, ties, met, plan, cache, dawn>>

Put(key, strength, meta, existing) ==
    [key |-> key, new |-> existing = Absent,
     changes |-> [last |-> day, strength |-> strength, status |-> meta.status, by |-> meta.by,
                  witnesses |-> meta.witnesses]]

\* *Fault*: the agent's own declaration is taken for the other's
DeclareWritesOwn(keys, there, back) ==
    <<Put(keys[1], 240,
          [status |-> IF there = Absent THEN "proposed" ELSE "mutual", by |-> {keys[1][1]},
           witnesses |-> {}], there)>>

\* declare_relationship, from what it has read in both directions
DeclareWrites(keys, there, back) ==
    LET from == keys[1][1]
        proposed == [status |-> "proposed", by |-> {from}, witnesses |-> {}]
    IN  IF there # Absent /\ there.status \in {"validated", "mutual"} THEN <<>>
        ELSE IF back # Absent /\ back.status = "proposed"
        THEN LET mutual == [status |-> "mutual", by |-> back.by \cup {from},
                            witnesses |-> back.witnesses]
             IN  <<Put(keys[2], 240, mutual, back), Put(keys[1], 240, mutual, there)>>
        ELSE <<Put(keys[1], 120, proposed, there)>>

\* witness_relationship: the tie as it was read, with one more witness
WitnessWrites(a, keys, there, back) ==
    LET both == there # Absent /\ back # Absent /\ there.status = "mutual" /\ back.status = "mutual"
        Witnessed(key, tie) ==
            IF tie = Absent \/ tie.status = "none" THEN <<>>
            ELSE <<Put(key, IF both THEN Max({tie.strength, 320}) ELSE tie.strength,
                       [status |-> IF both THEN "validated" ELSE tie.status, by |-> tie.by,
                        witnesses |-> tie.witnesses \cup {a}], tie)>>
        Unless(w) == IF both THEN w
                     ELSE [w EXCEPT !.changes = [last |-> w.changes.last, status |-> w.changes.status,
                                by |-> w.changes.by, witnesses |-> w.changes.witnesses]]
        writes == Witnessed(keys[1], there) \o Witnessed(keys[2], back)
    IN  [i \in DOMAIN writes |-> Unless(writes[i])]

\* break_relationship: in its own direction only
BreakWrites(keys, there) ==
    IF there = Absent THEN <<>>
    ELSE <<Put(keys[1], 40, [status |-> "broken", by |-> there.by, witnesses |-> there.witnesses],
               there)>>

WritesOf(a, t) ==
    CASE t.tool = "declare" -> DeclareWrites(t.keys, t.seen[1], t.seen[2])
      [] t.tool = "witness" -> WitnessWrites(a, t.keys, t.seen[1], t.seen[2])
      [] t.tool = "break" -> BreakWrites(t.keys, t.seen[1])

(* The next read of a tool; after the last one it knows what to write.       *)
Read(a) ==
    /\ task[a].tool # "none" /\ Len(task[a].seen) < Len(task[a].keys)
    /\ LET seen == Append(task[a].seen, Get(task[a].keys[Len(task[a].seen) + 1]))
           read == [task[a] EXCEPT !.seen = seen]
           writes == WritesOf(a, read)
       IN  task' = [task EXCEPT ![a] =
              IF Len(seen) < Len(task[a].keys) THEN read
              ELSE IF writes = <<>> THEN Idle
              ELSE [read EXCEPT !.todo = writes]]
    /\ UNCHANGED <<scene, day, phase, ties, free, met, plan, cache, declared, dawn>>

Write(a) ==
    /\ task[a].todo # <<>>
    /\ LET w == Head(task[a].todo)
       IN  ties' = IF w.new THEN Add(Tie(w.key[1], w.key[2], w.key[3], w.changes.strength, w.changes),
                                     ties)
                   ELSE Update(w.key, w.changes, ties)
    /\ task' = [task EXCEPT ![a] = IF Len(@.todo) = 1 THEN Idle ELSE [@ EXCEPT !.todo = Tail(@)]]
    /\ UNCHANGED <<scene, day, phase, free, met, plan, cache, declared, dawn>>

(***************************************************************************)
(* What an agent learns from who spoke to it.                              *)
(***************************************************************************)
Gain(type) == IF type = "knows" THEN 40 ELSE 20
First(type) == IF type = "knows" \/ scene.store = "neo4j" THEN Gain(type) ELSE 120

\* updateRelationships: nobody else writes these ties while the agents act, so that
\* reading and writing one of them is one step; the batch of Neo4j is as good as that
Learn(a) ==
    /\ phase = "acting" /\ task[a] = Idle
    /\ \E m \in met :
          /\ m[1] = a
          /\ LET tie == Get(m)
             IN  ties' = IF tie = Absent THEN Add(Tie(m[1], m[2], m[3], First(m[3]), Automatic), ties)
                         ELSE Update(m, [last |-> day,
                                         strength |-> Min({Full, tie.strength + Gain(m[3])})], ties)
          /\ met' = met \ {m}
    /\ UNCHANGED <<scene, day, phase, task, free, plan, cache, declared, dawn>>

\* the strongest first, the earlier of two equals first
Strongest(graph) == SortSeq(graph, LAMBDA s, t : s.strength > t.strength)
Upto(n, s) == SubSeq(s, 1, Min({n, Len(s)}))

\* getActiveNeighbors: the store cuts the list before it is sorted
Neighbours(a) ==
    /\ phase = "acting" /\ a \in scene.asks \ DOMAIN cache
    /\ LET near == Upto(scene.contacts[a],
                        SelectSeq(Of(a, ties), LAMBDA t : t.strength >= Least))
           sorted == Strongest(near)
       IN  cache' = [b \in DOMAIN cache \cup {a} |->
                        IF b # a THEN cache[b]
                        ELSE [i \in DOMAIN sorted |->
                                 IF sorted[i].from = a THEN sorted[i].to ELSE sorted[i].from]]
    /\ UNCHANGED <<scene, day, phase, ties, task, free, met, plan, declared, dawn>>

(***************************************************************************)
(* Decay and pruning.                                                      *)
(***************************************************************************)
Loss(tie) ==
    LET multiplier == CASE tie.status = "validated" -> 1
                        [] tie.status = "mutual" -> 2
                        [] tie.status = "broken" -> 8
                        [] OTHER -> 4
    IN  IF day - tie.last <= 0 THEN 0 ELSE (Rate \div 4) * (day - tie.last) * multiplier

Decayed(tie) == [tie EXCEPT !.strength = Max({0, tie.strength - Loss(tie)})]

\* what decayAndPruneBatch decides for one agent from the ties it has read
PlanFor(a) ==
    LET mine == Of(a, ties)
        faded == {i \in DOMAIN mine : Loss(mine[i]) > 0 /\ Decayed(mine[i]).strength < Least}
        kept == [i \in DOMAIN mine |-> Decayed(mine[i])]
        survivors == SelectSeq(kept, LAMBDA t : \A i \in faded : kept[i] # t)
        excess == SubSeq(Strongest(survivors), scene.contacts[a] + 1, Len(survivors))
    IN  [updates |-> {t \in ToSet(survivors) : t \notin ToSet(mine)},
         removals |-> {KeyOf(mine[i]) : i \in faded} \cup {KeyOf(t) : t \in ToSet(excess)},
         updated |-> FALSE]

\* *Fault*: each agent reads when its turn comes
FirstPlansInTurn == <<>>
\* with the in-memory store every agent has read before the first one writes
FirstPlans == IF scene.store = "memory" THEN [a \in Agents |-> PlanFor(a)] ELSE <<>>

\* all agents of the tick have settled
BeginDecay ==
    /\ phase = "acting" /\ met = {} /\ \A a \in Agents : task[a] = Idle
    /\ phase' = "decaying" /\ dawn' = ties
    /\ plan' = FirstPlans
    /\ UNCHANGED <<scene, day, ties, task, free, met, cache, declared>>

ReadPlan(a) ==
    /\ phase = "decaying" /\ a \notin DOMAIN plan
    /\ plan' = [b \in DOMAIN plan \cup {a} |-> IF b = a THEN PlanFor(a) ELSE plan[b]]
    /\ UNCHANGED <<scene, day, phase, ties, task, free, met, cache, declared, dawn>>

\* the updates of an agent, then its removals
ApplyUpdates(a) ==
    /\ a \in DOMAIN plan /\ ~plan[a].updated
    /\ ties' = FoldSet(LAMBDA t, graph : Update(KeyOf(t), [strength |-> t.strength], graph),
                       ties, plan[a].updates)
    /\ plan' = [plan EXCEPT ![a].updated = TRUE]
    /\ UNCHANGED <<scene, day, phase, task, free, met, cache, declared, dawn>>

ApplyRemovals(a) ==
    /\ a \in DOMAIN plan /\ plan[a].updated /\ plan[a].removals # {}
    /\ ties' = Without(plan[a].removals, ties)
    /\ plan' = [plan EXCEPT ![a].removals = {}]
    /\ UNCHANGED <<scene, day, phase, task, free, met, cache, declared, dawn>>

DecayDone == phase = "decaying" /\ DOMAIN plan = Agents
                /\ \A a \in Agents : plan[a].updated /\ plan[a].removals = {}

\* *Fault*: the cache outlives its tick
OldCache == cache
\* resetTickCache
ResetCache == <<>>

NextTick ==
    /\ DecayDone /\ day < scene.until
    /\ day' = day + 1 /\ phase' = "acting"
    /\ free' = Agents /\ plan' = <<>> /\ cache' = ResetCache
    /\ met' = {<<p[2], p[1], type>> : p \in scene.says, type \in {"knows", "trusts"}}
    /\ UNCHANGED <<scene, ties, task, declared, dawn>>

Next ==
    \/ BeginDecay \/ NextTick
    \/ \E a \in Agents :
          \/ Call(a) \/ Read(a) \/ Write(a) \/ Learn(a) \/ Neighbours(a)
          \/ ReadPlan(a) \/ ApplyUpdates(a) \/ ApplyRemovals(a)

Spec == Init /\ [][Next]_vars

(***************************************************************************)
(* Properties.                                                             *)
(***************************************************************************)
\* A tie is only called mutual, or validated by the community, if each end has
\* declared it at some time or the scenario began with it, in whatever order the
\* declarations, testimonies and breaks of a tick have interleaved.
MutualNeedsBoth ==
    \A i \in DOMAIN ties :
       LET t == ties[i]
       IN  t.status \in {"mutual", "validated"} =>
              \/ {<<t.from, t.to>>, <<t.to, t.from>>} \subseteq declared
              \/ <<t.from, t.to>> \in ToSet(scene.seeds) \cup {<<s.from, s.to>> : s \in ToSet(scene.ties)}

\* The decay of a tick is charged to a tie once, although both ends work on it (in
\* Neo4j, where an end may read what the other has written, once for each end);
\* afterwards nobody has more than its contacts, and what was cut was faint, or an
\* end had as many ties at least as strong.
DecayIsFair ==
    DecayDone =>
      /\ \A a \in Agents : Len(Of(a, ties)) <= scene.contacts[a]
      /\ \A i \in DOMAIN dawn :
            LET t == dawn[i]
                lost == IF scene.store = "memory" THEN Loss(t) ELSE 2 * Loss(t)
            IN  IF \E j \in DOMAIN ties : Is(ties[j], KeyOf(t))
                THEN Get(KeyOf(t)).strength >= t.strength - lost
                ELSE \/ t.strength - lost < Least
                     \/ \E a \in {t.from, t.to} :
                           Len(SelectSeq(Of(a, dawn), LAMBDA s : s.strength + lost >= t.strength))
                              > scene.contacts[a]

\* The neighbours the router is given are tied to the agent now, and no more than
\* its contacts, although the list was made earlier in the tick.
NeighboursAreTied ==
    phase = "acting" =>
      \A a \in DOMAIN cache :
         /\ Len(cache[a]) <= scene.contacts[a]
         /\ \A b \in ToSet(cache[a]) :
               \E i \in DOMAIN ties : {ties[i].from, ties[i].to} = {a, b}
=============================================================================
