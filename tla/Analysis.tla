------------------------------- MODULE Analysis -------------------------------
(***************************************************************************)
(* The analyzers of a report, as operators over its data: the network of      *)
(* ties (src/analysis/NetworkAnalyzer.ts), the dialogue (DialogueAnalyzer.ts)  *)
(* and the windows around a policy (ShockAnalyzer.ts).  Strengths are tenths;   *)
(* a quotient is a pair <<numerator, denominator>>, never rounded.             *)
(* A tie is [from, to, type, strength, tick]; a speech [agent, kind, tick, seq,  *)
(* to, text]; a conversation [participants, start].                            *)
(***************************************************************************)
EXTENDS Integers, SequencesExt, FiniteSetsExt, Functions

CONSTANTS
    Threshold,   \* 3 tenths: DEFAULT_COMMUNITY_THRESHOLD
    Noticeable,  \* 2 tenths: the change of strength a diff reports
    ReplyWindow, \* 3 ticks
    Unit,        \* a multiple of every count of shortest paths, so that they divide exactly
    Nobody       \* no addressee, and the addressee "*"

(***************************************************************************)
(* Communities: a union-find with path halving, over the ties in order.       *)
(***************************************************************************)
RECURSIVE Find(_, _)
Find(parent, x) ==
    IF parent[x] = x THEN [parent |-> parent, root |-> x]
    ELSE LET halved == [parent EXCEPT ![x] = parent[parent[x]]]
         IN  Find(halved, halved[x])

Union(parent, a, b) ==
    LET fa == Find(parent, a)
        fb == Find(fa.parent, b)
    IN  [fb.parent EXCEPT ![fa.root] = fb.root]

Strong(nodes, ties) ==
    SelectSeq(ties, LAMBDA r : {r.from, r.to} \subseteq nodes /\ r.strength >= Threshold)

Groups(nodes, ties) ==
    LET parent == FoldLeft(LAMBDA p, r : Union(p, r.from, r.to), [x \in nodes |-> x],
                           Strong(nodes, ties))
    IN  {{y \in nodes : Find(parent, y).root = x} : x \in nodes} \ {{}}

\* The strongest of the ties between two nodes, whichever their direction.
PairStrength(nodes, ties, pair) ==
    Max({0} \cup {r.strength : r \in {t \in ToSet(Strong(nodes, ties)) : {t.from, t.to} = pair}})

Communities(nodes, ties) ==
    {LET pairs == {p \in SUBSET g : Cardinality(p) = 2}
     IN  [members |-> g,
          cohesion |-> <<MapThenSumSet(LAMBDA p : PairStrength(nodes, ties, p), pairs),
                         Cardinality(pairs)>>]
     : g \in {h \in Groups(nodes, ties) : Cardinality(h) >= 2}}

(***************************************************************************)
(* Betweenness: Brandes' algorithm, a breadth-first search per source.        *)
(***************************************************************************)
Adjacent(nodes, ties) ==
    [x \in nodes |-> {y \in nodes \ {x} : \E r \in ToSet(ties) : {r.from, r.to} = {x, y}}]

\* Fault: a node is a predecessor only where it discovered the other.
ReachFirst(g, v, w) ==
    IF g.dist[w] >= 0 THEN g
    ELSE [g EXCEPT !.dist[w] = g.dist[v] + 1, !.queue = Append(@, w),
                   !.sigma[w] = g.sigma[v], !.pred[w] = <<v>>]

Reach(g, v, w) ==
    LET seen == IF g.dist[w] < 0
                THEN [g EXCEPT !.dist[w] = g.dist[v] + 1, !.queue = Append(@, w)] ELSE g
    IN  IF seen.dist[w] = seen.dist[v] + 1
        THEN [seen EXCEPT !.sigma[w] = @ + seen.sigma[v], !.pred[w] = Append(@, v)] ELSE seen

RECURSIVE Explore(_, _)
Explore(g, adj) ==
    IF g.queue = <<>> THEN g
    ELSE LET v == Head(g.queue)
         IN  Explore(FoldLeft(LAMBDA h, w : Reach(h, v, w),
                              [g EXCEPT !.queue = Tail(@), !.stack = Append(@, v)],
                              SetToSeq(adj[v])), adj)

\* What the shortest paths from s through each node amount to, in Units.
Dependencies(s, adj) ==
    LET nodes == DOMAIN adj
        g == Explore([queue |-> <<s>>, stack |-> <<>>,
                      dist |-> [x \in nodes |-> IF x = s THEN 0 ELSE -1],
                      sigma |-> [x \in nodes |-> IF x = s THEN 1 ELSE 0],
                      pred |-> [x \in nodes |-> <<>>]], adj)
        Share(w, d) == FoldLeft(LAMBDA e, v : [e EXCEPT ![v] =
                                    @ + (g.sigma[v] * (Unit + d[w])) \div g.sigma[w]],
                                d, g.pred[w])
    IN  [FoldRight(Share, g.stack, [x \in nodes |-> 0]) EXCEPT ![s] = 0]

\* Summed over every source: twice the undirected score, before its denominator.
Betweenness(nodes, ties) ==
    LET adj == Adjacent(nodes, ties)
    IN  [v \in nodes |-> IF Cardinality(nodes) < 3 THEN 0
                         ELSE MapThenSumSet(LAMBDA s : Dependencies(s, adj)[v], nodes)]

(***************************************************************************)
(* Density, reciprocity, homophily, and what changed between two graphs.      *)
(***************************************************************************)
Directed(ties) == {<<r.from, r.to>> : r \in ToSet(ties)}
Density(nodes, ties) ==
    LET n == Cardinality(nodes)
    IN  IF n < 2 THEN <<0, 1>> ELSE <<Cardinality({p \in Directed(ties) : p[1] # p[2]}), n * (n - 1)>>
Reciprocity(ties) ==
    <<Cardinality({p \in Directed(ties) : <<p[2], p[1]>> \in Directed(ties)}),
      Cardinality(Directed(ties))>>

\* Newman's assortativity for an attribute of nodes; <<>>: not reported.
Homophily(attr, ties) ==
    LET known == SelectSeq(ties, LAMBDA r : {r.from, r.to} \subseteq DOMAIN attr)
        T == Len(known)
        Ends(P(_)) == Cardinality({i \in 1..T : P(known[i])})
        trace == Ends(LAMBDA r : attr[r.from] = attr[r.to])
        aa == MapThenSumSet(LAMBDA c : Ends(LAMBDA r : attr[r.from] = c)
                                       * Ends(LAMBDA r : attr[r.to] = c), Range(attr))
    IN  IF Cardinality(Range(attr)) < 2 \/ T = 0 THEN <<>>
        ELSE IF T * T = aa THEN <<0, 1>> ELSE <<trace * T - aa, T * T - aa>>

\* A Map by pair: the last tie of a pair stands for it, whatever its type.
ByPair(ties) ==
    [p \in Directed(ties) |-> ties[SelectLastInSeq(ties, LAMBDA r : <<r.from, r.to>> = p)]]

AbsOf(x) == IF x < 0 THEN 0 - x ELSE x
Changes(initial, final) ==
    LET old == ByPair(initial)
        new == ByPair(final)
        both == DOMAIN old \cap DOMAIN new
        delta(p) == IF p \in both THEN new[p].strength - old[p].strength ELSE 0
        Of(kind, ps) ==
            {[type |-> kind, pair |-> p, delta |-> delta(p),
              to |-> IF p \in DOMAIN new THEN new[p].type ELSE old[p].type] : p \in ps}
    IN  Of("created", DOMAIN new \ DOMAIN old)
        \cup Of("broken", DOMAIN old \ DOMAIN new)
        \cup Of("type_changed", {p \in both : old[p].type # new[p].type})
        \cup Of("strengthened", {p \in both : delta(p) >= Noticeable})
        \cup Of("weakened", {p \in both : 0 - delta(p) >= Noticeable})

(***************************************************************************)
(* Dialogue: who speaks to whom.  An utterance without a target in a             *)
(* conversation is one event per listener, counted once by its key.            *)
(***************************************************************************)
\* The first conversation of the speaker that had begun, ended or not.
Threads(a, conversations) ==
    SelectSeq(conversations, LAMBDA c : a.agent \in c.participants /\ c.start <= a.tick)

Event(a, to) == [from |-> a.agent, to |-> to, tick |-> a.tick, seq |-> a.seq, text |-> a.text]
SpeakEvents(actions, conversations) ==
    LET Of(a) == IF a.to # Nobody THEN <<Event(a, a.to)>>
                 ELSE IF Threads(a, conversations) = <<>> THEN <<Event(a, Nobody)>>
                 ELSE [i \in 1..Cardinality(Head(Threads(a, conversations)).participants \ {a.agent}) |->
                        Event(a, SetToSeq(Head(Threads(a, conversations)).participants \ {a.agent})[i])]
        spoken == SelectSeq(actions, LAMBDA a : a.kind = "speak")
    IN  FlattenSeq([i \in DOMAIN spoken |-> Of(spoken[i])])

EventKey(e) == <<e.from, e.tick, e.seq, e.text>>

\* Fault: an event per listener counts as a speech of its own.
KeysPerListener(events, id) == {<<EventKey(events[i]), i>> : i \in {j \in DOMAIN events : events[j].from = id}}
KeysOf(events, id) == {EventKey(e) : e \in {f \in ToSet(events) : f.from = id}}

VoiceShare(events, ids) == [id \in ids |-> Cardinality(KeysOf(events, id))]

\* The index of Gini of the voices, sorted upwards: 2 sum(i x_i)/(n T) - (n + 1)/n.
Gini(ids, voice) ==
    LET n == Cardinality(ids)
        sorted == SetToSortSeq({<<voice[id], id>> : id \in ids}, LAMBDA x, y : x[1] < y[1])
        T == MapThenSumSet(LAMBDA id : voice[id], ids)
        weighted == MapThenSumSet(LAMBDA i : i * sorted[i][1], 1..n)
    IN  IF n = 0 \/ T = 0 THEN <<0, 1>> ELSE <<2 * weighted - (n + 1) * T, n * T>>

\* Replies and what they answer: of the events in order, each directed one looks for the
\* first answer to it within the window.
Replies(events, id) ==
    Cardinality({i \in DOMAIN events :
        /\ events[i].from = id /\ events[i].to # Nobody
        /\ \E j \in i + 1..Len(events) :
              /\ events[j].from = events[i].to /\ events[j].to = id
              /\ events[j].tick - events[i].tick <= ReplyWindow})

(***************************************************************************)
(* The windows before and after a policy, and what they aggregate.            *)
(***************************************************************************)
Larger(x, y) == IF x > y THEN x ELSE y
Smaller(x, y) == IF x < y THEN x ELSE y
Before(trigger, w) == LET start == Larger(1, trigger - w) IN start..Larger(start, trigger - 1)
After(trigger, w, total) == trigger..Smaller(total, trigger + w - 1)

RateIn(window, actions, kind, agents) ==
    <<Cardinality({i \in DOMAIN actions : actions[i].tick \in window /\ actions[i].kind = kind}),
      Larger(1, Cardinality(window)) * Larger(1, agents)>>

\* The first tick from the end of the window on whose energy is within a tenth of before's.
Recovery(trigger, w, total, energy, before) ==
    LET back == {t \in trigger + w..total : t \in DOMAIN energy
                    /\ 10 * AbsOf(energy[t] - before) <= before}
    IN  IF before = 0 \/ back = {} THEN -1 ELSE Min(back) - trigger
=============================================================================
