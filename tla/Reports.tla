------------------------------- MODULE Reports --------------------------------
(***************************************************************************)
(* The report generator (src/plugins/built-in/ReportGeneratorPlugin.ts): what   *)
(* its hooks collect while the world runs, the reports it builds, live or      *)
(* when the world stops, and the event log they read.                          *)
(***************************************************************************)
EXTENDS Analysis

CONSTANTS
    Studies   \* [agents: their ids in order; script: what happens, in order; cap: timeline
              \* entries kept; every: ticks between graph snapshots; window: of a policy;
              \* room: of the event log; lives: live reports asked for; attr: node -> attribute;
              \* talks: conversations]

VARIABLES
    study, step,
    graphStore,   \* ties, in order of insertion
    eventLog,     \* CircularBuffer [buffer, head, size] of [type, tick]
    timeline, allActions, graphSnapshots, policyTrigger,
    collectors,   \* agent -> [actions: kind -> n, total, energy: <<tick, n>>s, changes]
    known,        \* the keys of collectors, in order
    report,       \* the last one built, <<>> before
    stopping,     \* "no"; "captured": onWorldStop has its last snapshot; "yes"
    lives,
    \* history:
    logged        \* every event ever pushed

vars == <<study, step, graphStore, eventLog, timeline, allActions, graphSnapshots,
          policyTrigger, collectors, known, report, stopping, lives, logged>>

Kinds == {"speak", "observe", "tool_call"}
NewCollector == [actions |-> [k \in Kinds |-> 0], total |-> 0, energy |-> <<>>, changes |-> 0]

\* onBootstrap: everything is cleared, a collector for each agent.
Init ==
    /\ study \in Studies
    /\ step = 1 /\ lives = study.lives
    /\ graphStore = <<>>
    /\ eventLog = [buffer |-> [i \in 0..study.room - 1 |-> [type |-> "none", tick |-> 0]],
                   head |-> 0, size |-> 0]
    /\ timeline = <<>> /\ allActions = <<>> /\ graphSnapshots = <<>> /\ policyTrigger = 0
    /\ collectors = [a \in ToSet(study.agents) |-> NewCollector] /\ known = study.agents
    /\ report = <<>> /\ stopping = "no" /\ logged = <<>>

(***************************************************************************)
(* The event log: a ring that overwrites its oldest events.                   *)
(***************************************************************************)
Pushed(log, e) ==
    [buffer |-> [log.buffer EXCEPT ![log.head] = e],
     head |-> (log.head + 1) % study.room,
     size |-> IF log.size < study.room THEN log.size + 1 ELSE log.size]

ToArray(log) ==
    LET start == IF log.size < study.room THEN 0 ELSE log.head
    IN  [i \in 1..log.size |-> log.buffer[(start + i - 1) % study.room]]

(***************************************************************************)
(* What the hooks collect.                                                   *)
(***************************************************************************)
EnsureCollector(a) ==
    IF a \in DOMAIN collectors THEN collectors
    ELSE [x \in DOMAIN collectors \cup {a} |-> IF x = a THEN NewCollector ELSE collectors[x]]
EnsureKnown(a) == IF a \in DOMAIN collectors THEN known ELSE Append(known, a)

AddTimeline(line, entry) == IF Len(line) < study.cap THEN Append(line, entry) ELSE line

\* Every known agent is asked for its ties; each tie is kept once.
DumpAll ==
    LET asked == FlattenSeq([i \in DOMAIN known |->
                     SelectSeq(graphStore, LAMBDA r : known[i] \in {r.from, r.to})])
    IN  FoldLeft(LAMBDA kept, r : IF Contains(kept, r) THEN kept ELSE Append(kept, r), <<>>, asked)
Captured(tick) == Append(graphSnapshots, [tick |-> tick, relationships |-> DumpAll])

Now == study.script[step]
\* Also while the world stops; what comes after its report is in none.
Happens(op) ==
    stopping # "yes" /\ step <= Len(study.script) /\ Now.op = op /\ step' = step + 1
Ticks == Cardinality({i \in 1..step - 1 : study.script[i].op = "tick"})

OnAgentAction ==
    /\ Happens("act")
    /\ allActions' = Append(allActions, Now.action)
    /\ known' = EnsureKnown(Now.action.agent)
    /\ collectors' = LET c == EnsureCollector(Now.action.agent)
                     IN  [c EXCEPT ![Now.action.agent].total = @ + 1,
                                   ![Now.action.agent].actions[Now.action.kind] = @ + 1]
    /\ timeline' = IF Now.action.kind # "speak" THEN timeline
                   ELSE AddTimeline(timeline, [tick |-> Now.action.tick, type |-> "action"])
    /\ UNCHANGED <<study, graphStore, eventLog, graphSnapshots, policyTrigger, report, stopping,
                   lives, logged>>

OnWorldTick ==
    /\ Happens("tick")
    /\ collectors' = [a \in DOMAIN collectors |->
          IF a \notin DOMAIN Now.energy THEN collectors[a]
          ELSE [collectors[a] EXCEPT !.energy = Append(@, <<Ticks + 1, Now.energy[a]>>)]]
    /\ graphSnapshots' = IF Ticks + 1 = 1 \/ (Ticks + 1) % study.every = 0
                         THEN Captured(Ticks + 1) ELSE graphSnapshots
    /\ UNCHANGED <<study, graphStore, eventLog, timeline, allActions, policyTrigger, known,
                   report, stopping, lives, logged>>

OnAgentStatusChange ==
    /\ Happens("status")
    /\ known' = EnsureKnown(Now.agent)
    /\ collectors' = [EnsureCollector(Now.agent) EXCEPT ![Now.agent].changes = @ + 1]
    /\ timeline' = AddTimeline(timeline, [tick |-> Ticks, type |-> "status_change"])
    /\ UNCHANGED <<study, graphStore, eventLog, allActions, graphSnapshots, policyTrigger,
                   report, stopping, lives, logged>>

RecordPolicyTrigger ==
    /\ Happens("policy")
    /\ policyTrigger' = Now.tick
    /\ timeline' = AddTimeline(timeline, [tick |-> Now.tick, type |-> "policy_trigger"])
    /\ UNCHANGED <<study, graphStore, eventLog, allActions, graphSnapshots, collectors, known,
                   report, stopping, lives, logged>>

LogEvent ==
    /\ Happens("event")
    /\ eventLog' = Pushed(eventLog, Now.event) /\ logged' = Append(logged, Now.event)
    /\ UNCHANGED <<study, graphStore, timeline, allActions, graphSnapshots, policyTrigger,
                   collectors, known, report, stopping, lives>>

\* The world's ties change: a tie replaces the one with its ends and type, in its place.
TiesChange ==
    /\ Happens("ties")
    /\ graphStore' = Now.ties
    /\ UNCHANGED <<study, eventLog, timeline, allActions, graphSnapshots, policyTrigger,
                   collectors, known, report, stopping, lives, logged>>

(***************************************************************************)
(* Building a report.  Counting the violations also writes them to the         *)
(* timeline, at every report that is built.                                   *)
(***************************************************************************)
IsViolation(e) == e.type \in {"action:blocked", "action:warned", "rule:violation"}
Violations(log) == SelectSeq(ToArray(log), IsViolation)
WithViolations(line, log) ==
    FoldLeft(LAMBDA l, e : AddTimeline(l, [tick |-> e.tick, type |-> "rule_violation"]),
             line, Violations(log))

TotalOf(kind) == MapThenSumSet(LAMBDA a : collectors[a].actions[kind], DOMAIN collectors)
Samples(tick) ==
    {<<a, s>> \in UNION {{a} \X ToSet(collectors[a].energy) : a \in DOMAIN collectors} : s[1] = tick}
AverageEnergy ==
    [t \in UNION {{s[1] : s \in ToSet(collectors[a].energy)} : a \in DOMAIN collectors} |->
        MapThenSumSet(LAMBDA p : p[2][2], Samples(t)) \div Cardinality(Samples(t))]

\* From the first to the last snapshot that has the tie.
Evolutions(snapshots) ==
    LET With(k) == SelectSeq(snapshots, LAMBDA s :
                      \E r \in ToSet(s.relationships) : <<r.from, r.to, r.type>> = k)
        In(s, k) == CHOOSE r \in ToSet(s.relationships) : <<r.from, r.to, r.type>> = k
        keys == UNION {{<<r.from, r.to, r.type>> : r \in ToSet(s.relationships)} : s \in ToSet(snapshots)}
    IN  [k \in keys |-> In(Last(With(k)), k).strength - In(Head(With(k)), k).strength]

AnalyzeNetwork(snapshots) ==
    LET nodes == DOMAIN study.attr
        final == IF snapshots = <<>> THEN <<>> ELSE Last(snapshots).relationships
        initial == IF snapshots = <<>> THEN <<>> ELSE Head(snapshots).relationships
    IN  [final |-> final, initial |-> initial,
         communities |-> Communities(nodes, final), betweenness |-> Betweenness(nodes, final),
         density |-> [i \in DOMAIN snapshots |-> Density(nodes, snapshots[i].relationships)],
         reciprocity |-> Reciprocity(final), homophily |-> Homophily(study.attr, final),
         changes |-> Changes(initial, final)]

AnalyzeDialogue ==
    LET events == SpeakEvents(allActions, study.talks)
        ids == DOMAIN study.attr
        voice == VoiceShare(events, ids)
    IN  [voice |-> voice, gini |-> Gini(ids, voice), replies |-> [a \in ids |-> Replies(events, a)]]

AnalyzeShock ==
    IF policyTrigger = 0 THEN <<>>
    ELSE LET before == Before(policyTrigger, study.window)
             after == After(policyTrigger, study.window, Ticks)
             n == Cardinality(DOMAIN study.attr)
         IN  [before |-> before, after |-> after,
              speaks |-> <<RateIn(before, allActions, "speak", n), RateIn(after, allActions, "speak", n)>>,
              recovery |-> Recovery(policyTrigger, study.window, Ticks, AverageEnergy,
                                    IF policyTrigger - 1 \in DOMAIN AverageEnergy
                                    THEN AverageEnergy[policyTrigger - 1] ELSE 0)]

BuildReport(log, snapshots) ==
    [totals |-> [k \in Kinds |-> TotalOf(k)], totalActions |-> Len(allActions),
     agents |-> collectors, violations |-> Len(Violations(log)),
     energy |-> AverageEnergy, evolutions |-> Evolutions(snapshots),
     timeline |-> SortSeq(WithViolations(timeline, log), LAMBDA x, y : x.tick < y.tick),
     network |-> AnalyzeNetwork(snapshots), dialogue |-> AnalyzeDialogue, shock |-> AnalyzeShock]

\* getReport while the world runs.
GetReport ==
    /\ stopping # "yes" /\ lives > 0 /\ lives' = lives - 1
    /\ report' = BuildReport(eventLog, graphSnapshots)
    /\ timeline' = WithViolations(timeline, eventLog)
    /\ UNCHANGED <<study, step, graphStore, eventLog, allActions, graphSnapshots, policyTrigger,
                   collectors, known, stopping, logged>>

\* onWorldStop: the last snapshot, across its awaits, and then the report.
StopCaptures ==
    /\ stopping = "no"
    /\ graphSnapshots' = Captured(Ticks) /\ stopping' = "captured"
    /\ UNCHANGED <<study, step, graphStore, eventLog, timeline, allActions, policyTrigger,
                   collectors, known, report, lives, logged>>

StopBuilds ==
    /\ stopping = "captured" /\ stopping' = "yes"
    /\ report' = BuildReport(eventLog, graphSnapshots)
    /\ timeline' = WithViolations(timeline, eventLog)
    /\ UNCHANGED <<study, step, graphStore, eventLog, allActions, graphSnapshots, policyTrigger,
                   collectors, known, lives, logged>>

Next ==
    \/ OnAgentAction \/ OnWorldTick \/ OnAgentStatusChange \/ RecordPolicyTrigger
    \/ LogEvent \/ TiesChange \/ GetReport \/ StopCaptures \/ StopBuilds

Spec == Init /\ [][Next]_vars

(***************************************************************************)
(* Properties.                                                              *)
(***************************************************************************)
ActsOf(a) == SelectSeq(allActions, LAMBDA x : x.agent = a)

\* Every report, live or final, adds up: the totals of the agents and of the kinds are the
\* actions delivered, an agent's voice is the number of its utterances however many heard
\* them, a tick is sampled once per agent, and the violations are those of the events the
\* log still holds - its latest ones, in their order (ReportGeneratorPlugin.ts:142-245,
\* DialogueAnalyzer.ts:181-206, CircularBuffer.ts:37).
ReportsAddUp ==
    /\ ToArray(eventLog) = SubSeq(logged, Len(logged) - Smaller(Len(logged), study.room) + 1,
                                  Len(logged))
    /\ report # <<>> =>
        /\ MapThenSumSet(LAMBDA a : report.agents[a].total, DOMAIN report.agents)
              = report.totalActions
        /\ MapThenSumSet(LAMBDA k : report.totals[k], Kinds) = report.totalActions
        /\ \A a \in DOMAIN report.agents : \A i, j \in DOMAIN report.agents[a].energy :
              i < j => report.agents[a].energy[i][1] < report.agents[a].energy[j][1]
    /\ (stopping = "yes") =>
        \A a \in DOMAIN report.dialogue.voice :
            report.dialogue.voice[a] = Len(SelectSeq(ActsOf(a), LAMBDA x : x.kind = "speak"))

\* Shortest paths, from their definition.
Links(adj, p) ==
    /\ \A i \in 1..Len(p) - 1 : p[i + 1] \in adj[p[i]]
    /\ \A i, j \in DOMAIN p : p[i] = p[j] => i = j
Paths(adj, s, t, len) ==
    {p \in [1..len -> DOMAIN adj] : p[1] = s /\ p[len] = t /\ Links(adj, p)}
Shortest(adj, s, t) ==
    LET lens == {len \in 2..Cardinality(DOMAIN adj) : Paths(adj, s, t, len) # {}}
    IN  IF lens = {} THEN {} ELSE Paths(adj, s, t, Min(lens))
Through(adj, v) ==
    MapThenSumSet(LAMBDA st : LET all == Shortest(adj, st[1], st[2])
                              IN  IF all = {} THEN 0
                                  ELSE (Unit * Cardinality({p \in all : v \in Range(p)}))
                                         \div Cardinality(all),
                  {st \in (DOMAIN adj \ {v}) \X (DOMAIN adj \ {v}) : st[1] # st[2]})

\* The nodes a set of nodes is tied to, until no more are.
Closure(adj, S) == LET f[i \in Nat] == IF i = 0 THEN S
                                       ELSE f[i - 1] \cup UNION {adj[x] : x \in f[i - 1]}
                   IN  f[Cardinality(DOMAIN adj)]

\* The analyses are what they are named for: the communities are the connected components
\* of the ties at the threshold, the betweenness of a node is its share of the shortest
\* paths, the changes turn the first graph into the last, the index of the voices is their
\* mean difference, a change of strength is that of the tie's evolution, and no tick is both
\* before and after a policy of tick 2 or later (NetworkAnalyzer.ts, DialogueAnalyzer.ts,
\* ShockAnalyzer.ts:33).
AnalysisIsExact ==
    stopping = "yes" =>
        LET net == report.network
            nodes == DOMAIN study.attr
            adj == Adjacent(nodes, net.final)
            strong == Adjacent(nodes, Strong(nodes, net.final))
            voice == report.dialogue.voice
            gini == report.dialogue.gini
        IN  /\ {c.members : c \in net.communities}
                  = {g \in {Closure(strong, {x}) : x \in nodes} : Cardinality(g) >= 2}
            /\ \A v \in nodes : Cardinality(nodes) > 2 => net.betweenness[v] = Through(adj, v)
            /\ LET pairs == DOMAIN ByPair(net.initial)
                   Ones(kind) == {c.pair : c \in {d \in net.changes : d.type = kind}}
               IN  /\ DOMAIN ByPair(net.final) = (pairs \cup Ones("created")) \ Ones("broken")
                   /\ \A c \in net.changes : c.type \in {"strengthened", "weakened"} =>
                         LET k == <<c.pair[1], c.pair[2], ByPair(net.final)[c.pair].type>>
                         IN  ByPair(net.initial)[c.pair].type = k[3]
                                => report.evolutions[k] = c.delta
            /\ MapThenSumSet(LAMBDA p : AbsOf(voice[p[1]] - voice[p[2]]), nodes \X nodes) * gini[2]
                  = 2 * gini[1] * Cardinality(nodes) * MapThenSumSet(LAMBDA a : voice[a], nodes)
            /\ report.shock # <<>> /\ policyTrigger > 1 => report.shock.before \cap report.shock.after = {}
=============================================================================
