------------------------------- MODULE MCSociety -------------------------------
(***************************************************************************)
(* The parts of a society that do not wait for each other within a tick:       *)
(* needs, ties, places, memories and the report on them, the persons themselves,   *)
(* and what is kept of them in the database.  A behaviour is one of one part, in   *)
(* one of its worlds; the other parts rest.                                   *)
(***************************************************************************)
EXTENDS Needs, Places, Memory, Persistence, Persons, TLC

CONSTANTS
    anna, bruno, carla, dora,  \* agents
    bar, gym, well,            \* venues and a resource
    m1, m2, m3, m4, c1, c2,    \* memory entries and calls of consolidate()
    w1, w2,                    \* worlds of the database
    Absent, Nobody

VARIABLES
    part,
    scene, dusk, phase, ties, task, free, met, plan, cache, declared, dawn,
    study, step, graphStore, eventLog, timeline, allActions, graphSnapshots, policyTrigger,
    collectors, known, report, stopping, lives, logged

Two == {anna, bruno}
Three == Two \cup {carla}

(***************************************************************************)
(* Needs: speech and company, affordances and food for an agent who sleeps two   *)
(* ticks; two actions in a tick; one who is not there; without the automatic      *)
(* satisfier, without perception, with needs of one's own, two of one name.      *)
(***************************************************************************)
Still == [type |-> "observe", words |-> {}, participants |-> 0, verb |-> "",
          restored |-> 0, harvest |-> FALSE, company |-> FALSE, tells |-> 0]
Eats == [Still EXCEPT !.type = "interact", !.words = {"eat"}, !.verb = "eat"]
Speaks == [Still EXCEPT !.type = "speak", !.participants = 2, !.tells = 10]
Meets == [Still EXCEPT !.type = "finish", !.restored = 30, !.company = TRUE]
Drinks == [Still EXCEPT !.type = "interact", !.words = {"drink", "rest"}, !.harvest = TRUE,
                          !.verb = "sleep"]

Own == [a \in Two |-> <<>>]
Village == [perception |-> TRUE, template |-> "humanBasic", auto |-> TRUE, require |-> TRUE,
            own |-> Own, plugins |-> {},
            asleep |-> [a \in Two |-> IF a = bruno THEN {2, 3} ELSE {}],
            crews |-> {Two}, moves |-> {Eats, Meets, Drinks}, iterations |-> 1, until |-> 2]
Ache(value, decay) == [id |-> "hunger", value |-> value, decay |-> decay, regen |-> 0,
                       activation |-> 500, critical |-> 800]
Villages ==
    {[Village EXCEPT !.moves = {Speaks}, !.until = 3],
     [Village EXCEPT !.crews = {Two, {anna}}, !.moves = {Eats, Drinks}],
     [Village EXCEPT !.iterations = 2, !.until = 1],
     [Village EXCEPT !.auto = FALSE],
     [Village EXCEPT !.perception = FALSE, !.until = 1],
     [Village EXCEPT !.require = FALSE, !.auto = FALSE, !.template = "animalBasic", !.until = 1],
     [Village EXCEPT !.until = 1, !.template = "none",
         !.own = [Own EXCEPT ![anna] = <<Ache(950, 100), Ache(400, 10)>>]]}

(***************************************************************************)
(* Ties: a couple that declares itself, each before the other has heard, with a   *)
(* witness, and breaks; a crowd whose ties decay, in memory and in Neo4j.       *)
(***************************************************************************)
Do(tool, from, to) == [tool |-> tool, from |-> from, to |-> to]
Since(from, to, type, strength, last) ==
    [from |-> from, to |-> to, type |-> type, strength |-> strength, last |-> last,
     status |-> "none", by |-> {}, witnesses |-> {}]

Couple == [store |-> "memory", ties |-> <<>>, seeds |-> <<>>,
    calls |-> anna :> {Do("declare", anna, bruno), Do("break", anna, bruno)}
              @@ bruno :> {Do("declare", bruno, anna)} @@ carla :> {Do("witness", anna, bruno)},
    says |-> {}, asks |-> {}, contacts |-> [a \in Three |-> 20], from |-> 1, until |-> 3]
Crowd == [Couple EXCEPT !.calls = [a \in Three |-> {}],
    !.says = {<<anna, bruno>>, <<carla, bruno>>},
    !.ties = <<Since(anna, carla, "knows", 30, 1), Since(bruno, anna, "knows", 200, 3),
               Since(carla, bruno, "trusts", 60, 0)>>,
    !.seeds = <<<<anna, bruno>>>>, !.asks = Two, !.from = 4, !.until = 5,
    !.contacts = [a \in Three |-> IF a = bruno THEN 3 ELSE 4]]
Scenes == {Couple, Crowd, [Crowd EXCEPT !.store = "neo4j", !.says = {<<anna, bruno>>}]}

Relationships == INSTANCE Relationships WITH Agents <- Three, day <- dusk

(***************************************************************************)
(* Places on a line of twelve: two who walk, one of them in a vehicle, while     *)
(* positions arrive from outside; and guests of venues who share a resource.     *)
(***************************************************************************)
Go(p) == [tool |-> "move_to_coordinates", to |-> p]
Home == [tool |-> "move_to_home"]
Toward(b, stop) == [tool |-> "move_toward_agent", to |-> b, stop |-> stop]
Visit(v) == [tool |-> "go_to_venue", to |-> v]
Exit == [tool |-> "leave_venue"]
Draw(n) == [tool |-> "use_resource", of |-> well, amount |-> n]

Walkers == [home |-> anna :> 1 @@ bruno :> Nowhere, start |-> anna :> 3 @@ bruno :> Nowhere,
    wishes |-> anna :> {Go(9), Home, Go(-1)} @@ bruno :> {Go(7), Toward(anna, 2)},
    fixes |-> {<<anna, 5>>, <<bruno, 6>>}, capacity |-> bar :> 1 @@ gym :> 0,
    quantity |-> well :> 3, vehicle |-> {bruno}, until |-> 2]
Guests == [Walkers EXCEPT !.fixes = {}, !.until = 0,
    !.wishes = anna :> {Visit(bar), Visit(gym), Exit, Draw(2)}
               @@ bruno :> {Visit(bar), Exit, Draw(1), Draw(2)}]
Streets == {Walkers, [Walkers EXCEPT !.until = 1, !.fixes = {<<anna, 5>>, <<anna, 8>>},
                                   !.wishes = anna :> {Go(9)} @@ bruno :> {Home}], Guests}

Resorts == {bar, gym}
Wells == {well}

(***************************************************************************)
(* Memory: each strategy, with and without a model, whose answer may miss       *)
(* entries, name one twice or be unreadable, over stores that fail or not.       *)
(***************************************************************************)
Hybrid == [batches |-> <<<<m1, m2>>, <<m3, m4>>>>,
    type |-> m1 :> "action" @@ m2 :> "action" @@ m3 :> "action" @@ m4 :> "knowledge",
    score |-> m1 :> 2 @@ m2 :> 5 @@ m3 :> 3 @@ m4 :> 8, strategy |-> "hybrid", llm |-> TRUE,
    answers |-> {{<<m2, 6>>}, {<<m2, 2>>}, Unparsable}, threshold |-> 6, batchSize |-> 2,
    retention |-> 1, fails |-> FALSE]
Tempers ==
    {Hybrid, [Hybrid EXCEPT !.fails = TRUE, !.batches = <<<<m1, m2, m4>>>>],
     [Hybrid EXCEPT !.strategy = "llm", !.batches = <<<<m1, m2>>, <<m3>>>>,
         !.answers = {{<<m1, 1>>, <<m1, 9>>}, {<<m1, 3>>, <<m2, 3>>, <<m3, 2>>}}],
     [Hybrid EXCEPT !.strategy = "heuristic", !.llm = FALSE, !.answers = {Unparsable}]}

Entries == {m1, m2, m3, m4}
Twice == {c1, c2}

(***************************************************************************)
(* Reports: the weighted graphs on four agents, against which the analysis is     *)
(* compared, and a story with speech, listeners, violations and a shock.        *)
(***************************************************************************)
Pairs == <<<<anna, bruno>>, <<carla, dora>>, <<bruno, carla>>, <<anna, carla>>,
           <<dora, bruno>>, <<anna, dora>>>>
Tie(ft, k) == [from |-> ft[1], to |-> ft[2], type |-> "friend", strength |-> k, tick |-> 1]
Speech(a, t, n, to) == [agent |-> a, kind |-> "speak", tick |-> t, seq |-> n, to |-> to,
                        text |-> "x"]
Does(x) == [op |-> "act", action |-> x]
Ticking(e) == [op |-> "tick", energy |-> e]
Logged(type, t) == [op |-> "event", event |-> [type |-> type, tick |-> t]]
Tied(seq) == [op |-> "ties", ties |-> seq]

Weights == {w \in [1..6 -> {0, 2, 5}] : \A i \in 1..3 : w[i] # 2}
Drawn == {[agents |-> <<anna, bruno, carla, dora>>, cap |-> 2, every |-> 1, window |-> 2,
           room |-> 2, lives |-> 0, talks |-> <<>>,
           attr |-> anna :> 1 @@ bruno :> 1 @@ carla :> 2 @@ dora :> 2,
           script |-> <<Tied(<<Tie(<<anna, bruno>>, 9), Tie(<<dora, anna>>, 5)>>),
                        Ticking(anna :> 5),
                        Tied(SelectSeq([i \in 1..6 |-> Tie(Pairs[i], w[i])],
                                       LAMBDA t : t.strength > 0))>>] : w \in Weights}
Story == [agents |-> <<anna, bruno, carla>>, cap |-> 4, every |-> 2, window |-> 1, room |-> 2,
    lives |-> 2, attr |-> anna :> 1 @@ bruno :> 1 @@ carla :> 2,
    talks |-> <<[participants |-> Three, start |-> 1]>>,
    script |-> <<Ticking(anna :> 9 @@ bruno :> 9 @@ carla :> 9), Does(Speech(anna, 1, 1, Nobody)),
        Logged("action:blocked", 1), Tied(<<Tie(<<anna, bruno>>, 5)>>),
        Does([Speech(bruno, 1, 2, anna) EXCEPT !.kind = "observe"]),
        Ticking(anna :> 4 @@ bruno :> 4 @@ carla :> 4), [op |-> "policy", tick |-> 2],
        Does(Speech(bruno, 2, 1, anna)), Logged("action:executed", 2),
        Does(Speech(dora, 2, 2, Nobody)), [op |-> "status", agent |-> carla],
        Logged("action:warned", 2), Tied(<<Tie(<<anna, bruno>>, 8), Tie(<<bruno, carla>>, 8)>>),
        Ticking(anna :> 9 @@ bruno :> 8 @@ carla :> 9), Does(Speech(carla, 3, 1, bruno))>>]
Studies == Drawn \cup {Story}

Reports == INSTANCE Reports WITH Threshold <- 3, Noticeable <- 2, ReplyWindow <- 3, Unit <- 12

(***************************************************************************)
(* Persons: two born without beliefs of their own, one of whom chats; one born     *)
(* with some, whose memory is short; one who rests for days; and one who reads     *)
(* and perceives while somebody writes.                                      *)
(***************************************************************************)
Updates(mood, beliefs) == [mood |-> mood, energy |-> {}, goals |-> {}, beliefs |-> beliefs]
Plainly(type) == [json |-> TRUE, type |-> type, update |-> <<>>]
Telling(beliefs) == [json |-> TRUE, type |-> "dance", update |-> <<Updates({}, beliefs)>>]
Babble == [Telling("k" :> "z") EXCEPT !.json = FALSE]
Rule(id, scope, p) == [id |-> id, scope |-> scope, priority |-> p]
Tired == [a \in Two |-> [energy |-> 20]]

Alike == [present |-> Two, born |-> [a \in Two |-> <<>>], profiles |-> {}, light |-> {},
    always |-> {}, needy |-> {}, iterations |-> 1, fatigue |-> anna :> 60 @@ bruno :> 0,
    perceives |-> FALSE, rules |-> <<Rule(1, "all", 3), Rule(2, "control", 1),
                                     Rule(1, "person", 2), Rule(3, "person", 1)>>,
    answers |-> {Telling("k" :> "x")}, updates |-> {Updates({"sad"}, "k" :> "y" @@ "j" :> "y")},
    until |-> 2, letters |-> 0, chats |-> 1]
Alone == [Alike EXCEPT !.present = {bruno}, !.updates = {}, !.answers = {Babble}]
Troupes == {Alike,
    [Alone EXCEPT !.born = anna :> <<>> @@ bruno :> [beliefs |-> "k" :> "b", energy |-> 20],
        !.light = {bruno}, !.profiles = {bruno}, !.always = {bruno}, !.until = 3,
        !.iterations = 2, !.answers = {Telling("j" :> "x"), Plainly("observe")}],
    [Alone EXCEPT !.born = Tired, !.until = 5],
    [Alone EXCEPT !.born = Tired, !.letters = 2, !.perceives = TRUE, !.iterations = 2]}

(***************************************************************************)
(* Persistence: rows of each table, in two worlds, while agents are erased,        *)
(* counted, digested, and give or take back their consent.                      *)
(***************************************************************************)
Saves(table, w, of) == [table |-> table, world |-> w, of |-> of]
Consent(a, status, id) == [id |-> id, world |-> w1, subject |-> a, status |-> status]
Archive == [saves |-> {}, writes |-> 2, erases |-> 1, usages |-> 0, digests |-> 0,
    consents |-> {}, erasing |-> {anna}, active |-> {w1}, latest |-> w1, until |-> 1]
Depots == {
    [Archive EXCEPT !.erases = 2, !.erasing = Two,
        !.saves = {Saves("conversations", w1, <<anna, bruno>>), Saves("audits", w1, <<bruno>>)}],
    [Archive EXCEPT !.active = {w1, w2}, !.latest = w2, !.saves = {Saves("configs", w1, <<anna>>),
        Saves("snapshots", w1, <<anna>>), Saves("snapshots", w2, <<anna>>)}],
    [Archive EXCEPT !.usages = 1,
        !.saves = {Saves("memories", w1, <<anna>>), Saves("conversations", w1, <<bruno, anna>>)}],
    [Archive EXCEPT !.saves = {Saves("memories", w1, <<anna>>)}, !.writes = 3, !.digests = 1],
    [Archive EXCEPT !.until = 2, !.writes = 3,
        !.consents = {Consent(anna, "accepted", 1), Consent(anna, "declined", 1),
                      Consent(bruno, "accepted", 1), Consent(anna, "declined", 2)}]}

-----------------------------------------------------------------------------
\* A part that rests has one of its worlds, and stays as it begins.
Only(p, world, worlds) == part = p \/ world = CHOOSE w \in worlds : TRUE

Init ==
    /\ part \in {"needs", "relationships", "places", "memory", "reports", "persons",
                "persistence"}
    /\ NeedsInit /\ Only("needs", config, Villages)
    /\ Relationships!Init /\ Only("relationships", scene, Scenes)
    /\ PlacesInit /\ Only("places", road, Streets)
    /\ MemoryInit /\ Only("memory", brain, Tempers)
    /\ Reports!Init /\ Only("reports", study, Studies)
    /\ PersonsInit /\ Only("persons", cast, Casts)
    /\ StoreInit /\ Only("persistence", archive, Archives)

tiesVars == <<scene, dusk, phase, ties, task, free, met, plan, cache, declared, dawn>>
reportsVars == <<study, step, graphStore, eventLog, timeline, allActions, graphSnapshots,
                 policyTrigger, collectors, known, report, stopping, lives, logged>>
society == <<needsVars, tiesVars, placesVars, memoryVars, reportsVars>>
people == <<personsVars, storeVars>>
vars == <<part, society, people>>

Next ==
    /\ UNCHANGED part
    /\ \/ /\ part = "needs" /\ NeedsNext
          /\ UNCHANGED <<tiesVars, placesVars, memoryVars, reportsVars, people>>
       \/ /\ part = "relationships" /\ Relationships!Next
          /\ UNCHANGED <<needsVars, placesVars, memoryVars, reportsVars, people>>
       \/ /\ part = "places" /\ PlacesNext
          /\ UNCHANGED <<needsVars, tiesVars, memoryVars, reportsVars, people>>
       \/ /\ part = "memory" /\ MemoryNext
          /\ UNCHANGED <<needsVars, tiesVars, placesVars, reportsVars, people>>
       \/ /\ part = "reports" /\ Reports!Next
          /\ UNCHANGED <<needsVars, tiesVars, placesVars, memoryVars, people>>
       \/ /\ part = "persons" /\ PersonsNext
          /\ UNCHANGED <<society, storeVars>>
       \/ /\ part = "persistence" /\ StoreNext
          /\ UNCHANGED <<society, personsVars>>

Spec == Init /\ [][Next]_vars

(***************************************************************************)
(* Properties: of the part that runs, each stated in its module (NeedsAreMet,      *)
(* PlacesAgree, MemoryIsKept, StoreIsTrue and PersonsAreThemselves are there).     *)
(***************************************************************************)
\* A tie is called mutual, or validated, only if each end has declared it at some time,
\* however declarations, testimonies and breaks interleave (RelationshipPlugin.ts:103-363).
\* The decay of a tick is charged to a tie once although both ends work on it (in Neo4j once
\* for each end), what is cut was faint or one too many, and the neighbours an agent is given
\* are tied to it now, although the list was made before (NeighborhoodManager.ts:56-215).
TiesAreTrue ==
    /\ Relationships!MutualNeedsBoth
    /\ Relationships!DecayIsFair
    /\ Relationships!NeighboursAreTied

\* Every report, live or final, adds up, and its analyses are what they are named for, by a
\* reference definition, on every graph of four agents (ReportGeneratorPlugin.ts:142-245,
\* NetworkAnalyzer.ts, DialogueAnalyzer.ts, ShockAnalyzer.ts).
ReportIsExact == Reports!ReportsAddUp /\ Reports!AnalysisIsExact
=============================================================================
