-------------------------------- MODULE Studio ---------------------------------
(***************************************************************************)
(* The studio: the worlds and runs it keeps (src/studio/MultiWorldRegistry.ts),  *)
(* the scenarios it starts and the engines it listens to (StudioServer.ts), the   *)
(* analyses it asks for (api/reportApi.ts) and the dashboard of a browser, whose   *)
(* requests are answered out of order (ui/app.js).                               *)
(***************************************************************************)
EXTENDS Integers, SequencesExt, FiniteSetsExt

CONSTANTS
    Desks,     \* [host: the world the studio was made with; scenarios: worlds to start, in
               \* order; until: ticks of a world; picks: selections of the user; asks: analyses]
    WireSize   \* messages on the socket at a time: a bound

Worlds == UNION {{d.host} \cup ToSet(d.scenarios) : d \in Desks}
DeskType == [host : Worlds, scenarios : Seq(Worlds), until : Nat, picks : Nat, asks : Nat]
ASSUME DesksAreSound == Desks \subseteq DeskType

VARIABLES
    desk,
    engines,   \* [world, status, tick, acts: two a tick] in the order they were loaded; the first is the host's
    worlds,    \* the Map of active worlds: runs in order of insertion, one per world
    runs,      \* [world, status, tick, final, analysis]: run i is of engine i
    asked,     \* analyses under way: [run, acts, ended]
    shown,     \* the dashboard: [world, tick, agents]
    selected, requests, wire,
    \* history:
    reused,    \* runs under a world id that was registered again while one of it was going
    crossed    \* an answer arrived after another selection, or spoke of another world

studioVars == <<desk, engines, worlds, runs, asked, shown, selected, requests, wire, reused, crossed>>

NewEngine(w) == [world |-> w, status |-> "running", tick |-> 0, acts |-> 0]
NewRun(w) == [world |-> w, status |-> "running", tick |-> 0, final |-> -1, analysis |-> <<>>]

\* The host's engine, and a dashboard that has had its first snapshot.
StudioInit ==
    /\ desk \in Desks
    /\ engines = <<NewEngine(desk.host)>> /\ runs = <<NewRun(desk.host)>> /\ worlds = <<1>>
    /\ asked = {} /\ requests = {} /\ wire = <<>>
    /\ selected = desk.host
    /\ shown = [world |-> desk.host, tick |-> 0, agents |-> desk.host]
    /\ reused = {} /\ crossed = FALSE

Active(w) == {r \in ToSet(worlds) : runs[r].world = w}
GetEngine(w) == IF Active(w) # {} THEN CHOOSE r \in Active(w) : TRUE ELSE Len(engines)
Post(m) == wire' = Append(wire, m)
Quiet == UNCHANGED <<asked, shown, selected, requests, crossed>>

(***************************************************************************)
(* The registry and the engines it follows.                                  *)
(***************************************************************************)
\* Map.set: in the place of the world's earlier run, if it is still there.
Registered(w, r) ==
    IF Active(w) = {} THEN Append(worlds, r)
    ELSE [i \in DOMAIN worlds |-> IF runs[worlds[i]].world = w THEN r ELSE worlds[i]]

\* the runs that still go under a world id
Rivals(w) == Active(w) \cup {e \in DOMAIN engines : engines[e].world = w /\ engines[e].status = "running"}

StartScenario ==
    /\ Len(engines) <= Len(desk.scenarios)
    /\ LET w == desk.scenarios[Len(engines)]
           r == Len(runs) + 1
       IN  /\ engines' = Append(engines, NewEngine(w)) /\ runs' = Append(runs, NewRun(w))
           /\ worlds' = Registered(w, r)
           /\ reused' = IF Rivals(w) = {} THEN reused ELSE reused \cup {r} \cup Rivals(w)
    /\ UNCHANGED <<desk, wire>> /\ Quiet

\* The engine's tick event: the tick of the world's run, and a message to the browsers.
EngineTick(e) ==
    /\ engines[e].status = "running" /\ engines[e].tick < desk.until /\ Len(wire) < WireSize
    /\ engines' = [engines EXCEPT ![e].tick = @ + 1, ![e].acts = @ + 2]
    /\ runs' = [r \in DOMAIN runs |->
          IF r \in Active(engines[e].world) THEN [runs[r] EXCEPT !.tick = engines[e].tick + 1]
          ELSE runs[r]]
    /\ Post([kind |-> "tick", world |-> engines[e].world, tick |-> engines[e].tick + 1])
    /\ UNCHANGED <<desk, worlds, reused>> /\ Quiet

\* *Fault*: the first active world is stopped, whichever ended.
FirstActive(w) == ToSet(SubSeq(worlds, 1, 1))
ToStop(w) == Active(w)

\* Map.delete
Without(ends) ==
    IF \E i \in DOMAIN worlds : worlds[i] \in ends
    THEN RemoveAt(worlds, CHOOSE i \in DOMAIN worlds : worlds[i] \in ends)
    ELSE worlds

\* start() of a scenario resolves: stopWorld, with the final report of the run.  The end of
\* the host's world is announced, not registered.
EngineEnds(e) ==
    /\ engines[e].status = "running" /\ engines[e].tick > 0
    /\ engines' = [engines EXCEPT ![e].status = "stopped"]
    /\ LET ends == IF e = 1 THEN {} ELSE ToStop(engines[e].world)
       IN  /\ runs' = [r \in DOMAIN runs |->
                 IF r \notin ends THEN runs[r]
                 ELSE [runs[r] EXCEPT !.status = "stopped", !.tick = engines[r].tick,
                                      !.final = engines[r].acts]]
           /\ worlds' = Without(ends)
    /\ UNCHANGED <<desk, wire, reused>> /\ Quiet

\* start() rejects: the error is logged.
EngineFails(e) ==
    /\ e > 1 /\ engines[e].status = "running"
    /\ engines' = [engines EXCEPT ![e].status = "failed"]
    /\ UNCHANGED <<desk, worlds, runs, wire, reused>> /\ Quiet

(***************************************************************************)
(* Topics and narrative of a run: asked of a model, kept with the run.         *)
(***************************************************************************)
RunReport(r) == IF runs[r].final >= 0 THEN runs[r].final ELSE engines[r].acts

Ask(r, forced) ==
    /\ Cardinality(asked) < desk.asks
    /\ runs[r].analysis = <<>> \/ forced
    /\ asked' = asked \cup {[run |-> r, acts |-> RunReport(r), ended |-> runs[r].status = "stopped"]}
    /\ UNCHANGED <<desk, engines, worlds, runs, shown, selected, requests, wire, reused, crossed>>

Analysed(x) ==
    /\ asked' = asked \ {x}
    /\ runs' = [runs EXCEPT ![x.run].analysis = <<x.acts, x.ended>>]
    /\ UNCHANGED <<desk, engines, worlds, shown, selected, requests, wire, reused, crossed>>

(***************************************************************************)
(* The dashboard.                                                           *)
(***************************************************************************)
Select(w) ==
    /\ desk.picks > 0 /\ w # selected
    /\ desk' = [desk EXCEPT !.picks = @ - 1]
    /\ selected' = w
    /\ requests' = requests \cup {[kind |-> k, world |-> w, data |-> <<>>] : k \in {"world", "agents"}}
    /\ UNCHANGED <<engines, worlds, runs, asked, shown, wire, reused, crossed>>

\* A world that is not active is answered with the latest engine's.
Serve(q) ==
    /\ q.data = <<>>
    /\ LET e == GetEngine(q.world)
       IN  requests' = (requests \ {q})
              \cup {[q EXCEPT !.data = <<[world |-> engines[e].world, tick |-> engines[e].tick]>>]}
    /\ UNCHANGED <<desk, engines, worlds, runs, asked, shown, selected, wire, reused, crossed>>

\* loadWorld and loadAgents: an answer is shown whatever is selected by then.
Answered(q) ==
    /\ q.data # <<>> /\ requests' = requests \ {q}
    /\ shown' = IF q.kind = "agents" THEN [shown EXCEPT !.agents = q.data[1].world]
                ELSE [shown EXCEPT !.world = q.data[1].world, !.tick = q.data[1].tick]
    /\ crossed' = (crossed \/ q.data[1].world # selected)
    /\ UNCHANGED <<desk, engines, worlds, runs, asked, selected, wire, reused>>

\* request:snapshot is answered with the first active world's.
RequestSnapshot ==
    /\ worlds # <<>> /\ Len(wire) < WireSize
    /\ Post([kind |-> "snapshot", world |-> engines[Head(worlds)].world,
             tick |-> engines[Head(worlds)].tick])
    /\ UNCHANGED <<desk, engines, worlds, runs, reused>> /\ Quiet

\* *Fault*: messages of every world are shown.
EveryWorld(m) == TRUE
Concerns(m) == m.world = selected

Received ==
    /\ wire # <<>> /\ wire' = Tail(wire)
    /\ LET m == Head(wire)
       IN  shown' = IF ~Concerns(m) THEN shown
                    ELSE IF m.kind = "tick" THEN [shown EXCEPT !.tick = m.tick]
                    ELSE [world |-> m.world, tick |-> m.tick, agents |-> m.world]
    /\ UNCHANGED <<desk, engines, worlds, runs, asked, selected, requests, reused, crossed>>

StudioNext ==
    \/ StartScenario \/ RequestSnapshot \/ Received
    \/ \E e \in DOMAIN engines : EngineTick(e) \/ EngineEnds(e) \/ EngineFails(e)
    \/ \E r \in DOMAIN runs, forced \in BOOLEAN : Ask(r, forced)
    \/ \E x \in asked : Analysed(x)
    \/ \E r \in DOMAIN runs : Select(runs[r].world)
    \/ \E q \in requests : Serve(q) \/ Answered(q)

StudioSpec == StudioInit /\ [][StudioNext]_studioVars

\* A scenario's run is stopped exactly when its own world ended, with the report and the
\* tick it ended with, and is active until then; an analysis asked for after the end is one
\* of the final report, however many were under way; unless its world id was registered
\* again (MultiWorldRegistry.ts:56-65, StudioServer.ts:181-188, reportApi.ts:112-178).
RunsAreAccountedFor ==
    \A r \in DOMAIN runs \ ({1} \cup reused) :
        /\ runs[r].status = "stopped" <=> engines[r].status = "stopped"
        /\ runs[r].tick = engines[r].tick
        /\ r \in ToSet(worlds) <=> runs[r].status = "running"
        /\ runs[r].status = "stopped" => runs[r].final = engines[r].acts
        /\ runs[r].analysis # <<>> /\ runs[r].analysis[2] => runs[r].analysis[1] = runs[r].final

\* Once its requests are answered, the dashboard shows the world that is selected, its
\* agents, and a tick that world has reached - unless an answer arrived after another
\* selection or was of another world, as an ended world's is (ui/app.js:65-84, 171-187).
ShownIsSelected ==
    requests = {} /\ ~crossed =>
        /\ shown.world = selected /\ shown.agents = selected
        /\ \E e \in DOMAIN engines : engines[e].world = selected /\ shown.tick <= engines[e].tick

\* What the studio keeps of its runs and shows of its worlds (studio/StudioServer.ts:53-224).
StudioIsTrue == RunsAreAccountedFor /\ ShownIsSelected
=============================================================================
