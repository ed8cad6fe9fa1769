------------------------------- MODULE Places -------------------------------
(***************************************************************************)
(* Where the agents are: the LocationIndex, the tools of the MovementPlugin  *)
(* with the policy they await, fixes that come from outside, and the venues  *)
(* and resources of the AssetPlugin over its in-memory store.               *)
(*                                                                         *)
(* The world is a road: a place is a number of km, and a cell of the grid is *)
(* CellSize of them, which leaves out that longitudes shrink with latitude.  *)
(***************************************************************************)
EXTENDS Integers, SequencesExt, FiniteSetsExt

CONSTANTS
    Agents, Venues, Stock,
    Roads,      \* worlds: [home, start: agent -> place or Nowhere; wishes: agent -> calls
                \* of tools; fixes: <<agent, place>> from outside; capacity: venue -> number or 0;
                \* quantity: resource -> number; vehicle: agents with one; until: ticks]
    CellSize, WalkingRadius, NearbyRadius, MaxHistory, Nowhere

\* What the model asks of a tool, and the worlds in which it is asked.
Wish == [tool : {"move_to_coordinates"}, to : Int] \cup [tool : {"move_to_home", "leave_venue"}]
        \cup [tool : {"move_toward_agent"}, to : Agents, stop : Nat]
        \cup [tool : {"go_to_venue"}, to : Venues]
        \cup [tool : {"use_resource"}, of : Stock, amount : Int]
SoundRoad(r) ==
    /\ r.home \in [Agents -> Nat \cup {Nowhere}] /\ r.start \in [Agents -> Nat \cup {Nowhere}]
    /\ r.wishes \in [Agents -> SUBSET Wish] /\ r.fixes \subseteq Agents \X Nat
    /\ r.vehicle \subseteq Agents /\ r.until \in Nat
    /\ r.capacity \in [Venues -> Nat] /\ r.quantity \in [Stock -> Nat]

\* No place is Nowhere; what is kept of a trail is its last record at least.
ASSUME RoadsAreSound ==
    /\ IsFiniteSet(Agents) /\ Nowhere \notin Int \cup Venues
    /\ CellSize \in Nat \ {0} /\ MaxHistory \in Nat \ {0} /\ {WalkingRadius, NearbyRadius} \subseteq Nat
    /\ \A r \in Roads : SoundRoad(r)

VARIABLES
    road, now,
    locations,   \* agent -> place, if it has one
    agentCells,  \* agent -> cell
    grid,        \* cell -> agents in it
    trail,       \* agent -> movement records
    pendingFixes,
    visitors,    \* venue -> agents in it
    agentVenues, \* agent -> venues
    quantity,    \* resource -> what is left
    errand,      \* agent -> the tool call it is in
    wishes,      \* calls an agent has still to make
    fixesLeft,
    \* history:
    jumped,      \* agents whose place changed under a call that moves them
    spent,       \* resource -> what the agents were told they have consumed
    raced        \* resources that two agents used at the same time

placesVars == <<road, now, locations, agentCells, grid, trail, pendingFixes, visitors, agentVenues,
          quantity, errand, wishes, fixesLeft, jumped, spent, raced>>
mapVars == <<locations, agentCells, grid, trail, pendingFixes, jumped>>
assetVars == <<visitors, agentVenues, quantity, spent, raced>>

Idle == [tool |-> "none"]
At(a) == IF a \in DOMAIN locations THEN locations[a] ELSE Nowhere
Km(p, q) == IF p > q THEN p - q ELSE q - p
CellOf(p) == p \div CellSize

(***************************************************************************)
(* LocationIndex.                                                          *)
(***************************************************************************)
\* *Fault*: the new cell overwrites the entry of the agent before the old one is left
MovedTooLate(a, p) ==
    [c \in DOMAIN grid \cup {CellOf(p)} |->
        (IF c \in DOMAIN grid THEN grid[c] ELSE {}) \cup (IF c = CellOf(p) THEN {a} ELSE {})]

\* update: out of the old cell, which is deleted when it is empty, into the new one
Moved(a, p) ==
    LET new == CellOf(p)
        gone == IF a \in DOMAIN agentCells /\ agentCells[a] # new THEN {agentCells[a]} ELSE {}
        left == [c \in DOMAIN grid |-> IF c \in gone THEN grid[c] \ {a} ELSE grid[c]]
        cells == {c \in DOMAIN grid : left[c] # {}} \cup {new}
    IN  [c \in cells |-> IF c # new THEN left[c]
                         ELSE (IF c \in DOMAIN grid THEN left[c] ELSE {}) \cup {a}]

\* findNearby: candidates from the cells around, then the exact distance
FindNearby(a, radius) ==
    IF a \notin DOMAIN locations THEN {}
    ELSE LET reach == (radius + CellSize - 1) \div CellSize
             around == {c \in DOMAIN grid : Km(c, CellOf(locations[a])) <= reach}
         IN  {f \in around \X Agents :
                 f[2] \in grid[f[1]] \ {a} /\ Km(locations[a], locations[f[2]]) <= radius}

Put(f, a, v) == [b \in DOMAIN f \cup {a} |-> IF b = a THEN v ELSE f[b]]

\* recordMovement, with its ring buffer
Recorded(a, record) ==
    [trail EXCEPT ![a] = LET records == Append(trail[a], record)
                         IN  SubSeq(records, Max({1, Len(records) - MaxHistory + 1}), Len(records))]

PlacesInit ==
    /\ road \in Roads /\ now = 0
    /\ locations = [a \in {b \in Agents : road.start[b] # Nowhere} |-> road.start[a]]
    /\ agentCells = [a \in DOMAIN locations |-> CellOf(locations[a])]
    /\ grid = [c \in {agentCells[a] : a \in DOMAIN locations} |->
                  {a \in DOMAIN locations : agentCells[a] = c}]
    /\ trail = [a \in Agents |-> <<>>] /\ pendingFixes = <<>>
    /\ visitors = [v \in Venues |-> {}] /\ agentVenues = [a \in Agents |-> {}]
    /\ quantity = road.quantity
    /\ errand = [a \in Agents |-> Idle] /\ wishes = road.wishes /\ fixesLeft = road.fixes
    /\ jumped = {} /\ spent = [r \in Stock |-> 0] /\ raced = {}

(***************************************************************************)
(* The tools that move.                                                    *)
(***************************************************************************)
\* where a call leads, or Nowhere when it is refused before the policy is asked
Destination(a, wish) ==
    CASE wish.tool = "move_to_coordinates" -> IF wish.to >= 0 THEN wish.to ELSE Nowhere
      [] wish.tool = "move_to_home" -> road.home[a]
      [] wish.tool = "move_toward_agent" ->
            LET there == At(wish.to)
                here == At(a)
            IN  IF there = Nowhere THEN Nowhere
                ELSE IF wish.stop = 0 \/ here = Nowhere THEN there
                ELSE IF Km(here, there) <= wish.stop THEN Nowhere
                ELSE IF here < there THEN there - wish.stop ELSE there + wish.stop

Moves == {"move_to_coordinates", "move_to_home", "move_toward_agent"}

\* the tool up to its await of the policy: the old place and the goal are fixed
BeginMove(a) ==
    /\ errand[a] = Idle
    /\ \E wish \in wishes[a] :
          /\ wish.tool \in Moves
          /\ wishes' = [wishes EXCEPT ![a] = @ \ {wish}]
          /\ errand' = [errand EXCEPT ![a] =
                IF Destination(a, wish) = Nowhere THEN Idle
                ELSE [tool |-> "move", old |-> At(a), new |-> Destination(a, wish)]]
    /\ UNCHANGED <<road, now, mapVars, assetVars, fixesLeft>>

\* defaultMovementPolicy: a first placement, a walk, or a vehicle of one's own or the household
Allowed(a, old, new) ==
    \/ old = Nowhere
    \/ Km(old, new) <= WalkingRadius
    \/ a \in road.vehicle

Mode(a, old, new) ==
    IF old = Nowhere \/ Km(old, new) <= WalkingRadius THEN "walking" ELSE "driving"

EndMove(a) ==
    /\ errand[a].tool = "move"
    /\ LET old == errand[a].old
           new == errand[a].new
       IN  IF ~Allowed(a, old, new) THEN UNCHANGED <<locations, agentCells, grid, trail>>
           ELSE /\ locations' = Put(locations, a, new)
                /\ agentCells' = Put(agentCells, a, CellOf(new))
                /\ grid' = Moved(a, new)
                /\ trail' = Recorded(a, [from |-> old, to |-> new, tick |-> now,
                                         source |-> "agent_tool", mode |-> Mode(a, old, new)])
    /\ errand' = [errand EXCEPT ![a] = Idle]
    /\ UNCHANGED <<road, now, pendingFixes, assetVars, wishes, fixesLeft, jumped>>

\* updateRealPosition, at any moment
Fix ==
    /\ \E fix \in fixesLeft :
          LET a == fix[1]
              p == fix[2]
          IN  /\ locations' = Put(locations, a, p)
              /\ agentCells' = Put(agentCells, a, CellOf(p))
              /\ grid' = Moved(a, p)
              /\ trail' = Recorded(a, [from |-> At(a), to |-> p, tick |-> -1,
                                       source |-> "external_gps", mode |-> "none"])
              /\ pendingFixes' = Append(pendingFixes, a)
              /\ fixesLeft' = fixesLeft \ {fix}
              /\ jumped' = IF errand[a].tool = "move" THEN jumped \cup {a} ELSE jumped
    /\ UNCHANGED <<road, now, assetVars, errand, wishes>>

\* *Fault*: a fix keeps the tick it was recorded with
Undated(a) == trail[a]
\* onWorldTick: only the latest record of the agent is given the tick
Dated(a) ==
    [i \in DOMAIN trail[a] |->
        IF i = Len(trail[a]) /\ a \in ToSet(pendingFixes) /\ trail[a][i].tick = -1
        THEN [trail[a][i] EXCEPT !.tick = now + 1] ELSE trail[a][i]]

\* the tools of a tick have returned when the next one begins
WorldTick ==
    /\ now < road.until /\ \A a \in Agents : errand[a] = Idle
    /\ now' = now + 1
    /\ trail' = [a \in Agents |-> Dated(a)]
    /\ pendingFixes' = <<>>
    /\ UNCHANGED <<road, locations, agentCells, grid, assetVars, errand, wishes, fixesLeft, jumped>>

(***************************************************************************)
(* Venues and resources.                                                   *)
(***************************************************************************)
\* *Fault*: only the index of the agents is told
Stayed(a) == visitors
\* leaveAllVenues
Left(a) == [v \in Venues |-> IF v \in agentVenues[a] THEN visitors[v] \ {a} ELSE visitors[v]]

\* A capacity of 0 is none.
Full(v) == road.capacity[v] > 0 /\ Cardinality(visitors[v]) >= road.capacity[v]

\* go_to_venue: the capacity is checked before the agent leaves where it is
Enter(a) ==
    /\ errand[a] = Idle
    /\ \E wish \in wishes[a] :
          /\ wish.tool = "go_to_venue"
          /\ wishes' = [wishes EXCEPT ![a] = @ \ {wish}]
          /\ errand' = [errand EXCEPT ![a] =
                IF Full(wish.to) THEN Idle
                ELSE [tool |-> "leaving", to |-> wish.to]]
    /\ UNCHANGED <<road, now, mapVars, assetVars, fixesLeft>>

Leave(a) ==
    /\ errand[a].tool = "leaving"
    /\ visitors' = Left(a) /\ agentVenues' = [agentVenues EXCEPT ![a] = {}]
    /\ errand' = [errand EXCEPT ![a] = IF errand[a].to = Nowhere THEN Idle
                                       ELSE [tool |-> "entering", to |-> errand[a].to]]
    /\ UNCHANGED <<road, now, mapVars, quantity, spent, raced, wishes, fixesLeft>>

Arrive(a) ==
    /\ errand[a].tool = "entering"
    /\ LET v == errand[a].to
       IN  /\ visitors' = [visitors EXCEPT ![v] = @ \cup {a}]
           /\ agentVenues' = [agentVenues EXCEPT ![a] = @ \cup {v}]
    /\ errand' = [errand EXCEPT ![a] = Idle]
    /\ UNCHANGED <<road, now, mapVars, quantity, spent, raced, wishes, fixesLeft>>

\* leave_venue looks where the agent is first
SetOut(a) ==
    /\ errand[a] = Idle
    /\ \E wish \in wishes[a] :
          /\ wish.tool = "leave_venue"
          /\ wishes' = [wishes EXCEPT ![a] = @ \ {wish}]
          /\ errand' = [errand EXCEPT ![a] = IF agentVenues[a] = {} THEN Idle
                                             ELSE [tool |-> "leaving", to |-> Nowhere]]
    /\ UNCHANGED <<road, now, mapVars, assetVars, fixesLeft>>

\* use_resource up to the await: anybody may use anything there is enough of
Using(r) == {a \in Agents : errand[a].tool = "using" /\ errand[a].of = r}
Reach(a) ==
    /\ errand[a] = Idle
    /\ \E wish \in wishes[a] :
          /\ wish.tool = "use_resource"
          /\ wishes' = [wishes EXCEPT ![a] = @ \ {wish}]
          /\ errand' = [errand EXCEPT ![a] = IF quantity[wish.of] < wish.amount THEN Idle
                           ELSE [tool |-> "using", of |-> wish.of, amount |-> wish.amount]]
          /\ raced' = IF Using(wish.of) # {} THEN raced \cup {wish.of} ELSE raced
    /\ UNCHANGED <<road, now, mapVars, visitors, agentVenues, quantity, spent, fixesLeft>>

\* consumeResource never goes below zero, yet the agent is told it got its amount
Consume(a) ==
    /\ errand[a].tool = "using"
    /\ LET r == errand[a].of
       IN  /\ quantity' = [quantity EXCEPT ![r] = Max({0, @ - errand[a].amount})]
           /\ spent' = [spent EXCEPT ![r] = @ + errand[a].amount]
    /\ errand' = [errand EXCEPT ![a] = Idle]
    /\ UNCHANGED <<road, now, mapVars, visitors, agentVenues, raced, wishes, fixesLeft>>

PlacesNext ==
    \/ Fix \/ WorldTick
    \/ \E a \in Agents :
          \/ BeginMove(a) \/ EndMove(a) \/ Enter(a) \/ Leave(a) \/ Arrive(a) \/ SetOut(a)
          \/ Reach(a) \/ Consume(a)

PlacesSpec == PlacesInit /\ [][PlacesNext]_placesVars

(***************************************************************************)
(* Properties.                                                             *)
(***************************************************************************)
\* The grid finds an agent within the radius once, and nobody else, after any
\* sequence of moves and fixes; no empty cell is left behind.
NearbyIsExact ==
    /\ \A a \in DOMAIN locations :
          LET near == {b \in DOMAIN locations \ {a} : Km(locations[a], locations[b]) <= NearbyRadius}
          IN  /\ {f[2] : f \in FindNearby(a, NearbyRadius)} = near
              /\ Cardinality(FindNearby(a, NearbyRadius)) = Cardinality(near)
    /\ \A c \in DOMAIN grid : grid[c] # {}

\* A move starts where the one before it ended and ends where the agent is, unless a fix
\* ever came while its policy was asked; once a tick has begun, the latest fix of an agent is dated.
TrailIsContinuous ==
    \A a \in Agents :
       /\ a \notin jumped =>
            \A i \in 1..(Len(trail[a]) - 1) :
               trail[a][i].to = trail[a][i + 1].from
       /\ trail[a] # <<>> =>
            /\ Last(trail[a]).to = At(a)
            /\ Last(trail[a]).tick = -1 => a \in ToSet(pendingFixes)

\* An agent is in one venue at most, the venues and the index of the agents agree; what the
\* agents were told they consumed is what is missing, unless two used a resource at once.
AssetsAddUp ==
    /\ \A a \in Agents :
          /\ agentVenues[a] = {v \in Venues : a \in visitors[v]}
          /\ Cardinality(agentVenues[a]) <= 1
    /\ \A r \in Stock \ raced : quantity[r] + spent[r] = road.quantity[r]

\* The grid finds exactly who is within the radius, after any moves and fixes; each move of
\* a trail starts where the last one ended, unless a fix came while its policy was asked, and
\* the fixes of a tick are dated (LocationIndex.ts:32-124, MovementPlugin.ts:389-467).  An
\* agent is in one venue at most, visitors and index agree, and what agents were told they
\* consumed is what is missing, unless two used a resource at once
\* (AssetPlugin.ts:137-258, InMemoryAssetStore.ts).
PlacesAgree == NearbyIsExact /\ TrailIsContinuous /\ AssetsAddUp
=============================================================================
