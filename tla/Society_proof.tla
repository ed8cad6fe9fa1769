----------------------------- MODULE Society_proof ------------------------------
(***************************************************************************)
(* Theorems about the places of a society (who is near whom, the trails of the *)
(* agents, the venues and the resources, for any agents, roads and wishes), about  *)
(* what the database keeps of it, for any rows, requests and interleavings,        *)
(* about who its persons are, for any births, letters, answers and rules, and      *)
(* about what its agents need, for any needs, deeds and hours of sleep.        *)
(***************************************************************************)
EXTENDS Needs, Places, Persistence, Persons, SequenceTheorems, FiniteSetTheorems, NaturalsInduction,
        WellFoundedInduction, TLAPS

-----------------------------------------------------------------------------
(***************************************************************************)
(* The inductive invariant.                                                *)
(***************************************************************************)
Spot == Nat \cup {Nowhere}
Record == [from : Spot, to : Nat, tick : Int, source : {"agent_tool", "external_gps"},
           mode : {"walking", "driving", "none"}]
Errand == [tool : {"none"}] \cup [tool : {"move"}, old : Spot, new : Nat]
          \cup [tool : {"leaving"}, to : Venues \cup {Nowhere}] \cup [tool : {"entering"}, to : Venues]
          \cup [tool : {"using"}, of : Stock, amount : Int]

MapTypes == DOMAIN locations \subseteq Agents /\ \A a \in DOMAIN locations : locations[a] \in Nat
TrailTypes == trail \in [Agents -> Seq(Record)] /\ pendingFixes \in Seq(Agents) /\ jumped \subseteq Agents
AssetTypes ==
    /\ visitors \in [Venues -> SUBSET Agents] /\ agentVenues \in [Agents -> SUBSET Venues]
    /\ quantity \in [Stock -> Nat] /\ spent \in [Stock -> Int] /\ raced \subseteq Stock
CallTypes ==
    /\ SoundRoad(road) /\ now \in Nat
    /\ errand \in [Agents -> Errand] /\ wishes \in [Agents -> SUBSET Wish]
    /\ fixesLeft \subseteq Agents \X Nat

\* The grid and the cells of the agents are those of the places.
MapIsTrue ==
    /\ agentCells = [a \in DOMAIN locations |-> CellOf(locations[a])]
    /\ grid = [c \in {CellOf(locations[a]) : a \in DOMAIN locations} |->
                  {a \in DOMAIN locations : CellOf(locations[a]) = c}]

\* A move under way starts where the agent is, unless a fix came.
MovesStartHere ==
    \A a \in Agents \ jumped : errand[a].tool = "move" => errand[a].old = At(a)

\* Who enters has left.
EnteringHasLeft == \A a \in Agents : errand[a].tool = "entering" => agentVenues[a] = {}

\* One uses a resource at a time, and there is enough.
UsesAreCovered ==
    \A r \in Stock \ raced :
        /\ \A a, b \in Using(r) : a = b
        /\ \A a \in Using(r) : errand[a].amount <= quantity[r]

PlacesInv ==
    /\ MapTypes /\ TrailTypes /\ AssetTypes /\ CallTypes /\ MapIsTrue
    /\ TrailIsContinuous /\ MovesStartHere
    /\ AssetsAddUp /\ EnteringHasLeft /\ UsesAreCovered

-----------------------------------------------------------------------------
(***************************************************************************)
(* The map.                                                                *)
(***************************************************************************)
LEMMA DivIs ==
    ASSUME NEW n \in Int, NEW c \in Nat \ {0}
    PROVE  n \div c \in Int /\ c * (n \div c) <= n /\ n < c * (n \div c) + c
<1>1. n \div c \in Int
    OBVIOUS
<1>2. c \in Int /\ c > 0
    OBVIOUS
<1>3. c * (n \div c) <= n /\ n < c * (n \div c) + c
    BY <1>2, SMTT(20)
<1>. QED
    BY <1>1, <1>3

\* Places within a radius are in cells that are no further apart than the cells it takes.
LEMMA CellsNear ==
    ASSUME NEW p \in Nat, NEW q \in Nat, NEW r \in Nat, Km(p, q) <= r
    PROVE  Km(CellOf(p), CellOf(q)) <= (r + CellSize - 1) \div CellSize
<1>. DEFINE c == CellSize
            i == p \div c
            j == q \div c
            k == (r + c - 1) \div c
<1>1. c \in Nat \ {0} /\ r + c - 1 \in Int
    BY RoadsAreSound
<1>2. i \in Int /\ c * i <= p /\ p < c * i + c
    BY <1>1, DivIs
<1>3. j \in Int /\ c * j <= q /\ q < c * j + c
    BY <1>1, DivIs
<1>4. k \in Int /\ c * k <= r + c - 1 /\ r + c - 1 < c * k + c
    BY <1>1, DivIs
<1>5. p - q <= r /\ q - p <= r
    BY DEF Km
<1>. HIDE DEF c, i, j, k
<1>7. i - j <= k
  <2>1. SUFFICES ASSUME i - j >= k + 1 PROVE FALSE
      BY <1>2, <1>3, <1>4
  <2>2. c * (i - j) >= c * (k + 1)
      BY <1>1, <1>2, <1>3, <1>4, <2>1
  <2>3. c * (i - j) = c * i - c * j /\ c * (k + 1) = c * k + c
      BY <1>1, <1>2, <1>3, <1>4
  <2>. QED
      BY <1>1, <1>2, <1>3, <1>4, <1>5, <2>2, <2>3
<1>8. j - i <= k
  <2>1. SUFFICES ASSUME j - i >= k + 1 PROVE FALSE
      BY <1>2, <1>3, <1>4
  <2>2. c * (j - i) >= c * (k + 1)
      BY <1>1, <1>2, <1>3, <1>4, <2>1
  <2>3. c * (j - i) = c * j - c * i /\ c * (k + 1) = c * k + c
      BY <1>1, <1>2, <1>3, <1>4
  <2>. QED
      BY <1>1, <1>2, <1>3, <1>4, <1>5, <2>2, <2>3
<1>. QED
    BY <1>2, <1>3, <1>7, <1>8 DEF Km, CellOf, c, i, j, k

\* Putting an agent at a place, in the index and in the grid.
LEMMA MapMoves ==
    ASSUME MapTypes, MapIsTrue, NEW a \in Agents, NEW p \in Nat,
           locations' = Put(locations, a, p), agentCells' = Put(agentCells, a, CellOf(p)),
           grid' = Moved(a, p)
    PROVE  /\ MapTypes' /\ MapIsTrue'
           /\ \A b \in Agents : At(b)' = IF b = a THEN p ELSE At(b)
<1>. DEFINE D == DOMAIN locations
            new == CellOf(p)
            gone == IF a \in DOMAIN agentCells /\ agentCells[a] # new THEN {agentCells[a]} ELSE {}
            left == [c \in DOMAIN grid |-> IF c \in gone THEN grid[c] \ {a} ELSE grid[c]]
            cells == {c \in DOMAIN grid : left[c] # {}} \cup {new}
            In(c) == {b \in D : CellOf(locations[b]) = c}
<1>1. /\ locations' = [b \in D \cup {a} |-> IF b = a THEN p ELSE locations[b]]
      /\ DOMAIN locations' = D \cup {a} /\ locations'[a] = p
      /\ \A b \in D : b # a => locations'[b] = locations[b]
    BY DEF Put
<1>2. MapTypes'
    BY <1>1 DEF MapTypes
<1>3. /\ DOMAIN agentCells = D /\ \A b \in D : agentCells[b] = CellOf(locations[b])
      /\ DOMAIN grid = {CellOf(locations[b]) : b \in D}
      /\ \A c \in DOMAIN grid : grid[c] = In(c)
    BY DEF MapIsTrue
<1>4. agentCells' = [b \in DOMAIN locations' |-> CellOf(locations'[b])]
    BY <1>1, <1>3 DEF Put
<1>5. grid' = [c \in cells |-> IF c # new THEN left[c]
                               ELSE (IF c \in DOMAIN grid THEN left[c] ELSE {}) \cup {a}]
    BY DEF Moved
<1>. HIDE DEF new
<1>6. ASSUME NEW c \in DOMAIN grid PROVE c # new => left[c] = In(c) \ {a}
    BY <1>3
<1>7. new \in DOMAIN grid => left[new] \cup {a} = In(new) \cup {a}
    BY <1>3
<1>8. new \notin DOMAIN grid => In(new) = {}
    BY <1>3
<1>9. \A b \in D \cup {a} : CellOf(locations'[b]) = IF b = a THEN new ELSE CellOf(locations[b])
    BY <1>1 DEF new
<1>. HIDE DEF left
<1>10. \A c : {b \in D \cup {a} : CellOf(locations'[b]) = c} =
                  IF c = new THEN In(new) \cup {a} ELSE In(c) \ {a}
  <2>. HIDE DEF D
  <2>1. ASSUME NEW c, c = new
        PROVE  {b \in D \cup {a} : CellOf(locations'[b]) = c} = In(new) \cup {a}
      BY <1>9, <2>1
  <2>2. ASSUME NEW c, c # new
        PROVE  {b \in D \cup {a} : CellOf(locations'[b]) = c} = In(c) \ {a}
      BY <1>9, <2>2
  <2>. QED
      BY <2>1, <2>2
<1>11. cells = {CellOf(locations'[b]) : b \in D \cup {a}}
  <2>1. ASSUME NEW c, c # new PROVE c \in cells <=> \E b \in D \cup {a} : CellOf(locations'[b]) = c
    <3>1. c \in cells <=> c \in DOMAIN grid /\ In(c) \ {a} # {}
        BY <1>6, <2>1
    <3>2. c \in DOMAIN grid <=> In(c) # {}
        BY <1>3
    <3>3. (\E b \in D \cup {a} : CellOf(locations'[b]) = c) <=> In(c) \ {a} # {}
        BY <1>10, <2>1
    <3>. QED
        BY <3>1, <3>2, <3>3
  <2>2. new \in cells /\ CellOf(locations'[a]) = new
      BY <1>9
  <2>. QED
      BY <2>1, <2>2
<1>12. \A c \in cells : grid'[c] = {b \in D \cup {a} : CellOf(locations'[b]) = c}
    BY <1>5, <1>6, <1>7, <1>8, <1>10
<1>13. MapIsTrue'
  <2>1. grid' = [c \in cells |-> {b \in D \cup {a} : CellOf(locations'[b]) = c}]
      BY <1>5, <1>12
  <2>. QED
      BY <1>1, <1>4, <1>11, <2>1 DEF MapIsTrue
<1>14. \A b \in Agents : At(b)' = IF b = a THEN p ELSE At(b)
    BY <1>1 DEF At
<1>. QED
    BY <1>2, <1>13, <1>14

\* What the grid answers is what is near, and each agent is found in one cell.
LEMMA MapAnswers ==
    ASSUME MapTypes, MapIsTrue
    PROVE  NearbyIsExact
<1>1. /\ DOMAIN grid = {CellOf(locations[b]) : b \in DOMAIN locations}
      /\ \A c \in DOMAIN grid : grid[c] = {b \in DOMAIN locations : CellOf(locations[b]) = c}
    BY DEF MapIsTrue
<1>2. \A c \in DOMAIN grid : grid[c] # {}
    BY <1>1
<1>3. ASSUME NEW a \in DOMAIN locations
      PROVE  LET near == {b \in DOMAIN locations \ {a} : Km(locations[a], locations[b]) <= NearbyRadius}
             IN  /\ {f[2] : f \in FindNearby(a, NearbyRadius)} = near
                 /\ Cardinality(FindNearby(a, NearbyRadius)) = Cardinality(near)
  <2>. DEFINE near == {b \in DOMAIN locations \ {a} : Km(locations[a], locations[b]) <= NearbyRadius}
              found == FindNearby(a, NearbyRadius)
              reach == (NearbyRadius + CellSize - 1) \div CellSize
              around == {c \in DOMAIN grid : Km(c, CellOf(locations[a])) <= reach}
  <2>1. found = {f \in around \X Agents :
                    f[2] \in grid[f[1]] \ {a} /\ Km(locations[a], locations[f[2]]) <= NearbyRadius}
      BY DEF FindNearby
  <2>2. \A b \in DOMAIN locations : b \in Agents /\ locations[b] \in Nat
      BY DEF MapTypes
  <2>3. ASSUME NEW b \in near PROVE <<CellOf(locations[b]), b>> \in found
    <3>1. Km(CellOf(locations[b]), CellOf(locations[a])) <= reach
      <4>1. locations[a] \in Nat /\ locations[b] \in Nat /\ NearbyRadius \in Nat
          BY <2>2, RoadsAreSound
      <4>2. Km(locations[b], locations[a]) <= NearbyRadius
          BY <4>1 DEF Km
      <4>. QED
          BY <4>1, <4>2, CellsNear
    <3>2. CellOf(locations[b]) \in around /\ b \in grid[CellOf(locations[b])] \ {a}
        BY <1>1, <3>1
    <3>. QED
        BY <2>1, <2>2, <3>2
  <2>4. ASSUME NEW f \in found PROVE f[2] \in near /\ f = <<CellOf(locations[f[2]]), f[2]>>
    <3>1. f \in around \X Agents /\ f[2] \in grid[f[1]] \ {a} /\ Km(locations[a], locations[f[2]]) <= NearbyRadius
        BY <2>1
    <3>2. f = <<f[1], f[2]>> /\ f[1] \in DOMAIN grid
        BY <3>1
    <3>3. f[2] \in DOMAIN locations /\ CellOf(locations[f[2]]) = f[1]
        BY <1>1, <3>1, <3>2
    <3>. QED
        BY <3>1, <3>2, <3>3
  <2>. HIDE DEF found, near
  <2>5. {f[2] : f \in found} = near
      BY <2>3, <2>4
  <2>6. IsFiniteSet(near)
      BY <2>2, RoadsAreSound, FS_Subset DEF near
  <2>7. Cardinality(found) = Cardinality(near)
    <3>. DEFINE g == [b \in near |-> <<CellOf(locations[b]), b>>]
    <3>1. g \in [near -> found]
        BY <2>3
    <3>2. IsInjective(g)
        BY DEF IsInjective
    <3>3. \A f \in found : \E b \in near : g[b] = f
        BY <2>4
    <3>4. g \in Bijection(near, found)
        BY <3>1, <3>2, <3>3 DEF Bijection, Injection, Surjection
    <3>. QED
        BY <2>6, <3>4, FS_Bijection DEF ExistsBijection
  <2>. QED
      BY <2>5, <2>7 DEF found, near
<1>. QED
    BY <1>2, <1>3 DEF NearbyIsExact

-----------------------------------------------------------------------------
(***************************************************************************)
(* The trails.                                                             *)
(***************************************************************************)
LEMMA LargerOf ==
    ASSUME NEW a \in Int, NEW b \in Int
    PROVE  Max({a, b}) = IF a >= b THEN a ELSE b
<1>1. \E n \in {a, b} : \A m \in {a, b} : n >= m
    OBVIOUS
<1>2. Max({a, b}) \in {a, b} /\ \A m \in {a, b} : Max({a, b}) >= m
    BY <1>1 DEF Max
<1>. QED
    BY <1>2

Continuous(s) == \A i \in 1..(Len(s) - 1) : s[i].to = s[i + 1].from

\* What is kept of a trail and a record that continues it ends with the record and continues.
LEMMA KeptRecords ==
    ASSUME NEW s \in Seq(Record), NEW record \in Record
    PROVE  LET recorded == Append(s, record)
               kept == SubSeq(recorded, Max({1, Len(recorded) - MaxHistory + 1}), Len(recorded))
           IN  /\ kept \in Seq(Record) /\ kept # <<>> /\ Last(kept) = record
               /\ Continuous(s) /\ (s # <<>> => Last(s).to = record.from) => Continuous(kept)
<1>. DEFINE recorded == Append(s, record)
            n == Len(s)
            first == Max({1, (n + 1) - MaxHistory + 1})
            kept == SubSeq(recorded, first, n + 1)
<1>1. /\ n \in Nat /\ recorded \in Seq(Record) /\ Len(recorded) = n + 1
      /\ \A i \in 1..n : recorded[i] = s[i]
      /\ recorded[n + 1] = record
    BY AppendProperties, LenProperties
<1>2. \A i \in 1..(n + 1) : recorded[i] \in Record
    BY <1>1, ElementOfSeq
<1>. HIDE DEF recorded, n
<1>3. first \in 1..(n + 1)
  <2>0. MaxHistory \in Nat \ {0}
      BY RoadsAreSound
  <2>1. 1 \in Int /\ (n + 1) - MaxHistory + 1 \in Int
      BY <1>1, <2>0
  <2>2. first = IF 1 >= (n + 1) - MaxHistory + 1 THEN 1 ELSE (n + 1) - MaxHistory + 1
      BY <2>1, LargerOf
  <2>. QED
      BY <1>1, <2>0, <2>2
<1>. HIDE DEF first
<1>4. first \in Int /\ n + 1 \in Int /\ \A i \in first..(n + 1) : recorded[i] \in Record
    BY <1>1, <1>2, <1>3
<1>5. /\ kept \in Seq(Record)
      /\ Len(kept) = IF first <= n + 1 THEN (n + 1) - first + 1 ELSE 0
      /\ \A i \in 1..((n + 1) - first + 1) : kept[i] = recorded[first + i - 1]
    BY <1>4, SubSeqProperties
<1>. HIDE DEF kept
<1>6. Len(kept) = (n + 1) - first + 1 /\ Len(kept) \in 1..(n + 1)
    BY <1>1, <1>3, <1>5
<1>7. kept # <<>>
    BY <1>5, <1>6, EmptySeq
<1>8. Last(kept) = record
  <2>1. kept[Len(kept)] = recorded[first + Len(kept) - 1] /\ first + Len(kept) - 1 = n + 1
      BY <1>1, <1>3, <1>5, <1>6
  <2>. QED
      BY <1>1, <2>1 DEF Last
<1>9. ASSUME Continuous(s), s # <<>> => Last(s).to = record.from
      PROVE  Continuous(kept)
  <2>1. ASSUME NEW i \in 1..(Len(kept) - 1) PROVE kept[i].to = kept[i + 1].from
    <3>. DEFINE j == first + i - 1
    <3>1. j \in 1..n /\ first + (i + 1) - 1 = j + 1 /\ i \in 1..Len(kept) /\ i + 1 \in 1..Len(kept)
        BY <1>1, <1>3, <1>6
    <3>2. kept[i] = recorded[j] /\ kept[i + 1] = recorded[j + 1]
        BY <1>5, <1>6, <3>1
    <3>. HIDE DEF j
    <3>3. CASE j = n
      <4>1. s # <<>> /\ recorded[j] = Last(s) /\ recorded[j + 1] = record
        <5>1. s # <<>>
            BY <1>1, <3>1, EmptySeq DEF n
        <5>2. recorded[j] = s[n] /\ recorded[j + 1] = record
            BY <1>1, <3>1, <3>3
        <5>. QED
            BY <5>1, <5>2 DEF Last, n
      <4>. QED
          BY <1>9, <3>2, <4>1
    <3>4. CASE j # n
      <4>1. j \in 1..(n - 1) /\ recorded[j] = s[j] /\ recorded[j + 1] = s[j + 1]
          BY <1>1, <3>1, <3>4
      <4>. QED
          BY <1>9, <3>2, <4>1 DEF Continuous, n
    <3>. QED
        BY <3>3, <3>4
  <2>. QED
      BY <2>1 DEF Continuous
<1>10. Len(recorded) = n + 1 /\ kept = SubSeq(recorded, Max({1, Len(recorded) - MaxHistory + 1}), Len(recorded))
    BY <1>1 DEF kept, first
<1>. QED
    BY <1>5, <1>7, <1>8, <1>9, <1>10 DEF recorded

LEMMA TrailGrows ==
    ASSUME TrailTypes, TrailIsContinuous, NEW a \in Agents, NEW record \in Record,
           trail' = Recorded(a, record), pendingFixes' \in Seq(Agents), jumped' \in SUBSET Agents,
           jumped \subseteq jumped', ToSet(pendingFixes) \subseteq ToSet(pendingFixes'),
           a \notin jumped' => record.from = At(a),
           record.tick = -1 => a \in ToSet(pendingFixes'),
           \A b \in Agents : At(b)' = IF b = a THEN record.to ELSE At(b)
    PROVE  TrailTypes' /\ TrailIsContinuous'
<1>. DEFINE recorded == Append(trail[a], record)
            kept == SubSeq(recorded, Max({1, Len(recorded) - MaxHistory + 1}), Len(recorded))
<1>1. trail \in [Agents -> Seq(Record)]
    BY DEF TrailTypes
<1>2. /\ kept \in Seq(Record) /\ kept # <<>> /\ Last(kept) = record
      /\ Continuous(trail[a]) /\ (trail[a] # <<>> => Last(trail[a]).to = record.from) => Continuous(kept)
    BY <1>1, KeptRecords
<1>3. trail' = [trail EXCEPT ![a] = kept]
    BY DEF Recorded
<1>. HIDE DEF kept
<1>4. trail' \in [Agents -> Seq(Record)] /\ trail'[a] = kept /\ \A b \in Agents : b # a => trail'[b] = trail[b]
    BY <1>1, <1>2, <1>3
<1>5. TrailTypes'
    BY <1>4 DEF TrailTypes
<1>6. ASSUME NEW b \in Agents
      PROVE  /\ b \notin jumped' => \A i \in 1..(Len(trail'[b]) - 1) : trail'[b][i].to = trail'[b][i + 1].from
             /\ trail'[b] # <<>> => /\ Last(trail'[b]).to = At(b)'
                                    /\ Last(trail'[b]).tick = -1 => b \in ToSet(pendingFixes')
  <2>1. CASE b = a
    <3>1. Last(trail'[a]) = record /\ At(a)' = record.to
        BY <1>2, <1>4
    <3>2. ASSUME a \notin jumped' PROVE Continuous(kept)
      <4>1. a \notin jumped /\ record.from = At(a)
          BY <3>2
      <4>2. Continuous(trail[a]) /\ (trail[a] # <<>> => Last(trail[a]).to = At(a))
          BY <4>1 DEF TrailIsContinuous, Continuous
      <4>. QED
          BY <1>2, <4>1, <4>2
    <3>. QED
        BY <1>4, <2>1, <3>1, <3>2 DEF Continuous
  <2>2. CASE b # a
    <3>1. trail'[b] = trail[b] /\ At(b)' = At(b)
        BY <1>4, <2>2
    <3>2. /\ b \notin jumped => \A i \in 1..(Len(trail[b]) - 1) : trail[b][i].to = trail[b][i + 1].from
          /\ trail[b] # <<>> => /\ Last(trail[b]).to = At(b)
                                /\ Last(trail[b]).tick = -1 => b \in ToSet(pendingFixes)
        BY DEF TrailIsContinuous
    <3>3. (b \notin jumped' => b \notin jumped) /\ (b \in ToSet(pendingFixes) => b \in ToSet(pendingFixes'))
        OBVIOUS
    <3>. QED
        BY <3>1, <3>2, <3>3
  <2>. QED
      BY <2>1, <2>2
<1>7. TrailIsContinuous'
    BY <1>6 DEF TrailIsContinuous
<1>. QED
    BY <1>5, <1>7

\* A tick dates the last record of an agent, where it has none, and nothing else.
LEMMA TrailIsDated ==
    ASSUME TrailTypes, TrailIsContinuous, now \in Nat,
           trail' = [a \in Agents |-> Dated(a)], pendingFixes' = <<>>, jumped' = jumped,
           \A b \in Agents : At(b)' = At(b)
    PROVE  TrailTypes' /\ TrailIsContinuous'
<1>1. trail \in [Agents -> Seq(Record)]
    BY DEF TrailTypes
<1>2. ASSUME NEW a \in Agents
      PROVE  /\ Dated(a) \in Seq(Record) /\ Len(Dated(a)) = Len(trail[a])
             /\ \A i \in 1..Len(trail[a]) :
                   /\ Dated(a)[i].to = trail[a][i].to /\ Dated(a)[i].from = trail[a][i].from
                   /\ i = Len(trail[a]) => Dated(a)[i].tick # -1
  <2>. DEFINE s == trail[a]
              n == Len(s)
  <2>1. s \in Seq(Record) /\ n \in Nat /\ DOMAIN s = 1..n /\ \A i \in 1..n : s[i] \in Record
      BY <1>1, LenProperties, ElementOfSeq
  <2>2. n > 0 => s # <<>> /\ Last(s) = s[n]
      BY <2>1, EmptySeq DEF Last
  <2>3. n > 0 => (s[n].tick = -1 => a \in ToSet(pendingFixes))
      BY <2>2 DEF TrailIsContinuous
  <2>4. Dated(a) = [i \in 1..n |-> IF i = n /\ a \in ToSet(pendingFixes) /\ s[i].tick = -1
                                  THEN [s[i] EXCEPT !.tick = now + 1] ELSE s[i]]
      BY <2>1 DEF Dated
  <2>. HIDE DEF s, n
  <2>5. ASSUME NEW i \in 1..n
        PROVE  /\ [s[i] EXCEPT !.tick = now + 1] \in Record
               /\ [s[i] EXCEPT !.tick = now + 1].to = s[i].to
               /\ [s[i] EXCEPT !.tick = now + 1].from = s[i].from
               /\ [s[i] EXCEPT !.tick = now + 1].tick = now + 1
    <3>1. s[i] \in Record /\ now + 1 \in Int
        BY <2>1
    <3>. QED
        BY <3>1 DEF Record
  <2>6. /\ \A i \in 1..n : /\ Dated(a)[i] \in Record
                          /\ Dated(a)[i].to = s[i].to /\ Dated(a)[i].from = s[i].from
      BY <2>1, <2>4, <2>5
  <2>7. \A i \in 1..n : i = n => Dated(a)[i].tick # -1
    <3>1. now + 1 # -1
        OBVIOUS
    <3>. QED
        BY <2>1, <2>3, <2>4, <2>5, <3>1
  <2>8. Dated(a) \in [1..n -> Record]
      BY <2>4, <2>6
  <2>9. Dated(a) \in Seq(Record) /\ Len(Dated(a)) = n
      BY <2>1, <2>8, SeqDef
  <2>. QED
      BY <2>6, <2>7, <2>9 DEF s, n
<1>3. \A a \in Agents : trail'[a] = Dated(a)
    OBVIOUS
<1>4. TrailTypes'
  <2>1. trail' \in [Agents -> Seq(Record)]
      BY <1>2
  <2>2. pendingFixes' \in Seq(Agents)
      BY EmptySeq
  <2>. QED
      BY <2>1, <2>2 DEF TrailTypes
<1>5. ASSUME NEW a \in Agents
      PROVE  /\ a \notin jumped' => \A i \in 1..(Len(trail'[a]) - 1) : trail'[a][i].to = trail'[a][i + 1].from
             /\ trail'[a] # <<>> => /\ Last(trail'[a]).to = At(a)'
                                    /\ Last(trail'[a]).tick = -1 => a \in ToSet(pendingFixes')
  <2>. DEFINE n == Len(trail[a])
  <2>1. /\ trail'[a] \in Seq(Record) /\ Len(trail'[a]) = n
        /\ \A i \in 1..n : /\ trail'[a][i].to = trail[a][i].to /\ trail'[a][i].from = trail[a][i].from
                           /\ i = n => trail'[a][i].tick # -1
      BY <1>2, <1>3
  <2>2. n \in Nat /\ trail[a] \in Seq(Record)
      BY <1>1, LenProperties
  <2>3. /\ a \notin jumped => \A i \in 1..(n - 1) : trail[a][i].to = trail[a][i + 1].from
        /\ trail[a] # <<>> => Last(trail[a]).to = At(a)
      BY DEF TrailIsContinuous
  <2>4. \A i \in 1..(n - 1) : i \in 1..n /\ i + 1 \in 1..n
      BY <2>2
  <2>5. (n # 0 <=> trail[a] # <<>>) /\ (n # 0 <=> trail'[a] # <<>>)
      BY <2>1, <2>2, EmptySeq
  <2>. HIDE DEF n
  <2>6. a \notin jumped' => \A i \in 1..(n - 1) : trail'[a][i].to = trail'[a][i + 1].from
      BY <2>1, <2>3, <2>4
  <2>7. ASSUME trail'[a] # <<>> PROVE Last(trail'[a]).to = At(a)' /\ Last(trail'[a]).tick # -1
    <3>1. n \in 1..n /\ Last(trail[a]).to = At(a) /\ At(a)' = At(a)
        BY <2>2, <2>3, <2>5, <2>7
    <3>2. Last(trail[a]) = trail[a][n] /\ Last(trail'[a]) = trail'[a][n]
        BY <2>1 DEF Last, n
    <3>. QED
        BY <2>1, <3>1, <3>2
  <2>. QED
      BY <2>1, <2>6, <2>7
<1>6. TrailIsContinuous'
    BY <1>5 DEF TrailIsContinuous
<1>. QED
    BY <1>4, <1>6

-----------------------------------------------------------------------------
(***************************************************************************)
(* What a step leaves alone.                                               *)
(***************************************************************************)
LEMMA MapStays ==
    ASSUME MapTypes, MapIsTrue, UNCHANGED <<locations, agentCells, grid>>
    PROVE  MapTypes' /\ MapIsTrue' /\ \A b \in Agents : At(b)' = At(b)
BY DEF MapTypes, MapIsTrue, At

LEMMA TrailStays ==
    ASSUME TrailTypes, TrailIsContinuous, UNCHANGED <<trail, pendingFixes, jumped>>,
           \A b \in Agents : At(b)' = At(b)
    PROVE  TrailTypes' /\ TrailIsContinuous'
<1>1. TrailTypes'
    BY DEF TrailTypes
<1>2. TrailIsContinuous'
    BY DEF TrailIsContinuous
<1>. QED
    BY <1>1, <1>2

LEMMA AssetsStay ==
    ASSUME AssetTypes, AssetsAddUp, UNCHANGED assetVars, road' = road
    PROVE  AssetTypes' /\ AssetsAddUp'
BY DEF AssetTypes, AssetsAddUp, assetVars

LEMMA ErrandIs ==
    ASSUME NEW e \in Errand
    PROVE  /\ e.tool = "move" => e.old \in Spot /\ e.new \in Nat
           /\ e.tool = "leaving" => e.to \in Venues \cup {Nowhere}
           /\ e.tool = "entering" => e.to \in Venues
           /\ e.tool = "using" => e.of \in Stock /\ e.amount \in Int
BY DEF Errand

LEMMA WishIs ==
    ASSUME NEW w \in Wish
    PROVE  /\ w.tool = "move_to_coordinates" => w.to \in Int
           /\ w.tool = "move_toward_agent" => w.to \in Agents /\ w.stop \in Nat
           /\ w.tool = "go_to_venue" => w.to \in Venues
           /\ w.tool = "use_resource" => w.of \in Stock /\ w.amount \in Int
BY DEF Wish

LEMMA IdleIs == Idle \in Errand /\ Idle.tool = "none"
BY DEF Idle, Errand

\* A call that begins: an agent sets out, from where it is, and nothing else changes.
LEMMA SettingOut ==
    ASSUME PlacesInv, NEW a \in Agents, NEW e \in Errand,
           errand' = [errand EXCEPT ![a] = e], wishes' \in [Agents -> SUBSET Wish],
           UNCHANGED <<road, now, mapVars, assetVars, fixesLeft>>,
           e.tool \notin {"using", "entering"}, e.tool = "move" => e.old = At(a)
    PROVE  PlacesInv'
<1>1. MapTypes' /\ MapIsTrue' /\ \A b \in Agents : At(b)' = At(b)
    BY MapStays DEF PlacesInv, mapVars
<1>2. TrailTypes' /\ TrailIsContinuous'
    BY <1>1, TrailStays DEF PlacesInv, mapVars
<1>3. AssetTypes' /\ AssetsAddUp'
    BY AssetsStay DEF PlacesInv
<1>4. errand \in [Agents -> Errand]
    BY DEF PlacesInv, CallTypes
<1>5. errand' \in [Agents -> Errand] /\ errand'[a] = e /\ \A b \in Agents : b # a => errand'[b] = errand[b]
    BY <1>4
<1>6. CallTypes'
    BY <1>5 DEF PlacesInv, CallTypes
<1>7. MovesStartHere'
  <2>1. ASSUME NEW b \in Agents, b \notin jumped', errand'[b].tool = "move" PROVE errand'[b].old = At(b)'
    <3>1. b \notin jumped
        BY <2>1 DEF mapVars
    <3>2. errand'[b].old = At(b)
        BY <1>5, <2>1, <3>1 DEF PlacesInv, MovesStartHere
    <3>. QED
        BY <1>1, <3>2
  <2>. QED
      BY <2>1 DEF MovesStartHere
<1>8. EnteringHasLeft'
    BY <1>5 DEF PlacesInv, EnteringHasLeft, assetVars
<1>9. UsesAreCovered'
  <2>1. raced' = raced /\ quantity' = quantity
      BY DEF assetVars
  <2>2. ASSUME NEW b \in Agents, errand'[b].tool = "using" PROVE b # a /\ errand'[b] = errand[b]
      BY <1>5, <2>2
  <2>3. ASSUME NEW r \in Stock PROVE \A b \in Using(r)' : b \in Using(r) /\ errand'[b] = errand[b]
      BY <2>2 DEF Using
  <2>. QED
      BY <2>1, <2>3 DEF PlacesInv, UsesAreCovered
<1>. QED
    BY <1>1, <1>2, <1>3, <1>6, <1>7, <1>8, <1>9 DEF PlacesInv

-----------------------------------------------------------------------------
(***************************************************************************)
(* The steps.                                                              *)
(***************************************************************************)
LEMMA PlaceOf ==
    ASSUME MapTypes, NEW a
    PROVE  At(a) \in Spot
BY DEF MapTypes, At, Spot

LEMMA DestinationIs ==
    ASSUME PlacesInv, NEW a \in Agents, NEW w \in Wish, w.tool \in Moves, Destination(a, w) # Nowhere
    PROVE  Destination(a, w) \in Nat
<1>1. At(a) \in Spot /\ Nowhere \notin Int
    BY PlaceOf, RoadsAreSound DEF PlacesInv
<1>2. CASE w.tool = "move_to_coordinates"
  <2>1. Destination(a, w) = IF w.to >= 0 THEN w.to ELSE Nowhere
      BY <1>2 DEF Destination
  <2>. QED
      BY <1>2, <2>1, WishIs
<1>3. CASE w.tool = "move_to_home"
  <2>1. Destination(a, w) = road.home[a]
      BY <1>3 DEF Destination
  <2>2. road.home[a] \in Nat \cup {Nowhere}
      BY DEF PlacesInv, CallTypes, SoundRoad
  <2>. QED
      BY <2>1, <2>2
<1>4. CASE w.tool = "move_toward_agent"
  <2>. DEFINE there == At(w.to)
              here == At(a)
  <2>1. Destination(a, w) = IF there = Nowhere THEN Nowhere
                            ELSE IF w.stop = 0 \/ here = Nowhere THEN there
                            ELSE IF Km(here, there) <= w.stop THEN Nowhere
                            ELSE IF here < there THEN there - w.stop ELSE there + w.stop
      BY <1>4 DEF Destination
  <2>2. there \in Spot /\ w.stop \in Nat
      BY <1>4, WishIs, PlaceOf DEF PlacesInv
  <2>. HIDE DEF there, here
  <2>3. there # Nowhere /\ there \in Nat
      BY <2>1, <2>2 DEF Spot
  <2>4. CASE w.stop = 0 \/ here = Nowhere
      BY <2>1, <2>3, <2>4
  <2>5. CASE ~(w.stop = 0 \/ here = Nowhere)
    <3>1. here \in Nat
        BY <1>1, <2>5 DEF Spot, here
    <3>2. ~(Km(here, there) <= w.stop)
        BY <2>1, <2>3, <2>5
    <3>3. here < there => there - w.stop \in Nat
        BY <2>2, <2>3, <3>1, <3>2 DEF Km
    <3>4. there + w.stop \in Nat
        BY <2>2, <2>3
    <3>. QED
        BY <2>1, <2>3, <2>5, <3>2, <3>3, <3>4
  <2>. QED
      BY <2>4, <2>5
<1>. QED
    BY <1>2, <1>3, <1>4 DEF Moves

LEMMA BeginMoveStep ==
    ASSUME PlacesInv, NEW a \in Agents, BeginMove(a)
    PROVE  PlacesInv'
<1>1. PICK w \in wishes[a] :
          /\ w.tool \in Moves
          /\ wishes' = [wishes EXCEPT ![a] = @ \ {w}]
          /\ errand' = [errand EXCEPT ![a] =
                IF Destination(a, w) = Nowhere THEN Idle
                ELSE [tool |-> "move", old |-> At(a), new |-> Destination(a, w)]]
    BY DEF BeginMove
<1>. DEFINE e == IF Destination(a, w) = Nowhere THEN Idle
                 ELSE [tool |-> "move", old |-> At(a), new |-> Destination(a, w)]
<1>2. wishes \in [Agents -> SUBSET Wish] /\ w \in Wish
    BY DEF PlacesInv, CallTypes
<1>3. wishes' \in [Agents -> SUBSET Wish]
    BY <1>1, <1>2
<1>4. Destination(a, w) # Nowhere => Destination(a, w) \in Nat
    BY <1>1, <1>2, DestinationIs
<1>5. At(a) \in Spot
    BY PlaceOf DEF PlacesInv
<1>6. e \in Errand /\ e.tool \notin {"using", "entering"} /\ (e.tool = "move" => e.old = At(a))
  <2>1. CASE Destination(a, w) = Nowhere
      BY <2>1, IdleIs
  <2>2. CASE Destination(a, w) # Nowhere
    <3>1. e = [tool |-> "move", old |-> At(a), new |-> Destination(a, w)]
        BY <2>2
    <3>. QED
        BY <1>4, <1>5, <2>2, <3>1 DEF Errand
  <2>. QED
      BY <2>1, <2>2
<1>7. errand' = [errand EXCEPT ![a] = e]
    BY <1>1
<1>. HIDE DEF e
<1>8. UNCHANGED <<road, now, mapVars, assetVars, fixesLeft>>
    BY DEF BeginMove
<1>. QED
    BY <1>3, <1>6, <1>7, <1>8, SettingOut

LEMMA EnterStep ==
    ASSUME PlacesInv, NEW a \in Agents, Enter(a)
    PROVE  PlacesInv'
<1>1. PICK w \in wishes[a] :
          /\ w.tool = "go_to_venue"
          /\ wishes' = [wishes EXCEPT ![a] = @ \ {w}]
          /\ errand' = [errand EXCEPT ![a] =
                IF Full(w.to) THEN Idle
                ELSE [tool |-> "leaving", to |-> w.to]]
    BY DEF Enter
<1>. DEFINE e == IF Full(w.to) THEN Idle
                 ELSE [tool |-> "leaving", to |-> w.to]
<1>2. wishes \in [Agents -> SUBSET Wish] /\ w \in Wish
    BY DEF PlacesInv, CallTypes
<1>3. wishes' \in [Agents -> SUBSET Wish]
    BY <1>1, <1>2
<1>4. w.to \in Venues
    BY <1>1, <1>2, WishIs
<1>5. [tool |-> "leaving", to |-> w.to] \in Errand
    BY <1>4 DEF Errand
<1>6. e \in Errand /\ e.tool \notin {"using", "entering", "move"}
    BY <1>5, IdleIs
<1>7. errand' = [errand EXCEPT ![a] = e]
    BY <1>1
<1>. HIDE DEF e
<1>8. UNCHANGED <<road, now, mapVars, assetVars, fixesLeft>>
    BY DEF Enter
<1>. QED
    BY <1>3, <1>6, <1>7, <1>8, SettingOut

LEMMA SetOutStep ==
    ASSUME PlacesInv, NEW a \in Agents, SetOut(a)
    PROVE  PlacesInv'
<1>1. PICK w \in wishes[a] :
          /\ wishes' = [wishes EXCEPT ![a] = @ \ {w}]
          /\ errand' = [errand EXCEPT ![a] = IF agentVenues[a] = {} THEN Idle
                                             ELSE [tool |-> "leaving", to |-> Nowhere]]
    BY DEF SetOut
<1>. DEFINE e == IF agentVenues[a] = {} THEN Idle ELSE [tool |-> "leaving", to |-> Nowhere]
<1>2. wishes \in [Agents -> SUBSET Wish] /\ w \in Wish
    BY DEF PlacesInv, CallTypes
<1>3. wishes' \in [Agents -> SUBSET Wish]
    BY <1>1, <1>2
<1>4. [tool |-> "leaving", to |-> Nowhere] \in Errand
    BY DEF Errand
<1>5. e \in Errand /\ e.tool \notin {"using", "entering", "move"}
    BY <1>4, IdleIs
<1>6. errand' = [errand EXCEPT ![a] = e]
    BY <1>1
<1>. HIDE DEF e
<1>7. UNCHANGED <<road, now, mapVars, assetVars, fixesLeft>>
    BY DEF SetOut
<1>. QED
    BY <1>3, <1>5, <1>6, <1>7, SettingOut

\* A call that ends: the agent is idle, and what it moved or used is counted elsewhere.
LEMMA Ending ==
    ASSUME errand \in [Agents -> Errand], NEW a \in Agents, errand' = [errand EXCEPT ![a] = Idle]
    PROVE  /\ errand' \in [Agents -> Errand] /\ errand'[a] = Idle
           /\ \A b \in Agents : b # a => errand'[b] = errand[b]
           /\ \A b \in Agents : errand'[b].tool # "none" => b # a /\ errand'[b] = errand[b]
BY IdleIs

LEMMA EndMoveStep ==
    ASSUME PlacesInv, NEW a \in Agents, EndMove(a)
    PROVE  PlacesInv'
<1>. DEFINE old == errand[a].old
            new == errand[a].new
            record == [from |-> old, to |-> new, tick |-> now, source |-> "agent_tool",
                       mode |-> Mode(a, old, new)]
<1>0. UNCHANGED <<road, now, pendingFixes, assetVars, wishes, fixesLeft, jumped>>
    BY DEF EndMove
<1>1. errand \in [Agents -> Errand] /\ errand[a].tool = "move" /\ errand' = [errand EXCEPT ![a] = Idle]
    BY DEF PlacesInv, CallTypes, EndMove
<1>2. old \in Spot /\ new \in Nat
    BY <1>1, ErrandIs
<1>3. record \in Record
  <2>1. Mode(a, old, new) \in {"walking", "driving", "none"} /\ now \in Int
      BY DEF Mode, PlacesInv, CallTypes
  <2>. HIDE DEF old, new
  <2>. QED
      BY <1>2, <2>1 DEF Record
<1>4. record.from = old /\ record.to = new /\ record.tick = now /\ now # -1
    BY DEF PlacesInv, CallTypes
<1>5. /\ MapTypes' /\ MapIsTrue' /\ TrailTypes' /\ TrailIsContinuous'
      /\ \A b \in Agents : b # a => At(b)' = At(b)
  <2>1. CASE UNCHANGED <<locations, agentCells, grid, trail>>
    <3>1. MapTypes' /\ MapIsTrue' /\ \A b \in Agents : At(b)' = At(b)
        BY <2>1, MapStays DEF PlacesInv
    <3>2. TrailTypes' /\ TrailIsContinuous'
        BY <1>0, <2>1, <3>1, TrailStays DEF PlacesInv
    <3>. QED
        BY <3>1, <3>2
  <2>2. CASE /\ locations' = Put(locations, a, new) /\ agentCells' = Put(agentCells, a, CellOf(new))
             /\ grid' = Moved(a, new) /\ trail' = Recorded(a, record)
    <3>. HIDE DEF new, old, record
    <3>1. MapTypes' /\ MapIsTrue' /\ \A b \in Agents : At(b)' = IF b = a THEN new ELSE At(b)
        BY <1>2, <2>2, MapMoves DEF PlacesInv
    <3>2. a \notin jumped' => record.from = At(a)
        BY <1>0, <1>1, <1>4 DEF PlacesInv, MovesStartHere, old
    <3>3. record.tick # -1
        BY <1>4
    <3>4. /\ pendingFixes' \in Seq(Agents) /\ jumped' \in SUBSET Agents
          /\ jumped \subseteq jumped' /\ ToSet(pendingFixes) \subseteq ToSet(pendingFixes')
        BY <1>0 DEF PlacesInv, TrailTypes
    <3>5. \A b \in Agents : At(b)' = IF b = a THEN record.to ELSE At(b)
        BY <1>4, <3>1
    <3>6. TrailTypes' /\ TrailIsContinuous'
        BY <1>3, <2>2, <3>2, <3>3, <3>4, <3>5, TrailGrows DEF PlacesInv
    <3>. QED
        BY <3>1, <3>6
  <2>. QED
      BY <2>1, <2>2 DEF EndMove
<1>6. AssetTypes' /\ AssetsAddUp'
    BY <1>0, AssetsStay DEF PlacesInv
<1>7. /\ errand' \in [Agents -> Errand]
      /\ \A b \in Agents : errand'[b].tool # "none" => b # a /\ errand'[b] = errand[b]
    BY <1>1, Ending
<1>8. CallTypes'
    BY <1>0, <1>7 DEF PlacesInv, CallTypes
<1>9. MovesStartHere'
  <2>1. ASSUME NEW b \in Agents, b \notin jumped', errand'[b].tool = "move" PROVE errand'[b].old = At(b)'
    <3>1. b # a /\ errand'[b] = errand[b] /\ b \notin jumped
        BY <1>0, <1>7, <2>1
    <3>2. errand[b].old = At(b)
        BY <2>1, <3>1 DEF PlacesInv, MovesStartHere
    <3>. QED
        BY <1>5, <3>1, <3>2
  <2>. QED
      BY <2>1 DEF MovesStartHere
<1>10. EnteringHasLeft'
    BY <1>0, <1>7 DEF PlacesInv, EnteringHasLeft, assetVars
<1>11. UsesAreCovered'
  <2>1. raced' = raced /\ quantity' = quantity
      BY <1>0 DEF assetVars
  <2>2. ASSUME NEW r \in Stock PROVE \A b \in Using(r)' : b \in Using(r) /\ errand'[b] = errand[b]
      BY <1>7 DEF Using
  <2>. QED
      BY <2>1, <2>2 DEF PlacesInv, UsesAreCovered
<1>. QED
    BY <1>5, <1>6, <1>8, <1>9, <1>10, <1>11 DEF PlacesInv

LEMMA FixStep ==
    ASSUME PlacesInv, Fix
    PROVE  PlacesInv'
<1>0. UNCHANGED <<road, now, assetVars, errand, wishes>>
    BY DEF Fix
<1>1. PICK fix \in fixesLeft :
          LET a == fix[1]
              p == fix[2]
          IN  /\ locations' = Put(locations, a, p)
              /\ agentCells' = Put(agentCells, a, CellOf(p))
              /\ grid' = Moved(a, p)
              /\ trail' = Recorded(a, [from |-> At(a), to |-> p, tick |-> -1,
                                       source |-> "external_gps", mode |-> "none"])
              /\ pendingFixes' = Append(pendingFixes, a)
              /\ fixesLeft' = fixesLeft \ {fix}
              /\ jumped' = IF errand[a].tool = "move" THEN jumped \cup {a} ELSE jumped
    BY DEF Fix
<1>. DEFINE a == fix[1]
            p == fix[2]
            record == [from |-> At(a), to |-> p, tick |-> -1, source |-> "external_gps", mode |-> "none"]
<1>2. a \in Agents /\ p \in Nat
    BY DEF PlacesInv, CallTypes
<1>. HIDE DEF a, p
<1>3. At(a) \in Spot
    BY PlaceOf DEF PlacesInv
<1>4. record \in Record /\ record.from = At(a) /\ record.to = p
    BY <1>2, <1>3 DEF Record
<1>5. trail' = Recorded(a, record)
    BY <1>1 DEF a, p
<1>. HIDE DEF record
<1>6. MapTypes' /\ MapIsTrue' /\ \A b \in Agents : At(b)' = IF b = a THEN p ELSE At(b)
  <2>1. locations' = Put(locations, a, p) /\ agentCells' = Put(agentCells, a, CellOf(p)) /\ grid' = Moved(a, p)
      BY <1>1 DEF a, p
  <2>. QED
      BY <1>2, <2>1, MapMoves DEF PlacesInv
<1>7. jumped' = IF errand[a].tool = "move" THEN jumped \cup {a} ELSE jumped
    BY <1>1 DEF a
<1>8. TrailTypes' /\ TrailIsContinuous'
  <2>1. pendingFixes \in Seq(Agents) /\ jumped \subseteq Agents /\ pendingFixes' = Append(pendingFixes, a)
      BY <1>1 DEF PlacesInv, TrailTypes, a
  <2>2. /\ pendingFixes' \in Seq(Agents) /\ Len(pendingFixes') = Len(pendingFixes) + 1
        /\ \A i \in 1..Len(pendingFixes) : pendingFixes'[i] = pendingFixes[i]
        /\ pendingFixes'[Len(pendingFixes) + 1] = a
      BY <1>2, <2>1, AppendProperties
  <2>3. /\ Len(pendingFixes) \in Nat /\ DOMAIN pendingFixes = 1..Len(pendingFixes)
        /\ DOMAIN pendingFixes' = 1..(Len(pendingFixes) + 1)
      BY <2>1, <2>2, LenProperties
  <2>4. \A i \in DOMAIN pendingFixes : i \in DOMAIN pendingFixes' /\ pendingFixes'[i] = pendingFixes[i]
      BY <2>2, <2>3
  <2>5. Len(pendingFixes) + 1 \in DOMAIN pendingFixes'
      BY <2>3
  <2>6. ToSet(pendingFixes) \subseteq ToSet(pendingFixes') /\ a \in ToSet(pendingFixes')
      BY <2>2, <2>4, <2>5 DEF ToSet
  <2>7. jumped' \in SUBSET Agents /\ jumped \subseteq jumped'
      BY <1>2, <1>7, <2>1
  <2>8. \A b \in Agents : At(b)' = IF b = a THEN record.to ELSE At(b)
      BY <1>4, <1>6
  <2>. QED
      BY <1>2, <1>4, <1>5, <2>2, <2>6, <2>7, <2>8, TrailGrows DEF PlacesInv
<1>9. AssetTypes' /\ AssetsAddUp'
    BY <1>0, AssetsStay DEF PlacesInv
<1>10. CallTypes'
    BY <1>0, <1>1 DEF PlacesInv, CallTypes
<1>11. MovesStartHere'
  <2>1. ASSUME NEW b \in Agents, b \notin jumped', errand'[b].tool = "move" PROVE errand'[b].old = At(b)'
    <3>1. b # a /\ b \notin jumped /\ errand'[b] = errand[b]
        BY <1>0, <1>7, <2>1
    <3>2. errand[b].old = At(b)
        BY <2>1, <3>1 DEF PlacesInv, MovesStartHere
    <3>. QED
        BY <1>6, <3>1, <3>2
  <2>. QED
      BY <2>1 DEF MovesStartHere
<1>12. EnteringHasLeft' /\ UsesAreCovered'
    BY <1>0 DEF PlacesInv, EnteringHasLeft, UsesAreCovered, Using, assetVars
<1>. QED
    BY <1>6, <1>8, <1>9, <1>10, <1>11, <1>12 DEF PlacesInv

LEMMA WorldTickStep ==
    ASSUME PlacesInv, WorldTick
    PROVE  PlacesInv'
<1>0. /\ now' = now + 1 /\ UNCHANGED <<road, locations, agentCells, grid, assetVars>>
      /\ UNCHANGED <<errand, wishes, fixesLeft, jumped>>
    BY DEF WorldTick
<1>1. MapTypes' /\ MapIsTrue' /\ \A b \in Agents : At(b)' = At(b)
    BY <1>0, MapStays DEF PlacesInv
<1>2. TrailTypes' /\ TrailIsContinuous'
  <2>1. trail' = [a \in Agents |-> Dated(a)] /\ pendingFixes' = <<>> /\ now \in Nat
      BY DEF WorldTick, PlacesInv, CallTypes
  <2>. QED
      BY <1>0, <1>1, <2>1, TrailIsDated DEF PlacesInv
<1>3. AssetTypes' /\ AssetsAddUp'
    BY <1>0, AssetsStay DEF PlacesInv
<1>4. CallTypes'
    BY <1>0 DEF PlacesInv, CallTypes
<1>5. MovesStartHere'
    BY <1>0, <1>1 DEF PlacesInv, MovesStartHere
<1>6. EnteringHasLeft' /\ UsesAreCovered'
    BY <1>0 DEF PlacesInv, EnteringHasLeft, UsesAreCovered, Using, assetVars
<1>. QED
    BY <1>1, <1>2, <1>3, <1>4, <1>5, <1>6 DEF PlacesInv

\* A step that neither moves anybody nor begins a move keeps the map, the trails and the moves.
LEMMA Elsewhere ==
    ASSUME PlacesInv, UNCHANGED mapVars,
           \A b \in Agents : errand'[b].tool = "move" => errand'[b] = errand[b]
    PROVE  MapTypes' /\ MapIsTrue' /\ TrailTypes' /\ TrailIsContinuous' /\ MovesStartHere'
<1>1. MapTypes' /\ MapIsTrue' /\ \A b \in Agents : At(b)' = At(b)
    BY MapStays DEF PlacesInv, mapVars
<1>2. TrailTypes' /\ TrailIsContinuous'
    BY <1>1, TrailStays DEF PlacesInv, mapVars
<1>3. ASSUME NEW b \in Agents, b \notin jumped', errand'[b].tool = "move" PROVE errand'[b].old = At(b)'
  <2>1. b \notin jumped /\ errand'[b] = errand[b]
      BY <1>3 DEF mapVars
  <2>2. errand[b].old = At(b)
      BY <1>3, <2>1 DEF PlacesInv, MovesStartHere
  <2>. QED
      BY <1>1, <2>1, <2>2
<1>. QED
    BY <1>1, <1>2, <1>3 DEF MovesStartHere

LEMMA LeaveStep ==
    ASSUME PlacesInv, NEW a \in Agents, Leave(a)
    PROVE  PlacesInv'
<1>. DEFINE e == IF errand[a].to = Nowhere THEN Idle ELSE [tool |-> "entering", to |-> errand[a].to]
<1>0. UNCHANGED <<road, now, mapVars, quantity, spent, raced, wishes, fixesLeft>>
    BY DEF Leave
<1>1. errand \in [Agents -> Errand] /\ errand[a].tool = "leaving" /\ errand' = [errand EXCEPT ![a] = e]
    BY DEF PlacesInv, CallTypes, Leave
<1>2. e \in Errand /\ e.tool \in {"none", "entering"}
  <2>1. errand[a].to \in Venues \cup {Nowhere}
      BY <1>1, ErrandIs
  <2>2. errand[a].to # Nowhere => [tool |-> "entering", to |-> errand[a].to] \in Errand
      BY <2>1 DEF Errand
  <2>. QED
      BY <2>2, IdleIs
<1>. HIDE DEF e
<1>3. /\ errand' \in [Agents -> Errand] /\ errand'[a] = e
      /\ \A b \in Agents : b # a => errand'[b] = errand[b]
    BY <1>1, <1>2
<1>4. \A b \in Agents : errand'[b].tool \in {"move", "using"} => errand'[b] = errand[b]
    BY <1>2, <1>3
<1>5. MapTypes' /\ MapIsTrue' /\ TrailTypes' /\ TrailIsContinuous' /\ MovesStartHere'
    BY <1>0, <1>4, Elsewhere
<1>6. /\ visitors \in [Venues -> SUBSET Agents] /\ agentVenues \in [Agents -> SUBSET Venues]
      /\ visitors' = Left(a) /\ agentVenues' = [agentVenues EXCEPT ![a] = {}]
    BY DEF PlacesInv, AssetTypes, Leave
<1>7. /\ visitors' \in [Venues -> SUBSET Agents] /\ agentVenues' \in [Agents -> SUBSET Venues]
      /\ agentVenues'[a] = {} /\ \A b \in Agents : b # a => agentVenues'[b] = agentVenues[b]
      /\ \A v \in Venues : visitors'[v] = IF v \in agentVenues[a] THEN visitors[v] \ {a} ELSE visitors[v]
    BY <1>6 DEF Left
<1>8. AssetTypes'
    BY <1>0, <1>7 DEF PlacesInv, AssetTypes
<1>9. AssetsAddUp'
  <2>1. \A b \in Agents : agentVenues[b] = {v \in Venues : b \in visitors[v]} /\ Cardinality(agentVenues[b]) <= 1
      BY DEF PlacesInv, AssetsAddUp
  <2>2. agentVenues'[a] = {v \in Venues : a \in visitors'[v]}
      BY <1>7, <2>1
  <2>3. ASSUME NEW b \in Agents, b # a PROVE agentVenues'[b] = {v \in Venues : b \in visitors'[v]}
    <3>1. \A v \in Venues : b \in visitors'[v] <=> b \in visitors[v]
        BY <1>7, <2>3
    <3>. QED
        BY <1>7, <2>1, <2>3, <3>1
  <2>4. \A b \in Agents : Cardinality(agentVenues'[b]) <= 1
    <3>1. Cardinality(agentVenues'[a]) = 0
        BY <1>7, FS_EmptySet
    <3>. QED
        BY <1>7, <2>1, <3>1
  <2>. QED
      BY <1>0, <2>2, <2>3, <2>4 DEF PlacesInv, AssetsAddUp
<1>10. CallTypes'
    BY <1>0, <1>3 DEF PlacesInv, CallTypes
<1>11. EnteringHasLeft'
    BY <1>3, <1>7 DEF PlacesInv, EnteringHasLeft
<1>12. UsesAreCovered'
  <2>1. ASSUME NEW r \in Stock PROVE \A b \in Using(r)' : b \in Using(r) /\ errand'[b] = errand[b]
      BY <1>4 DEF Using
  <2>. QED
      BY <1>0, <2>1 DEF PlacesInv, UsesAreCovered
<1>. QED
    BY <1>5, <1>8, <1>9, <1>10, <1>11, <1>12 DEF PlacesInv

LEMMA ArriveStep ==
    ASSUME PlacesInv, NEW a \in Agents, Arrive(a)
    PROVE  PlacesInv'
<1>. DEFINE to == errand[a].to
<1>0. UNCHANGED <<road, now, mapVars, quantity, spent, raced, wishes, fixesLeft>>
    BY DEF Arrive
<1>1. errand \in [Agents -> Errand] /\ errand[a].tool = "entering" /\ errand' = [errand EXCEPT ![a] = Idle]
    BY DEF PlacesInv, CallTypes, Arrive
<1>2. to \in Venues
    BY <1>1, ErrandIs
<1>3. agentVenues[a] = {}
    BY <1>1 DEF PlacesInv, EnteringHasLeft
<1>4. /\ errand' \in [Agents -> Errand]
      /\ \A b \in Agents : errand'[b].tool # "none" => b # a /\ errand'[b] = errand[b]
    BY <1>1, Ending
<1>5. MapTypes' /\ MapIsTrue' /\ TrailTypes' /\ TrailIsContinuous' /\ MovesStartHere'
    BY <1>0, <1>4, Elsewhere
<1>6. /\ visitors \in [Venues -> SUBSET Agents] /\ agentVenues \in [Agents -> SUBSET Venues]
      /\ visitors' = [visitors EXCEPT ![to] = @ \cup {a}]
      /\ agentVenues' = [agentVenues EXCEPT ![a] = @ \cup {to}]
    BY DEF PlacesInv, AssetTypes, Arrive
<1>. HIDE DEF to
<1>7. /\ visitors' \in [Venues -> SUBSET Agents] /\ agentVenues' \in [Agents -> SUBSET Venues]
      /\ agentVenues'[a] = {to} /\ \A b \in Agents : b # a => agentVenues'[b] = agentVenues[b]
      /\ \A v \in Venues : visitors'[v] = IF v = to THEN visitors[v] \cup {a} ELSE visitors[v]
    BY <1>2, <1>3, <1>6
<1>8. AssetTypes'
    BY <1>0, <1>7 DEF PlacesInv, AssetTypes
<1>9. AssetsAddUp'
  <2>1. \A b \in Agents : agentVenues[b] = {v \in Venues : b \in visitors[v]} /\ Cardinality(agentVenues[b]) <= 1
      BY DEF PlacesInv, AssetsAddUp
  <2>2. agentVenues'[a] = {v \in Venues : a \in visitors'[v]}
      BY <1>2, <1>3, <1>7, <2>1
  <2>3. ASSUME NEW b \in Agents, b # a PROVE agentVenues'[b] = {v \in Venues : b \in visitors'[v]}
    <3>1. \A v \in Venues : b \in visitors'[v] <=> b \in visitors[v]
        BY <1>7, <2>3
    <3>. QED
        BY <1>7, <2>1, <2>3, <3>1
  <2>4. \A b \in Agents : Cardinality(agentVenues'[b]) <= 1
    <3>1. Cardinality(agentVenues'[a]) = 1
        BY <1>7, FS_Singleton
    <3>2. \A b \in Agents : b # a => Cardinality(agentVenues'[b]) <= 1
        BY <1>7, <2>1
    <3>3. Cardinality(agentVenues'[a]) <= 1
        BY <3>1
    <3>. QED
        BY <3>2, <3>3
  <2>. QED
      BY <1>0, <2>2, <2>3, <2>4 DEF PlacesInv, AssetsAddUp
<1>10. CallTypes'
    BY <1>0, <1>4 DEF PlacesInv, CallTypes
<1>11. EnteringHasLeft'
    BY <1>4, <1>7 DEF PlacesInv, EnteringHasLeft
<1>12. UsesAreCovered'
  <2>1. ASSUME NEW r \in Stock PROVE \A b \in Using(r)' : b \in Using(r) /\ errand'[b] = errand[b]
      BY <1>4 DEF Using
  <2>. QED
      BY <1>0, <2>1 DEF PlacesInv, UsesAreCovered
<1>. QED
    BY <1>5, <1>8, <1>9, <1>10, <1>11, <1>12 DEF PlacesInv

LEMMA ReachStep ==
    ASSUME PlacesInv, NEW a \in Agents, Reach(a)
    PROVE  PlacesInv'
<1>0. UNCHANGED <<road, now, mapVars, visitors, agentVenues, quantity, spent, fixesLeft>>
    BY DEF Reach
<1>1. PICK w \in wishes[a] :
          /\ w.tool = "use_resource"
          /\ wishes' = [wishes EXCEPT ![a] = @ \ {w}]
          /\ errand' = [errand EXCEPT ![a] = IF quantity[w.of] < w.amount THEN Idle
                           ELSE [tool |-> "using", of |-> w.of, amount |-> w.amount]]
          /\ raced' = IF Using(w.of) # {} THEN raced \cup {w.of} ELSE raced
    BY DEF Reach
<1>. DEFINE e == IF quantity[w.of] < w.amount THEN Idle
                 ELSE [tool |-> "using", of |-> w.of, amount |-> w.amount]
<1>2. wishes \in [Agents -> SUBSET Wish] /\ w \in Wish
    BY DEF PlacesInv, CallTypes
<1>3. wishes' \in [Agents -> SUBSET Wish]
    BY <1>1, <1>2
<1>4. w.of \in Stock /\ w.amount \in Int /\ quantity[w.of] \in Nat
    BY <1>1, <1>2, WishIs DEF PlacesInv, AssetTypes
<1>5. /\ e \in Errand /\ e.tool \in {"none", "using"}
      /\ e.tool = "using" => e.of = w.of /\ e.amount <= quantity[w.of]
  <2>1. CASE quantity[w.of] < w.amount
      BY <2>1, IdleIs
  <2>2. CASE ~(quantity[w.of] < w.amount)
    <3>1. e = [tool |-> "using", of |-> w.of, amount |-> w.amount]
        BY <2>2
    <3>2. w.amount <= quantity[w.of]
        BY <1>4, <2>2
    <3>. QED
        BY <1>4, <3>1, <3>2 DEF Errand
  <2>. QED
      BY <2>1, <2>2
<1>6. errand' = [errand EXCEPT ![a] = e] /\ errand \in [Agents -> Errand] /\ errand[a] = Idle
    BY <1>1 DEF PlacesInv, CallTypes, Reach
<1>. HIDE DEF e
<1>7. /\ errand' \in [Agents -> Errand] /\ errand'[a] = e
      /\ \A b \in Agents : b # a => errand'[b] = errand[b]
    BY <1>5, <1>6
<1>8. \A b \in Agents : errand'[b].tool \in {"move", "entering"} => errand'[b] = errand[b]
    BY <1>5, <1>7
<1>9. MapTypes' /\ MapIsTrue' /\ TrailTypes' /\ TrailIsContinuous' /\ MovesStartHere'
    BY <1>0, <1>8, Elsewhere
<1>10. raced' \subseteq Stock /\ raced \subseteq raced'
    BY <1>1, <1>4 DEF PlacesInv, AssetTypes
<1>11. AssetTypes'
    BY <1>0, <1>10 DEF PlacesInv, AssetTypes
<1>12. AssetsAddUp'
    BY <1>0, <1>10 DEF PlacesInv, AssetsAddUp
<1>13. CallTypes'
    BY <1>0, <1>3, <1>7 DEF PlacesInv, CallTypes
<1>14. EnteringHasLeft'
    BY <1>0, <1>8 DEF PlacesInv, EnteringHasLeft
<1>15. ASSUME NEW r \in Stock, r \notin raced'
       PROVE  /\ \A b, c \in Using(r)' : b = c
              /\ \A b \in Using(r)' : errand'[b].amount <= quantity'[r]
  <2>1. r \notin raced /\ (r = w.of => Using(r) = {})
      BY <1>1, <1>15
  <2>2. /\ \A b, c \in Using(r) : b = c
        /\ \A b \in Using(r) : errand[b].amount <= quantity[r]
      BY <2>1 DEF PlacesInv, UsesAreCovered
  <2>3. CASE r = w.of
    <3>1. \A b \in Using(r)' : b = a /\ errand'[b] = e /\ e.tool = "using"
        BY <1>7, <2>1, <2>3 DEF Using
    <3>. QED
        BY <1>0, <1>5, <2>3, <3>1
  <2>4. CASE r # w.of
    <3>1. \A b \in Using(r)' : b \in Using(r) /\ errand'[b] = errand[b]
        BY <1>5, <1>7, <2>4 DEF Using
    <3>. QED
        BY <1>0, <2>2, <3>1
  <2>. QED
      BY <2>3, <2>4
<1>16. UsesAreCovered'
    BY <1>15 DEF UsesAreCovered
<1>. QED
    BY <1>9, <1>11, <1>12, <1>13, <1>14, <1>16 DEF PlacesInv

LEMMA ConsumeStep ==
    ASSUME PlacesInv, NEW a \in Agents, Consume(a)
    PROVE  PlacesInv'
<1>. DEFINE of == errand[a].of
            amount == errand[a].amount
<1>0. UNCHANGED <<road, now, mapVars, visitors, agentVenues, raced, wishes, fixesLeft>>
    BY DEF Consume
<1>1. errand \in [Agents -> Errand] /\ errand[a].tool = "using" /\ errand' = [errand EXCEPT ![a] = Idle]
    BY DEF PlacesInv, CallTypes, Consume
<1>2. of \in Stock /\ amount \in Int /\ a \in Using(of)
    BY <1>1, ErrandIs DEF Using
<1>3. /\ quantity' = [quantity EXCEPT ![of] = Max({0, @ - amount})]
      /\ spent' = [spent EXCEPT ![of] = @ + amount]
    BY DEF Consume
<1>4. /\ errand' \in [Agents -> Errand] /\ errand'[a] = Idle
      /\ \A b \in Agents : errand'[b].tool # "none" => b # a /\ errand'[b] = errand[b]
    BY <1>1, Ending
<1>5. MapTypes' /\ MapIsTrue' /\ TrailTypes' /\ TrailIsContinuous' /\ MovesStartHere'
    BY <1>0, <1>4, Elsewhere
<1>6. quantity \in [Stock -> Nat] /\ spent \in [Stock -> Int]
    BY DEF PlacesInv, AssetTypes
<1>7. of \notin raced => amount <= quantity[of] /\ \A b \in Using(of) : b = a
    BY <1>2 DEF PlacesInv, UsesAreCovered
<1>. HIDE DEF of, amount
<1>8. Max({0, quantity[of] - amount}) = IF 0 >= quantity[of] - amount THEN 0 ELSE quantity[of] - amount
  <2>1. 0 \in Int /\ quantity[of] - amount \in Int
      BY <1>2, <1>6
  <2>. QED
      BY <2>1, LargerOf
<1>9. /\ quantity' \in [Stock -> Nat] /\ spent' \in [Stock -> Int]
      /\ \A r \in Stock : r # of => quantity'[r] = quantity[r] /\ spent'[r] = spent[r]
      /\ spent'[of] = spent[of] + amount
      /\ amount <= quantity[of] => quantity'[of] = quantity[of] - amount
    BY <1>2, <1>3, <1>6, <1>8
<1>10. AssetTypes'
    BY <1>0, <1>9 DEF PlacesInv, AssetTypes
<1>11. AssetsAddUp'
  <2>1. \A r \in Stock \ raced : quantity[r] + spent[r] = road.quantity[r]
      BY DEF PlacesInv, AssetsAddUp
  <2>2. of \notin raced => quantity'[of] + spent'[of] = quantity[of] + spent[of]
      BY <1>2, <1>6, <1>7, <1>9
  <2>3. \A r \in Stock \ raced : quantity'[r] + spent'[r] = road.quantity[r]
      BY <1>2, <1>9, <2>1, <2>2
  <2>. QED
      BY <1>0, <2>3 DEF PlacesInv, AssetsAddUp
<1>12. CallTypes'
    BY <1>0, <1>4 DEF PlacesInv, CallTypes
<1>13. EnteringHasLeft'
    BY <1>0, <1>4 DEF PlacesInv, EnteringHasLeft
<1>14. ASSUME NEW r \in Stock, r \notin raced'
       PROVE  /\ \A b, c \in Using(r)' : b = c
              /\ \A b \in Using(r)' : errand'[b].amount <= quantity'[r]
  <2>1. \A b \in Using(r)' : b \in Using(r) /\ errand'[b] = errand[b] /\ b # a
      BY <1>4 DEF Using
  <2>2. /\ r \notin raced /\ \A b, c \in Using(r) : b = c
        /\ \A b \in Using(r) : errand[b].amount <= quantity[r]
      BY <1>0, <1>14 DEF PlacesInv, UsesAreCovered
  <2>3. CASE r = of
      BY <1>7, <2>1, <2>2, <2>3
  <2>4. CASE r # of
      BY <1>9, <2>1, <2>2, <2>4
  <2>. QED
      BY <2>3, <2>4
<1>15. UsesAreCovered'
    BY <1>14 DEF UsesAreCovered
<1>. QED
    BY <1>5, <1>10, <1>11, <1>12, <1>13, <1>15 DEF PlacesInv

-----------------------------------------------------------------------------
(***************************************************************************)
(* The theorem.                                                            *)
(***************************************************************************)
LEMMA PlacesStart == PlacesInit => PlacesInv
<1>. SUFFICES ASSUME PlacesInit PROVE PlacesInv
    OBVIOUS
<1>1. SoundRoad(road)
    BY RoadsAreSound DEF PlacesInit
<1>2. \A b \in Agents : errand[b] = Idle
    BY DEF PlacesInit
<1>3. MapTypes
  <2>1. \A b \in Agents : road.start[b] # Nowhere => road.start[b] \in Nat
      BY <1>1 DEF SoundRoad
  <2>. QED
      BY <2>1 DEF MapTypes, PlacesInit
<1>4. MapIsTrue
    BY DEF MapIsTrue, PlacesInit
<1>5. \A b \in Agents : trail[b] = <<>>
    BY DEF PlacesInit
<1>6. TrailTypes
    BY EmptySeq DEF TrailTypes, PlacesInit
<1>7. TrailIsContinuous
  <2>1. ASSUME NEW b \in Agents, NEW i \in 1..(Len(trail[b]) - 1) PROVE FALSE
    <3>1. Len(trail[b]) = 0
        BY <1>5, EmptySeq
    <3>. QED
        BY <3>1, <2>1
  <2>. QED
      BY <1>5, <2>1 DEF TrailIsContinuous
<1>8. AssetTypes
    BY <1>1 DEF AssetTypes, PlacesInit, SoundRoad
<1>9. AssetsAddUp
  <2>1. \A b \in Agents : agentVenues[b] = {} /\ \A v \in Venues : visitors[v] = {}
      BY DEF PlacesInit
  <2>2. Cardinality({}) = 0
      BY FS_EmptySet
  <2>3. \A b \in Agents : agentVenues[b] = {v \in Venues : b \in visitors[v]} /\ Cardinality(agentVenues[b]) <= 1
      BY <2>1, <2>2
  <2>4. \A r \in Stock : quantity[r] + spent[r] = road.quantity[r]
      BY <1>8 DEF PlacesInit, AssetTypes
  <2>. QED
      BY <2>3, <2>4 DEF AssetsAddUp
<1>10. CallTypes
    BY <1>1, IdleIs DEF CallTypes, PlacesInit, SoundRoad
<1>11. MovesStartHere /\ EnteringHasLeft /\ UsesAreCovered
    BY <1>2, IdleIs DEF MovesStartHere, EnteringHasLeft, UsesAreCovered, Using
<1>. QED
    BY <1>3, <1>4, <1>6, <1>7, <1>8, <1>9, <1>10, <1>11 DEF PlacesInv

LEMMA PlacesStep == PlacesInv /\ [PlacesNext]_placesVars => PlacesInv'
<1>. SUFFICES ASSUME PlacesInv, [PlacesNext]_placesVars PROVE PlacesInv'
    OBVIOUS
<1>1. CASE Fix
    BY <1>1, FixStep
<1>2. CASE WorldTick
    BY <1>2, WorldTickStep
<1>3. ASSUME NEW a \in Agents,
             \/ BeginMove(a) \/ EndMove(a) \/ Enter(a) \/ Leave(a) \/ Arrive(a) \/ SetOut(a)
             \/ Reach(a) \/ Consume(a)
      PROVE  PlacesInv'
    BY <1>3, BeginMoveStep, EndMoveStep, EnterStep, LeaveStep, ArriveStep, SetOutStep, ReachStep, ConsumeStep
<1>4. CASE UNCHANGED placesVars
  <2>1. UNCHANGED mapVars /\ UNCHANGED assetVars
        /\ UNCHANGED <<road, now, errand, wishes, fixesLeft>>
      BY <1>4 DEF placesVars, mapVars, assetVars
  <2>2. MapTypes' /\ MapIsTrue' /\ TrailTypes' /\ TrailIsContinuous' /\ MovesStartHere'
      BY <2>1, Elsewhere
  <2>3. AssetTypes' /\ AssetsAddUp'
      BY <2>1, AssetsStay DEF PlacesInv
  <2>4. CallTypes' /\ EnteringHasLeft' /\ UsesAreCovered'
      BY <2>1 DEF PlacesInv, CallTypes, EnteringHasLeft, UsesAreCovered, Using, assetVars
  <2>. QED
      BY <2>2, <2>3, <2>4 DEF PlacesInv
<1>. QED
    BY <1>1, <1>2, <1>3, <1>4 DEF PlacesNext

\* However the tools of the agents, the fixes and the ticks interleave, the grid finds exactly
\* who is near, the trails are continuous and dated, nobody is in two venues, and what is
\* missing of a resource that none raced for is what the agents were told they consumed
\* (LocationIndex.ts, MovementPlugin.ts, AssetPlugin.ts).
THEOREM PlacesStayTrue == PlacesSpec => []PlacesAgree
<1>1. PlacesInv => PlacesAgree
    BY MapAnswers DEF PlacesInv, PlacesAgree
<1>. QED
    BY <1>1, PlacesStart, PlacesStep, PTL DEF PlacesSpec

-----------------------------------------------------------------------------
(***************************************************************************)
(* The store: its inductive invariant.                                      *)
(***************************************************************************)
TableNames == {"memories", "snapshots", "conversations", "knowledge", "audits"}
MindsOf(v) == {Head(s.of) : s \in v.saves}
WorldsOf(v) == {s.world : s \in v.saves} \cup v.active \cup {v.latest}
RowRecord(v) == [id : Nat, world : WorldsOf(v), of : {s.of : s \in v.saves} \cup {<<a>> : a \in MindsOf(v)},
                 time : Nat, source : Nat, stale : BOOLEAN]
SavedRecord(v) == [table : TableNames, row : RowRecord(v)]
ErasureRecord(v) == [agent : v.erasing, asked : v.active, world : WorldsOf(v), began : Nat,
                     next : 0..7, gone : SUBSET SavedRecord(v)]
UsageRecord(v) == [agent : v.erasing, world : WorldsOf(v), left : SUBSET (Counted \cup {"bytes"}),
                   counts : [Counted -> Nat], bytes : Nat, erased : BOOLEAN, before : [Counted -> Nat]]
DigestRecord(v) == [agent : MindsOf(v), world : WorldsOf(v), stale : BOOLEAN, kept : BOOLEAN,
                    read : SUBSET Nat]
ConsentRecord(v) == [id : {c.id : c \in v.consents}, world : WorldsOf(v),
    subject : {c.subject : c \in v.consents}, status : {c.status : c \in v.consents},
    created : Nat, updated : Nat, put : Nat]

Standing == archive \in Archives /\ hour \in Nat /\ written \in Nat /\ alive \subseteq archive.active

\* Each row was saved, under a number of its own; a memory is made of nothing but itself.
TablesInv ==
    /\ tables \in [TableNames -> SUBSET RowRecord(archive)]
    /\ \A t \in TableNames : IsFiniteSet(tables[t])
    /\ saved \subseteq SavedRecord(archive)
    /\ \A t \in TableNames : \A r \in tables[t] :
          [table |-> t, row |-> r] \in saved /\ (t = "memories" => r.source = r.id /\ ~r.stale)
    /\ \A s \in saved : s.row.id <= written

DigestsInv ==
    /\ digests \subseteq DigestRecord(archive) /\ \A d \in digests : d.read # {}
    /\ digests # {} => archive.digests > 0

\* An erasure was asked for in the world it erases, if that still has an engine.
Erasing(e) == e.began <= written /\ (e.asked = e.world \/ e.asked \notin alive)
ErasuresInv ==
    /\ erasures \in Seq(ErasureRecord(archive))
    /\ \A i \in DOMAIN erasures : Erasing(erasures[i])

Reason(s, e) == e.world = s.row.world /\ e.agent \in ToSet(s.row.of)
LostInv ==
    \A s \in saved : s.row \notin tables[s.table] =>
        \/ s.table = "memories" /\ archive.digests > 0
        \/ \E i \in DOMAIN erasures : Reason(s, erasures[i])

\* What an erasure has passed is of later than it, and so is what is read of it.
Younger(r, e) == r.source > e.began \/ r.stale
RowsPassed ==
    \A i \in DOMAIN erasures : \A n \in 1..5 : n < erasures[i].next =>
        \A r \in About(Tables[n], erasures[i].agent, erasures[i].world) : Younger(r, erasures[i])
ConsentsPassed ==
    \A i \in DOMAIN erasures : erasures[i].next = 7 =>
        \A c \in ListConsents(erasures[i].world, erasures[i].agent) : c.put > erasures[i].began
DigestsPassed ==
    \A i \in DOMAIN erasures : erasures[i].next > 1 =>
        \A d \in digests :
            d.agent = erasures[i].agent /\ d.world = erasures[i].world /\ ~d.stale =>
                \A n \in d.read : n > erasures[i].began

\* What an erasure counts is gone, and counted by no other.
GoneInv ==
    \A i \in DOMAIN erasures :
        /\ \A s \in erasures[i].gone : s \in saved /\ s.row \notin tables[s.table]
        /\ \A j \in DOMAIN erasures : j # i => erasures[i].gone \cap erasures[j].gone = {}

\* Without an erasure the rows of an agent only become more.
Bounded(u) ==
    ~u.erased => \A t \in Counted :
        /\ u.before[t] <= Cardinality(About(t, u.agent, u.world))
        /\ t \notin u.left => u.before[t] <= u.counts[t]
                                /\ u.counts[t] <= Cardinality(About(t, u.agent, u.world))
UsagesInv == usages \in Seq(UsageRecord(archive)) /\ \A k \in DOMAIN usages : Bounded(usages[k])

\* The last consent is there and none is younger.
Latest(k, decision) ==
    \E c \in ListConsents(k[1], k[2]) :
        c.status = decision /\ \A d \in ListConsents(k[1], k[2]) : c.updated >= d.updated
ConsentKeys(v) == (v.active \cup {v.latest}) \X {c.subject : c \in v.consents}
Told(k) ==
    \/ said[k] = <<>> /\ (k \notin reused => ListConsents(k[1], k[2]) = {})
    \/ \E c \in archive.consents : said[k] = <<c.status>> /\ (k \notin reused => Latest(k, c.status))
ConsentsInv ==
    /\ consents \subseteq ConsentRecord(archive) /\ IsFiniteSet(consents)
    /\ \A c, d \in consents : c.id = d.id => c = d
    /\ \A c \in consents : c.updated <= hour /\ c.put <= written
    /\ DOMAIN said = ConsentKeys(archive)
    /\ \A k \in DOMAIN said : Told(k)

StoreInv ==
    /\ Standing /\ TablesInv /\ DigestsInv /\ ErasuresInv /\ LostInv
    /\ RowsPassed /\ ConsentsPassed /\ DigestsPassed /\ GoneInv /\ UsagesInv /\ ConsentsInv
    /\ ConfigsAreSingle

\* The least of a set of numbers, and so the oldest row of a digest.
Below == OpToRel(<, Nat)
LEMMA LeastIs ==
    ASSUME NEW S \in SUBSET Nat, S # {}
    PROVE  Min(S) \in S /\ \A m \in S : Min(S) <= m
<1>1. IsWellFoundedOn(Below, Nat)
    BY NatLessThanWellFounded DEF Below
<1>2. PICK n \in S : \A m \in S : ~(<<m, n>> \in Below)
    BY <1>1, WFMin
<1>3. \A m \in S : ~(m < n)
    BY <1>2 DEF OpToRel, Below
<1>4. n \in Nat /\ \A m \in S : m \in Nat /\ n <= m
    BY <1>3
<1>. QED
    BY <1>4 DEF Min

-----------------------------------------------------------------------------
(***************************************************************************)
(* Writes.                                                                   *)
(***************************************************************************)
ErasureIs(e) ==
    /\ e \in ErasureRecord(archive) /\ e.began \in Nat /\ e.next \in 0..7 /\ e.next \in Int
    /\ e.asked \in archive.active /\ e.gone \subseteq SavedRecord(archive)
LEMMA ErasuresAre ==
    ASSUME ErasuresInv
    PROVE  /\ Len(erasures) \in Nat /\ DOMAIN erasures = 1..Len(erasures)
           /\ \A i \in DOMAIN erasures : ErasureIs(erasures[i]) /\ Erasing(erasures[i])
<1>1. PICK S : S = ErasureRecord(archive)
    OBVIOUS
<1>2. erasures \in Seq(S)
    BY <1>1 DEF ErasuresInv
<1>3. Len(erasures) \in Nat /\ DOMAIN erasures = 1..Len(erasures)
    BY <1>2, LenProperties
<1>4. ASSUME NEW i \in DOMAIN erasures PROVE ErasureIs(erasures[i])
    <2>1. erasures[i] \in S
        BY <1>2
    <2>2. PICK e : e = erasures[i]
        OBVIOUS
    <2>3. ErasureIs(e)
        BY <1>1, <2>1, <2>2 DEF ErasureIs, ErasureRecord
    <2>. QED
        BY <2>2, <2>3
<1>. QED
    BY <1>3, <1>4 DEF ErasuresInv

UsageIs(u) ==
    /\ u \in UsageRecord(archive) /\ u.counts \in [Counted -> Nat] /\ u.before \in [Counted -> Nat]
    /\ u.left \subseteq Counted \cup {"bytes"} /\ u.bytes \in Nat /\ u.erased \in BOOLEAN
LEMMA UsagesAre ==
    ASSUME UsagesInv
    PROVE  /\ Len(usages) \in Nat /\ DOMAIN usages = 1..Len(usages)
           /\ \A k \in DOMAIN usages : UsageIs(usages[k]) /\ Bounded(usages[k])
<1>1. PICK S : S = UsageRecord(archive)
    OBVIOUS
<1>2. usages \in Seq(S)
    BY <1>1 DEF UsagesInv
<1>3. Len(usages) \in Nat /\ DOMAIN usages = 1..Len(usages)
    BY <1>2, LenProperties
<1>4. ASSUME NEW i \in DOMAIN usages PROVE UsageIs(usages[i])
    <2>1. usages[i] \in S
        BY <1>2
    <2>2. PICK u : u = usages[i]
        OBVIOUS
    <2>3. UsageIs(u)
        BY <1>1, <2>1, <2>2 DEF UsageIs, UsageRecord
    <2>. QED
        BY <2>2, <2>3
<1>. QED
    BY <1>3, <1>4 DEF UsagesInv

LEMMA StoreStart == StoreInit => StoreInv
<1> SUFFICES ASSUME StoreInit PROVE StoreInv
    OBVIOUS
<1>1. ToSet(Tables) = TableNames
    BY DEF Tables, TableNames, ToSet
<1>2. tables = [t \in TableNames |-> {}]
    BY <1>1 DEF StoreInit
<1>3. Standing /\ TablesInv
    BY <1>2, FS_EmptySet DEF StoreInit, Standing, TablesInv
<1>4. DigestsInv /\ ErasuresInv /\ LostInv /\ RowsPassed /\ ConsentsPassed /\ DigestsPassed /\ GoneInv
    BY DEF StoreInit, DigestsInv, ErasuresInv, LostInv, RowsPassed, ConsentsPassed, DigestsPassed, GoneInv
<1>5. UsagesInv /\ ConfigsAreSingle
    BY DEF StoreInit, UsagesInv, ConfigsAreSingle
<1>6. ConsentsInv
    <2>1. DOMAIN said = ConsentKeys(archive)
        BY DEF StoreInit, ConsentKeys
    <2>2. \A k \in DOMAIN said : said[k] = <<>> /\ ListConsents(k[1], k[2]) = {}
        BY DEF StoreInit, ListConsents
    <2>. QED
        BY <2>1, <2>2, FS_EmptySet DEF StoreInit, ConsentsInv, Told
<1>. QED
    BY <1>3, <1>4, <1>5, <1>6 DEF StoreInv

\* Rows that may be written: numbered anew, and of nothing an erasure has passed.
Fresh(t, r) ==
    /\ r.id > written
    /\ t = "memories" => r.source = r.id /\ ~r.stale
    /\ \A i \in DOMAIN erasures :
          erasures[i].next > 1 /\ r.world = erasures[i].world /\ erasures[i].agent \in ToSet(r.of) =>
              Younger(r, erasures[i])
Writable(t, new) ==
    /\ new \subseteq RowRecord(archive) /\ IsFiniteSet(new)
    /\ \A r \in new : Fresh(t, r) /\ r.id <= written + Cardinality(new)

LEMMA InsertStep ==
    ASSUME StoreInv, NEW t \in TableNames, NEW new, Writable(t, new), Insert(t, new),
           UNCHANGED <<archive, hour, consents, alive, said, reused, erasures, usages>>
    PROVE  /\ Standing' /\ TablesInv' /\ ErasuresInv' /\ LostInv' /\ RowsPassed' /\ ConsentsPassed'
           /\ GoneInv' /\ UsagesInv' /\ ConsentsInv'
<1>1. Cardinality(new) \in Nat /\ written \in Nat /\ written' = written + Cardinality(new)
    BY FS_CardinalityType DEF Writable, Insert, StoreInv, Standing
<1>2. written' \in Nat /\ written <= written'
    BY <1>1
<1>3. /\ tables \in [TableNames -> SUBSET RowRecord(archive)]
      /\ tables' = [tables EXCEPT ![t] = @ \cup new]
      /\ saved' = saved \cup RowsOf(t, new) /\ new \subseteq RowRecord(archive)
    BY DEF StoreInv, TablesInv, Insert, Writable
<1>4. \A x \in TableNames : tables'[x] = IF x = t THEN tables[x] \cup new ELSE tables[x]
    BY <1>3
<1>5. \A s \in saved' : s \in saved \/ (s.table = t /\ s.row \in new)
    BY <1>3 DEF RowsOf
<1>6. saved \subseteq SavedRecord(archive) /\ \A s \in saved : s.table \in TableNames /\ s.row.id <= written
    BY DEF StoreInv, TablesInv, SavedRecord
<1>7. \A s \in saved : s.row \notin tables[s.table] => s.row \notin tables'[s.table]
    <2> TAKE s \in saved
    <2>1. s.row.id <= written /\ \A r \in new : r.id > written /\ r.id \in Nat
        BY <1>3, <1>6 DEF Writable, Fresh, RowRecord
    <2>2. s.row.id \in Nat
        BY <1>6 DEF SavedRecord, RowRecord
    <2>3. s.row \notin new
        BY <1>1, <2>1, <2>2
    <2>. QED
        BY <1>4, <1>6, <2>3
<1>8. Standing'
    BY <1>2 DEF StoreInv, Standing
<1>9. TablesInv'
    <2>1. tables' \in [TableNames -> SUBSET RowRecord(archive)]
        BY <1>3
    <2>2. \A x \in TableNames : IsFiniteSet(tables'[x])
        <3> TAKE x \in TableNames
        <3>1. IsFiniteSet(tables[x]) /\ IsFiniteSet(new)
            BY DEF StoreInv, TablesInv, Writable
        <3>2. IsFiniteSet(tables[x] \cup new)
            BY <3>1, FS_Union
        <3>. QED
            BY <1>4, <3>1, <3>2
    <2>3. saved' \subseteq SavedRecord(archive)
        BY <1>3, <1>6 DEF RowsOf, SavedRecord
    <2>4. ASSUME NEW x \in TableNames, NEW r \in tables'[x]
          PROVE  [table |-> x, row |-> r] \in saved' /\ (x = "memories" => r.source = r.id /\ ~r.stale)
        <3>1. CASE r \in tables[x]
            BY <1>3, <3>1 DEF StoreInv, TablesInv
        <3>2. CASE r \notin tables[x]
            <4>1. x = t /\ r \in new
                BY <1>4, <2>4, <3>2
            <4>. QED
                BY <1>3, <4>1 DEF Writable, Fresh, RowsOf
        <3>. QED
            BY <3>1, <3>2
    <2>5. \A s \in saved' : s.row.id <= written'
        <3> TAKE s \in saved'
        <3>1. CASE s \in saved
            <4>1. s.row.id <= written /\ s.row.id \in Nat
                BY <1>6, <3>1 DEF SavedRecord, RowRecord
            <4>. QED
                BY <1>2, <1>1, <4>1
        <3>2. CASE s \notin saved
            <4>1. s.row \in new
                BY <1>5, <3>2
            <4>. QED
                BY <1>1, <4>1 DEF Writable
        <3>. QED
            BY <3>1, <3>2
    <2>. QED
        BY <2>1, <2>2, <2>3, <2>4, <2>5 DEF TablesInv
<1>10. ErasuresInv'
    <2>1. \A i \in DOMAIN erasures : erasures[i].began \in Nat /\ erasures[i].began <= written
        BY ErasuresAre DEF StoreInv, Erasing, ErasureIs
    <2>2. \A i \in DOMAIN erasures : erasures[i].began <= written'
        BY <1>1, <1>2, <2>1
    <2>. QED
        BY <2>2 DEF StoreInv, ErasuresInv, Erasing
<1>11. LostInv'
    <2> SUFFICES ASSUME NEW s \in saved', s.row \notin tables'[s.table]
                 PROVE  \/ s.table = "memories" /\ archive.digests > 0
                        \/ \E i \in DOMAIN erasures : Reason(s, erasures[i])
        BY DEF LostInv
    <2>1. s \in saved
        BY <1>4, <1>5
    <2>2. s.row \notin tables[s.table]
        BY <1>4, <1>6, <2>1
    <2>. QED
        BY <2>1, <2>2 DEF StoreInv, LostInv
<1>12. RowsPassed'
    <2> SUFFICES ASSUME NEW i \in DOMAIN erasures, NEW n \in 1..5, n < erasures[i].next,
                        NEW r \in tables'[Tables[n]], r.world = erasures[i].world,
                        erasures[i].agent \in ToSet(r.of)
                 PROVE  Younger(r, erasures[i])
        BY DEF RowsPassed, About
    <2>1. Tables[n] \in TableNames
        BY DEF Tables, TableNames
    <2>2. CASE r \in tables[Tables[n]]
        BY <2>2 DEF StoreInv, RowsPassed, About
    <2>3. CASE r \notin tables[Tables[n]]
        <3>1. r \in new
            BY <1>4, <2>1, <2>3
        <3>2. erasures[i].next \in 0..7
            BY ErasuresAre DEF StoreInv, ErasureIs
        <3>3. erasures[i].next > 1
            BY <3>2
        <3>. QED
            BY <3>1, <3>3 DEF Writable, Fresh
    <2>. QED
        BY <2>2, <2>3
<1>13. ConsentsPassed'
    BY DEF StoreInv, ConsentsPassed, ListConsents
<1>14. GoneInv'
    BY <1>3, <1>7 DEF StoreInv, GoneInv
<1>15. UsagesInv'
    <2>1. \A a, w : \A x \in Counted :
              /\ Cardinality(About(x, a, w)) \in Nat /\ Cardinality(About(x, a, w)') \in Nat
              /\ Cardinality(About(x, a, w)) <= Cardinality(About(x, a, w)')
        <3> TAKE a, w
        <3> TAKE x \in Counted
        <3>1. x \in TableNames
            BY DEF Counted, TableNames
        <3>2. About(x, a, w) \subseteq tables[x] /\ About(x, a, w)' \subseteq tables'[x]
            BY DEF About
        <3>3. IsFiniteSet(tables[x]) /\ IsFiniteSet(tables'[x])
            BY <1>9, <3>1 DEF TablesInv, StoreInv
        <3>4. About(x, a, w) \subseteq About(x, a, w)'
            BY <1>4, <3>1 DEF About
        <3>. QED
            BY <3>2, <3>3, <3>4, FS_Subset, FS_CardinalityType
    <2>2. ASSUME NEW k \in DOMAIN usages PROVE Bounded(usages[k])'
        <3>1. UsageIs(usages[k]) /\ Bounded(usages[k])
            BY UsagesAre DEF StoreInv
        <3>2. \A x \in Counted : usages[k].before[x] \in Nat /\ usages[k].counts[x] \in Nat
            BY <3>1 DEF UsageIs
        <3>. QED
            BY <2>1, <3>1, <3>2 DEF Bounded
    <2>. QED
        BY <2>2 DEF StoreInv, UsagesInv
<1>16. ConsentsInv'
    <2>1. \A c \in consents : c.put <= written'
        <3> TAKE c \in consents
        <3>1. c.put \in Nat /\ c.put <= written
            BY DEF StoreInv, ConsentsInv, ConsentRecord
        <3>. QED
            BY <1>1, <1>2, <3>1
    <2>2. \A k : Told(k)' = Told(k)
        BY DEF Told, Latest, ListConsents
    <2>. QED
        BY <2>1, <2>2 DEF StoreInv, ConsentsInv
<1>. QED
    BY <1>8, <1>9, <1>10, <1>11, <1>12, <1>13, <1>14, <1>15, <1>16

Unsaid == UNCHANGED <<archive, hour, configs, consents, alive, said, reused>>
Written(n, s) == Row(s, n, n, FALSE)
LEMMA WrittenIs ==
    ASSUME StoreInv, NEW s \in archive.saves, NEW n \in Nat, n > written
    PROVE  Written(n, s) \in RowRecord(archive) /\ Written(n, s).id = n /\ \A t : Fresh(t, Written(n, s))
<1>1. hour \in Nat /\ written \in Nat
    BY DEF StoreInv, Standing
<1>2. Written(n, s) \in RowRecord(archive)
    BY <1>1 DEF Written, Row, RowRecord, WorldsOf
<1>3. Written(n, s).id = n /\ Written(n, s).source = n /\ Written(n, s).stale = FALSE
    BY DEF Written, Row
<1>4. \A i \in DOMAIN erasures : n > erasures[i].began
    <2> TAKE i \in DOMAIN erasures
    <2>1. erasures[i].began \in Nat /\ erasures[i].began <= written
        BY ErasuresAre DEF StoreInv, Erasing, ErasureIs
    <2>. QED
        BY <1>1, <2>1
<1>5. \A t : Fresh(t, Written(n, s))
    BY <1>3, <1>4 DEF Fresh, Younger
<1>. QED
    BY <1>2, <1>3, <1>5

LEMMA SaveStep ==
    ASSUME StoreInv, NEW t \in TableNames, Save(t)
    PROVE  StoreInv'
<1>1. PICK s \in archive.saves : Insert(t, {Written(written + 1, s)}) /\ Unsaid /\ NoJobs
    BY DEF Save, Unsaid, Written
<1>2. written + 1 \in Nat /\ written + 1 > written
    BY DEF StoreInv, Standing
<1>3. PICK r : r = Written(written + 1, s)
    OBVIOUS
<1>4. r \in RowRecord(archive) /\ r.id = written + 1 /\ Fresh(t, r)
    BY <1>2, <1>3, WrittenIs
<1>5. IsFiniteSet({r}) /\ Cardinality({r}) = 1
    BY FS_Singleton
<1>6. Writable(t, {r})
    BY <1>2, <1>4, <1>5 DEF Writable
<1>7. Insert(t, {r})
    BY <1>1, <1>3
<1>8. /\ Standing' /\ TablesInv' /\ ErasuresInv' /\ LostInv' /\ RowsPassed' /\ ConsentsPassed'
      /\ GoneInv' /\ UsagesInv' /\ ConsentsInv'
    BY <1>1, <1>6, <1>7, InsertStep DEF Unsaid, NoJobs
<1>9. DigestsInv' /\ DigestsPassed' /\ ConfigsAreSingle'
    BY <1>1 DEF Unsaid, NoJobs, StoreInv, DigestsInv, DigestsPassed, ConfigsAreSingle
<1>. QED
    BY <1>8, <1>9 DEF StoreInv

LEMMA SaveMemoriesStep ==
    ASSUME StoreInv, SaveMemoryEntries
    PROVE  StoreInv'
<1>1. PICK s \in archive.saves :
        Insert("memories", {Written(written + i, s) : i \in 1..2}) /\ Unsaid /\ NoJobs
    BY DEF SaveMemoryEntries, Unsaid, Written
<1>2. /\ written \in Nat /\ written + 1 \in Nat /\ written + 1 > written
      /\ written + 2 \in Nat /\ written + 2 > written /\ written + 1 # written + 2
    BY DEF StoreInv, Standing
<1>3. PICK q : q = Written(written + 1, s)
    OBVIOUS
<1>4. PICK r : r = Written(written + 2, s)
    OBVIOUS
<1>5. q \in RowRecord(archive) /\ q.id = written + 1 /\ Fresh("memories", q)
    BY <1>2, <1>3, WrittenIs
<1>6. r \in RowRecord(archive) /\ r.id = written + 2 /\ Fresh("memories", r)
    BY <1>2, <1>4, WrittenIs
<1>7. q # r
    BY <1>2, <1>5, <1>6
<1>8. IsFiniteSet({q} \cup {r}) /\ Cardinality({q} \cup {r}) = 2
    <2>1. IsFiniteSet({q}) /\ Cardinality({q}) = 1
        BY FS_Singleton
    <2>2. r \notin {q}
        BY <1>7
    <2>3. Cardinality({q} \cup {r}) = Cardinality({q}) + 1 /\ IsFiniteSet({q} \cup {r})
        BY <2>1, <2>2, FS_AddElement
    <2>. QED
        BY <2>1, <2>3
<1>9. {Written(written + i, s) : i \in 1..2} = {q} \cup {r}
    BY <1>3, <1>4
<1>10. Writable("memories", {q} \cup {r})
    BY <1>2, <1>5, <1>6, <1>8 DEF Writable
<1>11. Insert("memories", {q} \cup {r})
    BY <1>1, <1>9
<1>12. "memories" \in TableNames
    BY DEF TableNames
<1>13. /\ Standing' /\ TablesInv' /\ ErasuresInv' /\ LostInv' /\ RowsPassed' /\ ConsentsPassed'
       /\ GoneInv' /\ UsagesInv' /\ ConsentsInv'
    BY <1>1, <1>10, <1>11, <1>12, InsertStep DEF Unsaid, NoJobs
<1>14. DigestsInv' /\ DigestsPassed' /\ ConfigsAreSingle'
    BY <1>1 DEF Unsaid, NoJobs, StoreInv, DigestsInv, DigestsPassed, ConfigsAreSingle
<1>. QED
    BY <1>13, <1>14 DEF StoreInv

DigestIs(d) ==
    /\ d.agent \in MindsOf(archive) /\ d.world \in WorldsOf(archive) /\ d.stale \in BOOLEAN
    /\ d.read \subseteq Nat /\ d.read # {}
LEMMA DigestsAre == DigestsInv => \A d \in digests : DigestIs(d)
BY DEF DigestsInv, DigestRecord, DigestIs

LEMMA KnowledgeStep ==
    ASSUME StoreInv, NEW d \in digests, SaveKnowledge(d)
    PROVE  StoreInv'
<1>1. DigestIs(d) /\ Min(d.read) \in d.read
    BY DigestsAre, LeastIs DEF StoreInv, DigestIs
<1>2. PICK r : r = Row([world |-> d.world, of |-> <<d.agent>>], written + 1, Min(d.read), d.stale)
    OBVIOUS
<1>3. Insert("knowledge", {r}) /\ digests' = (digests \ {d}) \cup {[d EXCEPT !.kept = TRUE]}
    BY <1>2 DEF SaveKnowledge
<1>4. /\ written + 1 \in Nat /\ written + 1 > written /\ hour \in Nat
      /\ Min(d.read) \in Nat
    BY <1>1 DEF StoreInv, Standing, DigestIs
<1>5. /\ r.id = written + 1 /\ r.world = d.world /\ r.of = <<d.agent>> /\ r.source = Min(d.read)
      /\ r.stale = d.stale
    BY <1>2 DEF Row
<1>6. r \in RowRecord(archive)
    BY <1>1, <1>2, <1>4 DEF Row, RowRecord, DigestIs
<1>7. Fresh("knowledge", r)
    <2> SUFFICES ASSUME NEW i \in DOMAIN erasures, erasures[i].next > 1,
                        r.world = erasures[i].world, erasures[i].agent \in ToSet(r.of)
                 PROVE  Younger(r, erasures[i])
        BY <1>4, <1>5 DEF Fresh
    <2>1. d.agent = erasures[i].agent /\ d.world = erasures[i].world
        BY <1>5 DEF ToSet
    <2>2. ~d.stale => \A n \in d.read : n > erasures[i].began
        BY <2>1 DEF StoreInv, DigestsPassed
    <2>. QED
        BY <1>1, <1>5, <2>2 DEF Younger, DigestIs
<1>8. IsFiniteSet({r}) /\ Cardinality({r}) = 1
    BY FS_Singleton
<1>9. Writable("knowledge", {r})
    BY <1>4, <1>5, <1>6, <1>7, <1>8 DEF Writable
<1>10. "knowledge" \in TableNames
    BY DEF TableNames
<1>11. /\ Standing' /\ TablesInv' /\ ErasuresInv' /\ LostInv' /\ RowsPassed' /\ ConsentsPassed'
       /\ GoneInv' /\ UsagesInv' /\ ConsentsInv'
    BY <1>3, <1>9, <1>10, InsertStep DEF SaveKnowledge
<1>12. PICK x : x = [d EXCEPT !.kept = TRUE]
    OBVIOUS
<1>13. /\ x \in DigestRecord(archive) /\ x.read = d.read /\ x.agent = d.agent /\ x.world = d.world
       /\ x.stale = d.stale
    BY <1>12 DEF StoreInv, DigestsInv, DigestRecord
<1>14. digests' \subseteq digests \cup {x}
    BY <1>3, <1>12
<1>15. archive' = archive /\ erasures' = erasures /\ configs' = configs
    BY DEF SaveKnowledge
<1>16. DigestsInv' /\ DigestsPassed' /\ ConfigsAreSingle'
    BY <1>13, <1>14, <1>15 DEF StoreInv, DigestsInv, DigestsPassed, ConfigsAreSingle
<1>. QED
    BY <1>11, <1>16 DEF StoreInv

LEMMA CountStep ==
    ASSUME StoreInv, written' = written + 1, UNCHANGED <<archive, hour, tables, alive, saved, erasures>>
    PROVE  Standing' /\ TablesInv' /\ ErasuresInv' /\ written \in Nat /\ written' \in Nat
<1>1. written \in Nat /\ written' \in Nat /\ \A n \in Nat : n <= written => n <= written'
    BY DEF StoreInv, Standing
<1>2. \A s \in saved : s.row.id \in Nat /\ s.row.id <= written
    BY DEF StoreInv, TablesInv, SavedRecord, RowRecord
<1>3. \A i \in DOMAIN erasures : erasures[i].began \in Nat /\ erasures[i].began <= written
    BY ErasuresAre DEF StoreInv, Erasing, ErasureIs
<1>4. Standing'
    BY <1>1 DEF StoreInv, Standing
<1>5. TablesInv'
    BY <1>1, <1>2 DEF StoreInv, TablesInv
<1>6. ErasuresInv'
    BY <1>1, <1>3 DEF StoreInv, ErasuresInv, Erasing
<1>. QED
    BY <1>1, <1>4, <1>5, <1>6

LEMMA ConfigStep ==
    ASSUME StoreInv, SaveAgentConfig
    PROVE  StoreInv'
<1>1. Standing' /\ TablesInv' /\ ErasuresInv' /\ written \in Nat /\ written' \in Nat
    BY CountStep DEF SaveAgentConfig, NoJobs
<1>2. DigestsInv' /\ LostInv' /\ RowsPassed' /\ ConsentsPassed' /\ DigestsPassed' /\ GoneInv'
    BY DEF SaveAgentConfig, NoJobs, StoreInv, DigestsInv, LostInv, RowsPassed, ConsentsPassed,
           DigestsPassed, GoneInv, About, ListConsents
<1>3. UsagesInv'
    BY DEF SaveAgentConfig, NoJobs, StoreInv, UsagesInv, Bounded, About
<1>4. ConsentsInv'
    <2>1. \A c \in consents : c.put \in Nat /\ c.put <= written
        BY DEF StoreInv, ConsentsInv, ConsentRecord
    <2>2. written' = written + 1
        BY DEF SaveAgentConfig
    <2>3. \A c \in consents : c.put <= written'
        BY <1>1, <2>1, <2>2
    <2>4. \A k : Told(k)' = Told(k)
        BY DEF SaveAgentConfig, Told, Latest, ListConsents
    <2>. QED
        BY <2>3, <2>4 DEF SaveAgentConfig, StoreInv, ConsentsInv
<1>5. ConfigsAreSingle'
    <2>1. \E s \in archive.saves : \E new : /\ new.id = s.of /\ new.world = s.world
              /\ configs' = (configs \ GetAgentConfig(s.of, s.world)) \cup {new}
        BY DEF SaveAgentConfig
    <2>2. PICK s \in archive.saves : \E new : /\ new.id = s.of /\ new.world = s.world
              /\ configs' = (configs \ GetAgentConfig(s.of, s.world)) \cup {new}
        BY <2>1
    <2>3. PICK new : /\ new.id = s.of /\ new.world = s.world
                     /\ configs' = (configs \ GetAgentConfig(s.of, s.world)) \cup {new}
        BY <2>2
    <2>4. \A c \in configs' : c = new \/ (c \in configs /\ ~(c.id = new.id /\ c.world = new.world))
        BY <2>3 DEF GetAgentConfig
    <2>. QED
        BY <2>4 DEF StoreInv, ConfigsAreSingle
<1>. QED
    BY <1>1, <1>2, <1>3, <1>4, <1>5 DEF StoreInv

LEMMA DigestStep ==
    ASSUME StoreInv, Digest
    PROVE  StoreInv'
<1>1. PICK s \in archive.saves :
        /\ Cardinality(digests) < archive.digests
        /\ About("memories", Head(s.of), s.world) # {}
        /\ digests' = digests \cup {[agent |-> Head(s.of), world |-> s.world, stale |-> FALSE,
               kept |-> FALSE, read |-> {r.id : r \in About("memories", Head(s.of), s.world)}]}
    BY DEF Digest
<1>2. PICK d : d = [agent |-> Head(s.of), world |-> s.world, stale |-> FALSE, kept |-> FALSE,
                    read |-> {r.id : r \in About("memories", Head(s.of), s.world)}]
    OBVIOUS
<1>3. /\ "memories" \in TableNames
      /\ \A r \in tables["memories"] : r.id \in Nat /\ r.source = r.id /\ r.stale = FALSE
    <2>1. tables["memories"] \subseteq RowRecord(archive)
        BY DEF StoreInv, TablesInv, TableNames
    <2>. QED
        BY <2>1 DEF StoreInv, TablesInv, TableNames, RowRecord
<1>4. d.read \subseteq Nat /\ d.read # {}
    BY <1>1, <1>2, <1>3 DEF About
<1>5. d.agent \in MindsOf(archive) /\ d.world \in WorldsOf(archive)
    BY <1>2 DEF MindsOf, WorldsOf
<1>6. d \in DigestRecord(archive)
    BY <1>2, <1>4, <1>5 DEF DigestRecord
<1>7. archive.digests > 0
    <2>1. CASE digests # {}
        BY <2>1 DEF StoreInv, DigestsInv
    <2>2. CASE digests = {}
        BY <1>1, <2>2, FS_EmptySet
    <2>. QED
        BY <2>1, <2>2
<1>8. UNCHANGED <<archive, hour, tables, configs, consents, alive, erasures, usages, written,
                   saved, said, reused>>
    BY DEF Digest
<1>9. DigestsInv'
    BY <1>1, <1>2, <1>4, <1>6, <1>7, <1>8 DEF StoreInv, DigestsInv
<1>10. DigestsPassed'
    <2> SUFFICES ASSUME NEW i \in DOMAIN erasures, erasures[i].next > 1, d.agent = erasures[i].agent,
                        d.world = erasures[i].world, NEW n \in d.read
                 PROVE  n > erasures[i].began
        BY <1>1, <1>2, <1>8 DEF StoreInv, DigestsPassed
    <2>1. PICK r \in About("memories", d.agent, d.world) : n = r.id
        BY <1>2
    <2>2. Tables[1] = "memories" /\ 1 \in 1..5
        BY DEF Tables
    <2>3. Younger(r, erasures[i])
        BY <2>1, <2>2 DEF StoreInv, RowsPassed
    <2>. QED
        BY <1>3, <2>1, <2>3 DEF Younger, About
<1>11. Standing' /\ TablesInv' /\ ErasuresInv' /\ LostInv' /\ RowsPassed' /\ ConsentsPassed' /\ GoneInv'
    BY <1>8 DEF StoreInv, Standing, TablesInv, ErasuresInv, Erasing, LostInv, RowsPassed,
                ConsentsPassed, GoneInv, About, ListConsents
<1>12. UsagesInv' /\ ConsentsInv' /\ ConfigsAreSingle'
    <2>1. \A k : Told(k)' = Told(k)
        BY <1>8 DEF Told, Latest, ListConsents
    <2>. QED
        BY <1>8, <2>1 DEF StoreInv, UsagesInv, Bounded, About, ConsentsInv, ConfigsAreSingle
<1>. QED
    BY <1>9, <1>10, <1>11, <1>12 DEF StoreInv

(***************************************************************************)
(* Consents.                                                                 *)
(***************************************************************************)
LEMMA RenewedIs ==
    ASSUME StoreInv, NEW c \in archive.consents, NEW w \in WorldsOf(archive),
           NEW old \in SUBSET consents, NEW x, NEW y,
           x = [id |-> c.id, world |-> w, subject |-> c.subject, status |-> c.status,
                created |-> hour, updated |-> hour, put |-> written + 1],
           y = IF old = {} THEN x ELSE Renewed(x, CHOOSE d \in old : TRUE)
    PROVE  /\ y \in ConsentRecord(archive) /\ y.id = c.id /\ y.world = w /\ y.subject = c.subject
           /\ y.status = c.status /\ y.updated = hour /\ y.put = written + 1
<1>1. hour \in Nat /\ written + 1 \in Nat
    BY DEF StoreInv, Standing
<1>2. x \in ConsentRecord(archive)
    BY <1>1 DEF ConsentRecord
<1>3. CASE old = {}
    BY <1>2, <1>3
<1>4. CASE old # {}
    <2>1. PICK d : d = CHOOSE o \in old : TRUE
        OBVIOUS
    <2>2. d \in old
        BY <1>4, <2>1
    <2>3. d.created \in Nat
        BY <2>2 DEF StoreInv, ConsentsInv, ConsentRecord
    <2>4. y = [x EXCEPT !.created = d.created]
        BY <1>4, <2>1 DEF Renewed
    <2>. QED
        BY <1>2, <2>3, <2>4 DEF ConsentRecord
<1>. QED
    BY <1>3, <1>4

LEMMA WorldsAre ==
    ASSUME StoreInv, NEW w
    PROVE  /\ WorldOf(w) \in archive.active \cup {archive.latest} /\ WorldOf(w) \in WorldsOf(archive)
           /\ w = WorldOf(w) \/ w \notin alive
BY DEF StoreInv, Standing, WorldOf, WorldsOf

LEMMA ConsentStep ==
    ASSUME StoreInv, GiveConsent
    PROVE  StoreInv'
<1>1. PICK c \in archive.consents : UpsertConsent(c, WorldOf(c.world))
    BY DEF GiveConsent
<1>2. PICK w : w = WorldOf(c.world)
    OBVIOUS
<1>3. PICK old : old = {d \in consents : d.id = c.id}
    OBVIOUS
<1>4. PICK x : x = [id |-> c.id, world |-> w, subject |-> c.subject, status |-> c.status,
                    created |-> hour, updated |-> hour, put |-> written + 1]
    OBVIOUS
<1>5. PICK y : y = IF old = {} THEN x ELSE Renewed(x, CHOOSE d \in old : TRUE)
    OBVIOUS
<1>6. /\ consents' = (consents \ old) \cup {y}
      /\ said' = [said EXCEPT ![<<w, c.subject>>] = <<c.status>>]
      /\ reused' = (reused \cup {<<d.world, d.subject>> : d \in old}) \ {<<w, c.subject>>}
    BY <1>1, <1>2, <1>3, <1>4, <1>5 DEF UpsertConsent
<1>7. /\ written' = written + 1
      /\ UNCHANGED <<archive, hour, tables, configs, alive, saved, erasures, usages, digests>>
    BY DEF GiveConsent, NoJobs
<1>8. w \in archive.active \cup {archive.latest} /\ w \in WorldsOf(archive)
    BY <1>2, WorldsAre
<1>9. old \in SUBSET consents
    BY <1>3
<1>10. /\ y \in ConsentRecord(archive) /\ y.id = c.id /\ y.world = w /\ y.subject = c.subject
       /\ y.status = c.status /\ y.updated = hour /\ y.put = written + 1
    BY <1>4, <1>5, <1>8, <1>9, RenewedIs
<1>11. Standing' /\ TablesInv' /\ ErasuresInv' /\ written \in Nat /\ written' \in Nat
    BY <1>7, CountStep
<1>12. /\ DigestsInv' /\ LostInv' /\ RowsPassed' /\ DigestsPassed' /\ GoneInv'
       /\ UsagesInv' /\ ConfigsAreSingle'
    BY <1>7 DEF StoreInv, DigestsInv, LostInv, RowsPassed, DigestsPassed, GoneInv, About,
                UsagesInv, Bounded, ConfigsAreSingle
<1>13. ConsentsPassed'
    <2> SUFFICES ASSUME NEW i \in DOMAIN erasures, erasures[i].next = 7, NEW d \in consents',
                        d.world = erasures[i].world, d.subject = erasures[i].agent
                 PROVE  d.put > erasures[i].began
        BY <1>7 DEF ConsentsPassed, ListConsents
    <2>1. CASE d \in consents
        BY <2>1 DEF StoreInv, ConsentsPassed, ListConsents
    <2>2. CASE d \notin consents
        <3>1. d.put = written + 1
            BY <1>6, <1>10, <2>2
        <3>2. erasures[i].began \in Nat /\ erasures[i].began <= written
            BY ErasuresAre DEF StoreInv, Erasing, ErasureIs
        <3>. QED
            BY <1>11, <3>1, <3>2
    <2>. QED
        BY <2>1, <2>2
<1>14. ConsentsInv'
    <2>1. consents' \subseteq ConsentRecord(archive) /\ IsFiniteSet(consents')
        <3>1. IsFiniteSet(consents \ old)
            BY FS_Difference DEF StoreInv, ConsentsInv
        <3>2. IsFiniteSet((consents \ old) \cup {y})
            BY <3>1, FS_AddElement
        <3>. QED
            BY <1>6, <1>10, <3>2 DEF StoreInv, ConsentsInv
    <2>2. \A d \in consents' : d = y \/ (d \in consents /\ d.id # c.id)
        BY <1>3, <1>6
    <2>3. \A d, e \in consents' : d.id = e.id => d = e
        BY <1>10, <2>2 DEF StoreInv, ConsentsInv
    <2>4. hour \in Nat /\ \A d \in consents :
              d.updated \in Nat /\ d.put \in Nat /\ d.updated <= hour /\ d.put <= written
        BY DEF StoreInv, Standing, ConsentsInv, ConsentRecord
    <2>5. \A d \in consents' : d.updated <= hour' /\ d.put <= written'
        BY <1>7, <1>10, <1>11, <2>2, <2>4
    <2>6. DOMAIN said' = ConsentKeys(archive)
        BY <1>6 DEF StoreInv, ConsentsInv
    <2>7. ASSUME NEW k \in ConsentKeys(archive) PROVE Told(k)'
        <3>1. k \in DOMAIN said /\ Told(k)
            BY DEF StoreInv, ConsentsInv
        <3>2. CASE k = <<w, c.subject>>
            <4>1. said'[k] = <<c.status>>
                BY <1>6, <3>1, <3>2
            <4>2. y \in consents' /\ y.world = k[1] /\ y.subject = k[2]
                BY <1>6, <1>10, <3>2
            <4>3. \A d \in consents' : y.updated >= d.updated
                BY <1>7, <1>10, <2>4, <2>5
            <4>4. y \in ListConsents(k[1], k[2])'
                BY <4>2 DEF ListConsents
            <4>5. Latest(k, c.status)'
                BY <1>10, <4>3, <4>4 DEF Latest, ListConsents
            <4>. QED
                BY <1>7, <4>1, <4>5 DEF Told
        <3>3. CASE k # <<w, c.subject>>
            <4>1. said'[k] = said[k]
                BY <1>6, <3>1, <3>3
            <4>2. k = <<k[1], k[2]>>
                BY DEF ConsentKeys
            <4>3. k \notin reused' => k \notin reused /\ \A d \in old : <<d.world, d.subject>> # k
                BY <1>6, <3>3
            <4>4. k \notin reused' => ListConsents(k[1], k[2])' = ListConsents(k[1], k[2])
                <5> SUFFICES ASSUME k \notin reused'
                             PROVE  ListConsents(k[1], k[2])' = ListConsents(k[1], k[2])
                    OBVIOUS
                <5>1. ~(y.world = k[1] /\ y.subject = k[2])
                    BY <1>10, <3>3, <4>2
                <5>2. \A d \in old : ~(d.world = k[1] /\ d.subject = k[2])
                    BY <4>2, <4>3
                <5>. QED
                    BY <1>6, <5>1, <5>2 DEF ListConsents
            <4>. QED
                BY <1>7, <3>1, <4>1, <4>3, <4>4 DEF Told, Latest
        <3>. QED
            BY <3>2, <3>3
    <2>. QED
        BY <1>7, <2>1, <2>3, <2>5, <2>6, <2>7 DEF ConsentsInv
<1>. QED
    BY <1>11, <1>12, <1>13, <1>14 DEF StoreInv

(***************************************************************************)
(* What is read, counted and erased.                                          *)
(***************************************************************************)
LEMMA SeqReplaced ==
    ASSUME NEW S, NEW q \in Seq(S), NEW i \in DOMAIN q, NEW x \in S
    PROVE  /\ [q EXCEPT ![i] = x] \in Seq(S) /\ DOMAIN [q EXCEPT ![i] = x] = DOMAIN q
           /\ \A j \in DOMAIN q : [q EXCEPT ![i] = x][j] = IF j = i THEN x ELSE q[j]
<1>1. DOMAIN q = 1..Len(q)
    BY LenProperties
<1>. QED
    BY <1>1, ExceptSeq

LEMMA SeqAppended ==
    ASSUME NEW S, NEW q \in Seq(S), NEW x \in S
    PROVE  /\ Append(q, x) \in Seq(S) /\ DOMAIN q \subseteq DOMAIN Append(q, x)
           /\ \A j \in DOMAIN Append(q, x) : IF j \in DOMAIN q THEN Append(q, x)[j] = q[j]
                                                              ELSE Append(q, x)[j] = x
<1>1. Len(q) \in Nat /\ DOMAIN q = 1..Len(q)
    BY LenProperties
<1>2. Append(q, x) \in Seq(S) /\ Len(Append(q, x)) = Len(q) + 1
    BY AppendProperties
<1>3. DOMAIN Append(q, x) = 1..(Len(q) + 1)
    BY <1>2, LenProperties
<1>4. /\ \A j \in 1..Len(q) : Append(q, x)[j] = q[j]
      /\ Append(q, x)[Len(q) + 1] = x
    BY AppendProperties
<1>. QED
    BY <1>1, <1>2, <1>3, <1>4

LEMMA SeqMapped ==
    ASSUME NEW S, NEW q \in Seq(S), NEW p, p = [k \in DOMAIN q |-> p[k]], \A k \in DOMAIN q : p[k] \in S
    PROVE  p \in Seq(S) /\ DOMAIN p = DOMAIN q
<1>1. Len(q) \in Nat /\ DOMAIN q = 1..Len(q)
    BY LenProperties
<1>2. p \in [1..Len(q) -> S]
    BY <1>1
<1>. QED
    BY <1>1, <1>2, SeqDef

LEMMA BoundedStays == UNCHANGED tables => \A u : Bounded(u) => Bounded(u)'
<1> SUFFICES ASSUME UNCHANGED tables, NEW u, Bounded(u) PROVE Bounded(u)'
    OBVIOUS
<1>1. \A t, a, w : About(t, a, w)' = About(t, a, w)
    BY DEF About
<1>. QED
    BY <1>1 DEF Bounded

\* A change of erasures or of estimates alone.
LEMMA FrameStep ==
    ASSUME StoreInv,
           UNCHANGED <<archive, hour, tables, configs, consents, alive, digests, written, saved, said,
                       reused>>
    PROVE  /\ Standing' /\ TablesInv' /\ DigestsInv' /\ ConsentsInv' /\ ConfigsAreSingle'
           /\ UNCHANGED usages => UsagesInv'
           /\ UNCHANGED erasures => ErasuresInv' /\ LostInv' /\ RowsPassed' /\ ConsentsPassed'
                                    /\ DigestsPassed' /\ GoneInv'
<1>1. Standing' /\ TablesInv' /\ DigestsInv' /\ ConfigsAreSingle'
    BY DEF StoreInv, Standing, TablesInv, DigestsInv, ConfigsAreSingle
<1>2. ConsentsInv'
    <2>1. \A k : Told(k)' = Told(k)
        BY DEF Told, Latest, ListConsents
    <2>. QED
        BY <2>1 DEF StoreInv, ConsentsInv
<1>3. UNCHANGED usages => UsagesInv'
    BY BoundedStays DEF StoreInv, UsagesInv
<1>4. UNCHANGED erasures => ErasuresInv' /\ LostInv' /\ RowsPassed' /\ ConsentsPassed'
                            /\ DigestsPassed' /\ GoneInv'
    BY DEF StoreInv, ErasuresInv, Erasing, LostInv, RowsPassed, ConsentsPassed, DigestsPassed,
           GoneInv, About, ListConsents
<1>. QED
    BY <1>1, <1>2, <1>3, <1>4

Others == UNCHANGED <<archive, hour, tables, configs, consents, alive, digests, written, saved, said,
                      reused>>

LEMMA AskUsageStep ==
    ASSUME StoreInv, AskUsage
    PROVE  StoreInv'
<1>1. \E a \in archive.erasing, w \in WorldsOf(archive) :
        usages' = Append(usages, [agent |-> a, world |-> w, left |-> Counted \cup {"bytes"},
               counts |-> [t \in Counted |-> 0], bytes |-> 0, erased |-> FALSE,
               before |-> [t \in Counted |-> Cardinality(About(t, a, w))]])
    BY WorldsAre DEF AskUsage
<1>2. PICK a \in archive.erasing, w \in WorldsOf(archive) :
        usages' = Append(usages, [agent |-> a, world |-> w, left |-> Counted \cup {"bytes"},
               counts |-> [t \in Counted |-> 0], bytes |-> 0, erased |-> FALSE,
               before |-> [t \in Counted |-> Cardinality(About(t, a, w))]])
    BY <1>1
<1>3. PICK u :
        u = [agent |-> a, world |-> w, left |-> Counted \cup {"bytes"},
               counts |-> [t \in Counted |-> 0], bytes |-> 0, erased |-> FALSE,
               before |-> [t \in Counted |-> Cardinality(About(t, a, w))]]
    OBVIOUS
<1>4. Others /\ erasures' = erasures
    BY DEF AskUsage, Others
<1>5. \A t \in Counted : Cardinality(About(t, a, w)) \in Nat
    <2> TAKE t \in Counted
    <2>1. t \in TableNames
        BY DEF Counted, TableNames
    <2>2. IsFiniteSet(tables[t]) /\ About(t, a, w) \subseteq tables[t]
        BY <2>1 DEF StoreInv, TablesInv, About
    <2>. QED
        BY <2>2, FS_Subset, FS_CardinalityType
<1>6. u \in UsageRecord(archive)
    BY <1>3, <1>5 DEF UsageRecord
<1>7. Bounded(u)
    BY <1>3, <1>5 DEF Bounded
<1>8. UsagesInv'
    <2>1. PICK S : S = UsageRecord(archive)
        OBVIOUS
    <2>2. usages \in Seq(S) /\ \A k \in DOMAIN usages : Bounded(usages[k])
        BY <2>1 DEF StoreInv, UsagesInv
    <2>3. PICK q : q = Append(usages, u)
        OBVIOUS
    <2>4. q \in Seq(S) /\ \A j \in DOMAIN q : IF j \in DOMAIN usages THEN q[j] = usages[j] ELSE q[j] = u
        BY <1>6, <2>1, <2>2, <2>3, SeqAppended
    <2>5. \A j \in DOMAIN q : Bounded(q[j])
        BY <1>7, <2>2, <2>4
    <2>. QED
        BY <1>2, <1>3, <1>4, <2>1, <2>3, <2>4, <2>5, BoundedStays DEF Others, UsagesInv
<1>. QED
    BY <1>4, <1>8, FrameStep DEF Others, StoreInv

LEMMA EstimateStep ==
    ASSUME StoreInv, NEW i \in DOMAIN usages, NEW t \in Counted \cup {"bytes"}, Estimate(i, t)
    PROVE  StoreInv'
<1>1. PICK u : u = usages[i]
    OBVIOUS
<1>2. UsageIs(u) /\ Bounded(u)
    BY <1>1, UsagesAre DEF StoreInv
<1>3. \A x \in Counted : Cardinality(About(x, u.agent, u.world)) \in Nat
    <2> TAKE x \in Counted
    <2>1. x \in TableNames
        BY DEF Counted, TableNames
    <2>2. IsFiniteSet(tables[x]) /\ About(x, u.agent, u.world) \subseteq tables[x]
        BY <2>1 DEF StoreInv, TablesInv, About
    <2>. QED
        BY <2>2, FS_Subset, FS_CardinalityType
<1>4. PICK n : /\ n \in [Counted -> Nat]
               /\ \A x \in Counted : n[x] = Cardinality(About(x, u.agent, u.world))
    <2>1. PICK n : n = [x \in Counted |-> Cardinality(About(x, u.agent, u.world))]
        OBVIOUS
    <2>2. n \in [Counted -> Nat] /\ \A x \in Counted : n[x] = Cardinality(About(x, u.agent, u.world))
        BY <1>3, <2>1
    <2>. QED
        BY <2>2
<1>5. PICK v : /\ usages' = [usages EXCEPT ![i] = v]
               /\ v = IF t = "bytes"
                      THEN Answered(u, t, u.counts, n["memories"] + n["conversations"] + n["knowledge"])
                      ELSE Answered(u, t, [u.counts EXCEPT ![t] = n[t]], u.bytes)
    BY <1>1, <1>4 DEF Estimate, CountMemoryEntries, Counted
<1>6. Others /\ erasures' = erasures
    BY DEF Estimate, Others
<1>7. v \in UsageRecord(archive) /\ Bounded(v)
    <2>1. CASE t = "bytes"
        <3>1. v = Answered(u, t, u.counts, n["memories"] + n["conversations"] + n["knowledge"])
            BY <1>5, <2>1
        <3>2. n["memories"] + n["conversations"] + n["knowledge"] \in Nat
            BY <1>4 DEF Counted
        <3>3. v \in UsageRecord(archive)
            BY <1>2, <3>1, <3>2 DEF Answered, UsageIs, UsageRecord
        <3>4. \A x \in Counted : x \notin v.left => x \notin u.left
            BY <2>1, <3>1 DEF Answered, Counted
        <3>5. /\ v.erased = u.erased /\ v.before = u.before /\ v.counts = u.counts
              /\ v.agent = u.agent /\ v.world = u.world
            BY <3>1 DEF Answered
        <3>. QED
            BY <1>2, <3>3, <3>4, <3>5 DEF Bounded
    <2>2. CASE t # "bytes"
        <3>1. t \in Counted /\ v = Answered(u, t, [u.counts EXCEPT ![t] = n[t]], u.bytes)
            BY <1>5, <2>2
        <3>2. [u.counts EXCEPT ![t] = n[t]] \in [Counted -> Nat]
            BY <1>2, <1>4, <3>1 DEF UsageIs
        <3>3. v \in UsageRecord(archive)
            BY <1>2, <3>1, <3>2 DEF Answered, UsageIs, UsageRecord
        <3>4. /\ v.erased = u.erased /\ v.before = u.before /\ v.agent = u.agent /\ v.world = u.world
              /\ v.counts[t] = n[t] /\ \A x \in Counted : x # t => v.counts[x] = u.counts[x]
              /\ v.left = u.left \ {t}
            BY <1>2, <3>1 DEF Answered, UsageIs
        <3>5. n[t] \in Nat /\ n[t] = Cardinality(About(t, u.agent, u.world))
            BY <1>4, <3>1
        <3>. QED
            BY <1>2, <3>1, <3>3, <3>4, <3>5 DEF Bounded
    <2>. QED
        BY <2>1, <2>2
<1>8. UsagesInv'
    <2>1. PICK S : S = UsageRecord(archive)
        OBVIOUS
    <2>2. usages \in Seq(S) /\ \A k \in DOMAIN usages : Bounded(usages[k])
        BY <2>1 DEF StoreInv, UsagesInv
    <2>3. PICK q : q = [usages EXCEPT ![i] = v]
        OBVIOUS
    <2>4. /\ q \in Seq(S) /\ DOMAIN q = DOMAIN usages
          /\ \A j \in DOMAIN q : q[j] = IF j = i THEN v ELSE usages[j]
        BY <1>7, <2>1, <2>2, <2>3, SeqReplaced
    <2>5. \A j \in DOMAIN q : Bounded(q[j])
        BY <1>7, <2>2, <2>4
    <2>. QED
        BY <1>5, <1>6, <2>1, <2>3, <2>4, <2>5, BoundedStays DEF Others, UsagesInv
<1>. QED
    BY <1>6, <1>8, FrameStep DEF Others, StoreInv

LEMMA EraseStep ==
    ASSUME StoreInv, Erase
    PROVE  StoreInv'
<1>1. \E a \in archive.erasing, asked \in archive.active :
        erasures' = Append(erasures, [agent |-> a, asked |-> asked, world |-> WorldOf(asked),
                                      began |-> written, next |-> 1, gone |-> {}])
    BY DEF Erase
<1>2. PICK a \in archive.erasing, asked \in archive.active :
        erasures' = Append(erasures, [agent |-> a, asked |-> asked, world |-> WorldOf(asked),
                                      began |-> written, next |-> 1, gone |-> {}])
    BY <1>1
<1>3. PICK e : e = [agent |-> a, asked |-> asked, world |-> WorldOf(asked), began |-> written,
                    next |-> 1, gone |-> {}]
    OBVIOUS
<1>4. Others /\ usages' = usages
    BY DEF Erase, Others
<1>5. e \in ErasureRecord(archive) /\ Erasing(e) /\ e.next = 1 /\ e.gone = {}
    <2>1. WorldOf(asked) \in WorldsOf(archive) /\ (asked = WorldOf(asked) \/ asked \notin alive)
        BY WorldsAre
    <2>2. written \in Nat
        BY DEF StoreInv, Standing
    <2>. QED
        BY <1>3, <2>1, <2>2 DEF ErasureRecord, Erasing
<1>6. PICK S : S = ErasureRecord(archive)
    OBVIOUS
<1>7. erasures \in Seq(S)
    BY <1>6 DEF StoreInv, ErasuresInv
<1>8. PICK q : q = Append(erasures, e)
    OBVIOUS
<1>9. /\ q \in Seq(S) /\ DOMAIN erasures \subseteq DOMAIN q
      /\ \A j \in DOMAIN q : IF j \in DOMAIN erasures THEN q[j] = erasures[j] ELSE q[j] = e
    BY <1>5, <1>6, <1>7, <1>8, SeqAppended
<1>10. erasures' = q
    BY <1>2, <1>3, <1>8
<1>11. ErasuresInv'
    <2>1. \A j \in DOMAIN q : Erasing(q[j])
        BY <1>5, <1>9 DEF StoreInv, ErasuresInv
    <2>. QED
        BY <1>4, <1>6, <1>9, <1>10, <2>1 DEF Others, ErasuresInv, Erasing
<1>12. LostInv'
    BY <1>4, <1>9, <1>10 DEF Others, StoreInv, LostInv
<1>13. \A n \in 1..5 : ~(n < 1)
    OBVIOUS
<1>14. RowsPassed' /\ ConsentsPassed' /\ DigestsPassed'
    BY <1>4, <1>5, <1>9, <1>10, <1>13 DEF Others, StoreInv, RowsPassed, ConsentsPassed, DigestsPassed,
       About, ListConsents
<1>15. GoneInv'
    <2>1. DOMAIN q = 1..Len(q) /\ DOMAIN erasures = 1..Len(erasures)
        BY <1>7, <1>9, LenProperties
    <2>2. \A j \in DOMAIN q : j \notin DOMAIN erasures => q[j].gone = {}
        BY <1>5, <1>9
    <2>3. \A j \in DOMAIN erasures : q[j] = erasures[j]
        BY <1>9
    <2>. QED
        BY <1>4, <1>10, <2>2, <2>3 DEF Others, StoreInv, GoneInv
<1>. QED
    BY <1>4, <1>11, <1>12, <1>14, <1>15, FrameStep DEF Others, StoreInv

LEMMA FailStep ==
    ASSUME StoreInv, NEW i \in DOMAIN erasures, EraseFails(i)
    PROVE  StoreInv'
<1>1. PICK e : e = erasures[i]
    OBVIOUS
<1>2. PICK f : f = [e EXCEPT !.next = 0]
    OBVIOUS
<1>3. erasures' = [erasures EXCEPT ![i] = f] /\ Others /\ usages' = usages
    BY <1>1, <1>2 DEF EraseFails, Others
<1>4. ErasureIs(e) /\ Erasing(e)
    BY <1>1, ErasuresAre DEF StoreInv
<1>5. /\ f \in ErasureRecord(archive) /\ f.next = 0 /\ f.gone = e.gone /\ f.agent = e.agent
      /\ f.world = e.world /\ f.asked = e.asked /\ f.began = e.began
    BY <1>2, <1>4 DEF ErasureIs, ErasureRecord
<1>6. PICK S : S = ErasureRecord(archive)
    OBVIOUS
<1>7. erasures \in Seq(S)
    BY <1>6 DEF StoreInv, ErasuresInv
<1>8. PICK q : q = [erasures EXCEPT ![i] = f]
    OBVIOUS
<1>9. /\ q \in Seq(S) /\ DOMAIN q = DOMAIN erasures
      /\ \A j \in DOMAIN q : q[j] = IF j = i THEN f ELSE erasures[j]
    BY <1>5, <1>6, <1>7, <1>8, SeqReplaced
<1>10. erasures' = q
    BY <1>3, <1>8
<1>11. ErasuresInv'
    <2>1. \A j \in DOMAIN q : Erasing(q[j])
        BY <1>1, <1>4, <1>5, <1>9 DEF StoreInv, ErasuresInv, Erasing
    <2>. QED
        BY <1>3, <1>6, <1>9, <1>10, <2>1 DEF Others, ErasuresInv, Erasing
<1>12. LostInv'
    <2>1. \A s : \A j \in DOMAIN erasures : Reason(s, erasures[j]) => Reason(s, q[j])
        BY <1>1, <1>5, <1>9 DEF Reason
    <2>. QED
        BY <1>3, <1>9, <1>10, <2>1 DEF Others, StoreInv, LostInv
<1>13. \A n \in 1..5 : ~(n < 0)
    OBVIOUS
<1>14. RowsPassed' /\ ConsentsPassed' /\ DigestsPassed'
    BY <1>3, <1>5, <1>9, <1>10, <1>13 DEF Others, StoreInv, RowsPassed, ConsentsPassed, DigestsPassed,
       About, ListConsents
<1>15. GoneInv'
    <2>1. \A j \in DOMAIN q : q[j].gone = erasures[j].gone
        BY <1>1, <1>5, <1>9
    <2>. QED
        BY <1>3, <1>9, <1>10, <2>1 DEF Others, StoreInv, GoneInv
<1>. QED
    BY <1>3, <1>11, <1>12, <1>14, <1>15, FrameStep DEF Others, StoreInv

LEMMA WorldEndsStep ==
    ASSUME StoreInv, WorldEnds
    PROVE  StoreInv'
<1>1. /\ alive' \subseteq alive
      /\ UNCHANGED <<archive, hour, tables, configs, consents, written, saved, said, reused, erasures,
                     usages, digests>>
    BY DEF WorldEnds, NoJobs
<1>2. Standing' /\ TablesInv' /\ DigestsInv' /\ ConfigsAreSingle' /\ UsagesInv'
    BY <1>1 DEF StoreInv, Standing, TablesInv, DigestsInv, ConfigsAreSingle, UsagesInv, Bounded, About
<1>3. ConsentsInv'
    <2>1. \A k : Told(k)' = Told(k)
        BY <1>1 DEF Told, Latest, ListConsents
    <2>. QED
        BY <1>1, <2>1 DEF StoreInv, ConsentsInv
<1>4. ErasuresInv' /\ LostInv' /\ RowsPassed' /\ ConsentsPassed' /\ DigestsPassed' /\ GoneInv'
    BY <1>1 DEF StoreInv, ErasuresInv, Erasing, LostInv, RowsPassed, ConsentsPassed, DigestsPassed,
           GoneInv, About, ListConsents
<1>. QED
    BY <1>2, <1>3, <1>4 DEF StoreInv

LEMMA PassesStep ==
    ASSUME StoreInv, Passes
    PROVE  StoreInv'
<1>1. /\ hour \in Nat /\ hour' = hour + 1
      /\ UNCHANGED <<archive, tables, configs, consents, alive, written, saved, said, reused, erasures,
                     usages, digests>>
    BY DEF Passes, NoJobs, StoreInv, Standing
<1>2. Standing' /\ TablesInv' /\ DigestsInv' /\ ConfigsAreSingle' /\ UsagesInv'
  <2>1. Standing'
      BY <1>1 DEF StoreInv, Standing
  <2>2. TablesInv' /\ DigestsInv' /\ ConfigsAreSingle'
      BY <1>1 DEF StoreInv, TablesInv, DigestsInv, ConfigsAreSingle
  <2>3. UsagesInv'
      BY <1>1 DEF StoreInv, UsagesInv, Bounded, About
  <2>. QED
      BY <2>1, <2>2, <2>3
<1>3. ConsentsInv'
    <2>1. \A k : Told(k)' = Told(k)
        BY <1>1 DEF Told, Latest, ListConsents
    <2>2. \A c \in consents : c.updated \in Nat /\ c.updated <= hour
        BY DEF StoreInv, ConsentsInv, ConsentRecord
    <2>3. \A c \in consents : c.updated <= hour'
        BY <1>1, <2>2
    <2>. QED
        BY <1>1, <2>1, <2>3 DEF StoreInv, ConsentsInv
<1>4. ErasuresInv' /\ LostInv' /\ RowsPassed' /\ ConsentsPassed' /\ DigestsPassed' /\ GoneInv'
    BY <1>1 DEF StoreInv, ErasuresInv, Erasing, LostInv, RowsPassed, ConsentsPassed, DigestsPassed,
           GoneInv, About, ListConsents
<1>. QED
    BY <1>2, <1>3, <1>4 DEF StoreInv

\* Rows only go.
Thinned == \A t \in TableNames : tables'[t] \subseteq tables[t]
LEMMA ThinStep ==
    ASSUME StoreInv, tables' \in [TableNames -> SUBSET RowRecord(archive)], Thinned,
           UNCHANGED <<archive, hour, configs, consents, alive, written, saved, said, reused>>
    PROVE  /\ Standing' /\ TablesInv' /\ ConsentsInv' /\ ConfigsAreSingle'
           /\ \A s \in saved : s.row \notin tables[s.table] => s.row \notin tables'[s.table]
           /\ \A r, a, w : \A t \in TableNames : r \in About(t, a, w)' => r \in About(t, a, w)
<1>1. Standing' /\ ConfigsAreSingle'
    BY DEF StoreInv, Standing, ConfigsAreSingle
<1>2. TablesInv'
    <2>1. \A t \in TableNames : IsFiniteSet(tables'[t])
        BY FS_Subset DEF Thinned, StoreInv, TablesInv
    <2>. QED
        BY <2>1 DEF Thinned, StoreInv, TablesInv
<1>3. ConsentsInv'
    <2>1. \A k : Told(k)' = Told(k)
        BY DEF Told, Latest, ListConsents
    <2>. QED
        BY <2>1 DEF StoreInv, ConsentsInv
<1>4. \A s \in saved : s.row \notin tables[s.table] => s.row \notin tables'[s.table]
    BY DEF StoreInv, TablesInv, SavedRecord, Thinned
<1>5. \A r, a, w : \A t \in TableNames : r \in About(t, a, w)' => r \in About(t, a, w)
    BY DEF About, Thinned
<1>. QED
    BY <1>1, <1>2, <1>3, <1>4, <1>5

\* An estimate that an erasure crosses promises nothing.
LEMMA ErasedUsages ==
    ASSUME StoreInv, archive' = archive,
           usages' = [k \in DOMAIN usages |-> [usages[k] EXCEPT !.erased = TRUE]]
    PROVE  UsagesInv'
<1>1. PICK S : S = UsageRecord(archive)
    OBVIOUS
<1>2. PICK p : p = [k \in DOMAIN usages |-> [usages[k] EXCEPT !.erased = TRUE]]
    OBVIOUS
<1>3. ASSUME NEW k \in DOMAIN usages PROVE p[k] \in S /\ p[k].erased
    <2>1. PICK u : u = usages[k]
        OBVIOUS
    <2>2. p[k] = [u EXCEPT !.erased = TRUE]
        BY <1>2, <2>1
    <2>3. UsageIs(u)
        BY <2>1, UsagesAre DEF StoreInv
    <2>. QED
        BY <1>1, <2>2, <2>3 DEF UsageIs, UsageRecord
<1>4. usages \in Seq(S)
    BY <1>1 DEF StoreInv, UsagesInv
<1>5. p \in Seq(S) /\ DOMAIN p = DOMAIN usages
    <2>1. p = [k \in DOMAIN usages |-> p[k]]
        BY <1>2
    <2>. QED
        BY <1>3, <1>4, <2>1, SeqMapped
<1>6. usages' = p
    BY <1>2
<1>7. \A k \in DOMAIN p : Bounded(p[k])'
    BY <1>3, <1>5 DEF Bounded
<1>. QED
    BY <1>1, <1>5, <1>6, <1>7 DEF UsagesInv

LEMMA DeleteMemoriesStep ==
    ASSUME StoreInv, NEW d \in digests, DeleteMemoryEntries(d)
    PROVE  StoreInv'
<1>1. PICK low \in SUBSET d.read :
        /\ digests' = digests \ {d}
        /\ tables' = [tables EXCEPT !["memories"] = {r \in @ : r.id \notin low}]
    BY DEF DeleteMemoryEntries
<1>2. usages' = [k \in DOMAIN usages |-> [usages[k] EXCEPT !.erased = TRUE]]
    BY DEF DeleteMemoryEntries
<1>3. UNCHANGED <<archive, hour, configs, consents, alive, erasures, written, saved, said, reused>>
    BY DEF DeleteMemoryEntries
<1>4. tables \in [TableNames -> SUBSET RowRecord(archive)] /\ "memories" \in TableNames
    BY DEF StoreInv, TablesInv, TableNames
<1>5. \A t \in TableNames :
        tables'[t] = IF t = "memories" THEN {r \in tables[t] : r.id \notin low} ELSE tables[t]
    BY <1>1, <1>4
<1>6. tables' \in [TableNames -> SUBSET RowRecord(archive)] /\ Thinned
    <2>1. {r \in tables["memories"] : r.id \notin low} \in SUBSET RowRecord(archive)
        BY <1>4
    <2>. QED
        BY <1>1, <1>4, <1>5, <2>1 DEF Thinned
<1>7. /\ Standing' /\ TablesInv' /\ ConsentsInv' /\ ConfigsAreSingle'
      /\ \A s \in saved : s.row \notin tables[s.table] => s.row \notin tables'[s.table]
      /\ \A r, a, w : \A t \in TableNames : r \in About(t, a, w)' => r \in About(t, a, w)
    BY <1>3, <1>6, ThinStep
<1>8. archive.digests > 0
    BY DEF StoreInv, DigestsInv
<1>9. DigestsInv' /\ DigestsPassed'
    BY <1>1, <1>3, <1>8 DEF StoreInv, DigestsInv, DigestsPassed
<1>10. ErasuresInv' /\ ConsentsPassed'
    BY <1>3 DEF StoreInv, ErasuresInv, Erasing, ConsentsPassed, ListConsents
<1>11. LostInv'
    <2>1. \A s \in saved : s.table \in TableNames
        BY DEF StoreInv, TablesInv, SavedRecord
    <2>. QED
        BY <1>3, <1>5, <1>8, <2>1 DEF StoreInv, LostInv
<1>12. RowsPassed'
    <2>1. \A n \in 1..5 : Tables[n] \in TableNames
        BY DEF Tables, TableNames
    <2>. QED
        BY <1>3, <1>7, <2>1 DEF StoreInv, RowsPassed
<1>13. GoneInv'
    BY <1>3, <1>7 DEF StoreInv, GoneInv
<1>14. UsagesInv'
    BY <1>2, <1>3, ErasedUsages
<1>. QED
    BY <1>7, <1>9, <1>10, <1>11, <1>12, <1>13, <1>14 DEF StoreInv

LEMMA OnwardIs ==
    ASSUME NEW e, NEW more, ErasureIs(e), Erasing(e), e.next \in 1..6, more \subseteq SavedRecord(archive)
    PROVE  /\ Onward(e, more) \in ErasureRecord(archive) /\ Erasing(Onward(e, more))
           /\ Onward(e, more).next = e.next + 1 /\ Onward(e, more).gone = e.gone \cup more
           /\ Onward(e, more).agent = e.agent /\ Onward(e, more).world = e.world
           /\ Onward(e, more).asked = e.asked /\ Onward(e, more).began = e.began
BY DEF Onward, ErasureIs, ErasureRecord, Erasing

LEMMA DeleteConsentsStep ==
    ASSUME StoreInv, NEW i \in DOMAIN erasures, DeleteConsents(i)
    PROVE  StoreInv'
<1>1. PICK e : e = erasures[i]
    OBVIOUS
<1>2. PICK f : f = Onward(e, {})
    OBVIOUS
<1>3. /\ erasures' = [erasures EXCEPT ![i] = f] /\ e.next = 6
      /\ consents' = consents \ ListConsents(e.world, e.agent)
      /\ said' = [k \in DOMAIN said |-> IF k = <<e.world, e.agent>> THEN <<>> ELSE said[k]]
      /\ reused' = reused \ {<<e.world, e.agent>>}
    BY <1>1, <1>2 DEF DeleteConsents
<1>4. UNCHANGED <<archive, hour, tables, configs, alive, usages, digests, written, saved>>
    BY DEF DeleteConsents
<1>5. ErasureIs(e) /\ Erasing(e)
    BY <1>1, ErasuresAre DEF StoreInv
<1>6. /\ f \in ErasureRecord(archive) /\ Erasing(f) /\ f.next = 7 /\ f.gone = e.gone /\ f.agent = e.agent
      /\ f.world = e.world /\ f.asked = e.asked /\ f.began = e.began
    <2>1. e.next \in 1..6 /\ {} \subseteq SavedRecord(archive)
        BY <1>3
    <2>2. /\ f \in ErasureRecord(archive) /\ Erasing(f) /\ f.next = e.next + 1 /\ f.gone = e.gone \cup {}
          /\ f.agent = e.agent /\ f.world = e.world /\ f.asked = e.asked /\ f.began = e.began
        BY <1>2, <1>5, <2>1, OnwardIs
    <2>. QED
        BY <1>3, <2>2
<1>7. PICK S : S = ErasureRecord(archive)
    OBVIOUS
<1>8. erasures \in Seq(S)
    BY <1>7 DEF StoreInv, ErasuresInv
<1>9. PICK q : q = [erasures EXCEPT ![i] = f]
    OBVIOUS
<1>10. /\ q \in Seq(S) /\ DOMAIN q = DOMAIN erasures
       /\ \A j \in DOMAIN q : q[j] = IF j = i THEN f ELSE erasures[j]
    BY <1>6, <1>7, <1>8, <1>9, SeqReplaced
<1>11. erasures' = q
    BY <1>3, <1>9
<1>12. ErasuresInv'
    <2>1. \A j \in DOMAIN q : Erasing(q[j])
        BY <1>6, <1>10 DEF StoreInv, ErasuresInv
    <2>. QED
        BY <1>4, <1>7, <1>10, <1>11, <2>1 DEF ErasuresInv, Erasing
<1>13. Standing' /\ TablesInv' /\ DigestsInv' /\ ConfigsAreSingle'
    BY <1>4 DEF StoreInv, Standing, TablesInv, DigestsInv, ConfigsAreSingle
<1>14. UsagesInv'
    BY <1>4, BoundedStays DEF StoreInv, UsagesInv
<1>15. LostInv'
    <2>1. \A s : \A j \in DOMAIN erasures : Reason(s, erasures[j]) => Reason(s, q[j])
        BY <1>1, <1>6, <1>10 DEF Reason
    <2>. QED
        BY <1>4, <1>10, <1>11, <2>1 DEF StoreInv, LostInv
<1>16. RowsPassed'
    <2> SUFFICES ASSUME NEW j \in DOMAIN q, NEW n \in 1..5, n < q[j].next,
                        NEW r \in About(Tables[n], q[j].agent, q[j].world)
                 PROVE  Younger(r, q[j])
        BY <1>4, <1>11 DEF RowsPassed, About
    <2>1. CASE j # i
        BY <1>10, <2>1 DEF StoreInv, RowsPassed
    <2>2. CASE j = i
        <3>1. q[j] = f /\ n < e.next
            BY <1>3, <1>10, <2>2
        <3>. QED
            BY <1>1, <1>6, <3>1 DEF StoreInv, RowsPassed, Younger
    <2>. QED
        BY <2>1, <2>2
<1>17. ConsentsPassed'
    <2> SUFFICES ASSUME NEW j \in DOMAIN q, q[j].next = 7, NEW c \in consents', c.world = q[j].world,
                        c.subject = q[j].agent
                 PROVE  c.put > q[j].began
        BY <1>11 DEF ConsentsPassed, ListConsents
    <2>1. CASE j # i
        BY <1>3, <1>10, <2>1 DEF StoreInv, ConsentsPassed, ListConsents
    <2>2. CASE j = i
        BY <1>3, <1>6, <1>10, <2>2 DEF ListConsents
    <2>. QED
        BY <2>1, <2>2
<1>18. DigestsPassed'
    <2>1. \A j \in DOMAIN q : q[j].next > 1 => erasures[j].next > 1
        BY <1>1, <1>3, <1>10
    <2>2. \A j \in DOMAIN q : q[j].agent = erasures[j].agent /\ q[j].world = erasures[j].world
                              /\ q[j].began = erasures[j].began
        BY <1>1, <1>6, <1>10
    <2>. QED
        BY <1>4, <1>10, <1>11, <2>1, <2>2 DEF StoreInv, DigestsPassed
<1>19. GoneInv'
    <2>1. \A j \in DOMAIN q : q[j].gone = erasures[j].gone
        BY <1>1, <1>6, <1>10
    <2>. QED
        BY <1>4, <1>10, <1>11, <2>1 DEF StoreInv, GoneInv
<1>20. ConsentsInv'
    <2>1. consents' \subseteq consents /\ IsFiniteSet(consents')
        BY <1>3, FS_Difference DEF StoreInv, ConsentsInv
    <2>2. DOMAIN said' = DOMAIN said
        BY <1>3
    <2>3. ASSUME NEW k \in DOMAIN said PROVE Told(k)'
        <3>1. Told(k) /\ k = <<k[1], k[2]>>
            BY DEF StoreInv, ConsentsInv, ConsentKeys
        <3>2. CASE k = <<e.world, e.agent>>
            <4>1. said'[k] = <<>> /\ ListConsents(k[1], k[2])' = {}
                BY <1>3, <3>2 DEF ListConsents
            <4>. QED
                BY <4>1 DEF Told
        <3>3. CASE k # <<e.world, e.agent>>
            <4>1. said'[k] = said[k] /\ (k \notin reused' => k \notin reused)
                BY <1>3, <3>3
            <4>2. ListConsents(k[1], k[2])' = ListConsents(k[1], k[2])
                BY <1>3, <3>1, <3>3 DEF ListConsents
            <4>. QED
                BY <1>4, <3>1, <4>1, <4>2 DEF Told, Latest
        <3>. QED
            BY <3>2, <3>3
    <2>. QED
        BY <1>4, <2>1, <2>2, <2>3 DEF StoreInv, ConsentsInv
<1>. QED
    BY <1>12, <1>13, <1>14, <1>15, <1>16, <1>17, <1>18, <1>19, <1>20 DEF StoreInv

LEMMA DeleteDataStep ==
    ASSUME StoreInv, NEW i \in DOMAIN erasures, DeleteAgentData(i)
    PROVE  StoreInv'
<1>1. PICK e : e = erasures[i]
    OBVIOUS
<1>2. PICK t : t = Tables[e.next]
    OBVIOUS
<1>3. PICK lost : lost = About(t, e.agent, e.world)
    OBVIOUS
<1>4. PICK f : f = Onward(e, RowsOf(t, lost))
    OBVIOUS
<1>5. /\ e.next \in 1..5 /\ tables' = [tables EXCEPT ![t] = @ \ lost]
      /\ erasures' = [erasures EXCEPT ![i] = f]
      /\ usages' = [k \in DOMAIN usages |->
            IF lost = {} THEN usages[k] ELSE [usages[k] EXCEPT !.erased = TRUE]]
      /\ digests' = {IF t = "memories" /\ d.agent = e.agent /\ d.world = e.world
                     THEN [d EXCEPT !.stale = TRUE] ELSE d : d \in digests}
    BY <1>1, <1>2, <1>3, <1>4 DEF DeleteAgentData, Erased
<1>6. UNCHANGED <<archive, hour, configs, consents, alive, written, saved, said, reused>>
    BY DEF DeleteAgentData
<1>7. t \in TableNames /\ (e.next = 1 => t = "memories")
    BY <1>2, <1>5 DEF Tables, TableNames
<1>8. tables \in [TableNames -> SUBSET RowRecord(archive)] /\ lost \subseteq tables[t]
    BY <1>3 DEF StoreInv, TablesInv, About
<1>9. \A x \in TableNames : tables'[x] = IF x = t THEN tables[x] \ lost ELSE tables[x]
    BY <1>5, <1>8
<1>10. tables' \in [TableNames -> SUBSET RowRecord(archive)] /\ Thinned
    <2>1. tables[t] \ lost \in SUBSET RowRecord(archive)
        BY <1>7, <1>8
    <2>. QED
        BY <1>5, <1>8, <1>9, <2>1 DEF Thinned
<1>11. /\ Standing' /\ TablesInv' /\ ConsentsInv' /\ ConfigsAreSingle'
       /\ \A s \in saved : s.row \notin tables[s.table] => s.row \notin tables'[s.table]
       /\ \A r, a, w : \A x \in TableNames : r \in About(x, a, w)' => r \in About(x, a, w)
    BY <1>6, <1>10, ThinStep
<1>12. ErasureIs(e) /\ Erasing(e)
    BY <1>1, ErasuresAre DEF StoreInv
<1>13. \A s \in RowsOf(t, lost) : s \in saved /\ s.table = t /\ s.row \in lost
    BY <1>7, <1>8 DEF RowsOf, StoreInv, TablesInv
<1>14. RowsOf(t, lost) \subseteq SavedRecord(archive)
    BY <1>13 DEF StoreInv, TablesInv
<1>15. /\ f \in ErasureRecord(archive) /\ Erasing(f) /\ f.next = e.next + 1
       /\ f.gone = e.gone \cup RowsOf(t, lost) /\ f.agent = e.agent
       /\ f.world = e.world /\ f.asked = e.asked /\ f.began = e.began
    BY <1>4, <1>5, <1>12, <1>14, OnwardIs
<1>16. PICK S : S = ErasureRecord(archive)
    OBVIOUS
<1>17. erasures \in Seq(S)
    BY <1>16 DEF StoreInv, ErasuresInv
<1>18. PICK q : q = [erasures EXCEPT ![i] = f]
    OBVIOUS
<1>19. /\ q \in Seq(S) /\ DOMAIN q = DOMAIN erasures
       /\ \A j \in DOMAIN q : q[j] = IF j = i THEN f ELSE erasures[j]
    BY <1>15, <1>16, <1>17, <1>18, SeqReplaced
<1>20. erasures' = q
    BY <1>5, <1>18
<1>21. ErasuresInv'
    <2>1. \A j \in DOMAIN q : Erasing(q[j])
        BY <1>15, <1>19 DEF StoreInv, ErasuresInv
    <2>. QED
        BY <1>6, <1>16, <1>19, <1>20, <2>1 DEF ErasuresInv, Erasing
<1>22. LostInv'
    <2>1. \A s : \A j \in DOMAIN erasures : Reason(s, erasures[j]) => Reason(s, q[j])
        BY <1>1, <1>15, <1>19 DEF Reason
    <2> SUFFICES ASSUME NEW s \in saved, s.row \notin tables'[s.table],
                        ~(s.table = "memories" /\ archive.digests > 0)
                 PROVE  \E j \in DOMAIN q : Reason(s, q[j])
        BY <1>6, <1>20 DEF LostInv
    <2>2. CASE s.row \notin tables[s.table]
        BY <1>19, <2>1, <2>2 DEF StoreInv, LostInv
    <2>3. CASE s.row \in tables[s.table]
        <3>1. s.table \in TableNames
            BY DEF StoreInv, TablesInv, SavedRecord
        <3>2. s.row \in lost
            BY <1>9, <2>3, <3>1
        <3>3. Reason(s, q[i])
            BY <1>3, <1>15, <1>19, <3>2 DEF Reason, About
        <3>. QED
            BY <1>19, <3>3
    <2>. QED
        BY <2>2, <2>3
<1>23. RowsPassed'
    <2> SUFFICES ASSUME NEW j \in DOMAIN q, NEW n \in 1..5, n < q[j].next,
                        NEW r \in About(Tables[n], q[j].agent, q[j].world)'
                 PROVE  Younger(r, q[j])
        BY <1>20 DEF RowsPassed
    <2>1. Tables[n] \in TableNames
        BY DEF Tables, TableNames
    <2>2. q[j]' = q[j]
        OBVIOUS
    <2>3. r \in About(Tables[n], q[j].agent, q[j].world)
        BY <1>11, <2>1
    <2>4. CASE j # i
        BY <1>19, <2>3, <2>4 DEF StoreInv, RowsPassed
    <2>5. CASE j = i
        <3>1. q[j] = f
            BY <1>19, <2>5
        <3>2. CASE n = e.next
            <4>1. r \in tables'[t] /\ r \in lost
                BY <1>2, <1>3, <1>15, <2>3, <3>1, <3>2 DEF About
            <4>. QED
                BY <1>7, <1>9, <4>1
        <3>3. CASE n # e.next
            <4>1. n < e.next
                BY <1>5, <1>15, <3>1, <3>3
            <4>. QED
                BY <1>1, <1>15, <2>3, <3>1, <4>1 DEF StoreInv, RowsPassed, Younger
        <3>. QED
            BY <3>2, <3>3
    <2>. QED
        BY <2>4, <2>5
<1>24. ConsentsPassed'
    <2>1. \A j \in DOMAIN q : q[j].next = 7 => j # i
        BY <1>5, <1>15, <1>19
    <2>. QED
        BY <1>6, <1>19, <1>20, <2>1 DEF StoreInv, ConsentsPassed, ListConsents
<1>25. DigestsInv' /\ DigestsPassed'
    <2>1. ASSUME NEW x \in digests'
          PROVE  \E d \in digests : /\ x \in DigestRecord(archive) /\ x.read = d.read /\ x.agent = d.agent
                                    /\ x.world = d.world /\ (~x.stale => ~d.stale)
                                    /\ t = "memories" /\ d.agent = e.agent /\ d.world = e.world => x.stale
        <3>1. PICK d \in digests : x = IF t = "memories" /\ d.agent = e.agent /\ d.world = e.world
                                       THEN [d EXCEPT !.stale = TRUE] ELSE d
            BY <1>5
        <3>2. d \in DigestRecord(archive)
            BY DEF StoreInv, DigestsInv
        <3>. QED
            BY <3>1, <3>2 DEF DigestRecord
    <2>2. DigestsInv'
        <3>1. digests' \subseteq DigestRecord(archive) /\ \A x \in digests' : x.read # {}
            BY <2>1 DEF StoreInv, DigestsInv
        <3>2. digests' # {} => digests # {}
            BY <2>1
        <3>. QED
            BY <1>6, <3>1, <3>2 DEF StoreInv, DigestsInv
    <2>3. DigestsPassed'
        <3> SUFFICES ASSUME NEW j \in DOMAIN q, q[j].next > 1, NEW x \in digests', x.agent = q[j].agent,
                            x.world = q[j].world, ~x.stale, NEW n \in x.read
                     PROVE  n > q[j].began
            BY <1>20 DEF DigestsPassed
        <3>1. PICK d \in digests : /\ x.read = d.read /\ x.agent = d.agent /\ x.world = d.world /\ ~d.stale
                                   /\ ~(t = "memories" /\ d.agent = e.agent /\ d.world = e.world)
            BY <2>1
        <3>2. /\ erasures[j].agent = q[j].agent /\ erasures[j].world = q[j].world
              /\ erasures[j].began = q[j].began
            BY <1>1, <1>15, <1>19
        <3>3. erasures[j].next > 1
            <4>1. CASE j # i
                BY <1>19, <4>1
            <4>2. CASE j = i
                <5>1. e.next # 1
                    BY <1>1, <1>7, <3>1, <3>2, <4>2
                <5>. QED
                    BY <1>1, <1>5, <4>2, <5>1
            <4>. QED
                BY <4>1, <4>2
        <3>. QED
            BY <1>19, <3>1, <3>2, <3>3 DEF StoreInv, DigestsPassed
    <2>. QED
        BY <2>2, <2>3
<1>26. GoneInv'
    <2>1. \A s \in RowsOf(t, lost) :
              s \in saved /\ s.row \in tables[s.table] /\ s.row \notin tables'[s.table]
        BY <1>7, <1>8, <1>9, <1>13
    <2>2. \A j \in DOMAIN q :
              q[j].gone = IF j = i THEN erasures[j].gone \cup RowsOf(t, lost) ELSE erasures[j].gone
        BY <1>1, <1>15, <1>19
    <2>3. \A j \in DOMAIN q : \A s \in erasures[j].gone :
            s \in saved /\ s.row \notin tables[s.table] /\ s.row \notin tables'[s.table]
        BY <1>11, <1>19 DEF StoreInv, GoneInv
    <2>4. \A j, k \in DOMAIN q : j # k => erasures[j].gone \cap erasures[k].gone = {}
        BY <1>19 DEF StoreInv, GoneInv
    <2>5. \A j, k \in DOMAIN q : j # k => q[j].gone \cap q[k].gone = {}
        BY <2>1, <2>2, <2>3, <2>4
    <2>6. \A j \in DOMAIN q : \A s \in q[j].gone : s \in saved /\ s.row \notin tables'[s.table]
        BY <2>1, <2>2, <2>3
    <2>. QED
        BY <1>6, <1>20, <2>5, <2>6 DEF GoneInv
<1>27. UsagesInv'
    <2>1. CASE lost = {}
        <3>1. tables' = tables
            BY <1>5, <1>8, <2>1
        <3>2. usages' = [k \in DOMAIN usages |-> usages[k]]
            BY <1>5, <2>1
        <3>3. usages' = usages
            <4>1. PICK R : R = UsageRecord(archive)
                OBVIOUS
            <4>2. usages \in Seq(R)
                BY <4>1 DEF StoreInv, UsagesInv
            <4>. QED
                BY <3>2, <4>2, LenProperties
        <3>. QED
            BY <1>6, <3>1, <3>3, BoundedStays DEF StoreInv, UsagesInv
    <2>2. CASE lost # {}
        BY <1>5, <1>6, <2>2, ErasedUsages
    <2>. QED
        BY <2>1, <2>2
<1>. QED
    BY <1>11, <1>21, <1>22, <1>23, <1>24, <1>25, <1>26, <1>27 DEF StoreInv

LEMMA StoreStep == StoreInv /\ [StoreNext]_storeVars => StoreInv'
<1> SUFFICES ASSUME StoreInv, [StoreNext]_storeVars PROVE StoreInv'
    OBVIOUS
<1>1. CASE UNCHANGED storeVars
    BY <1>1, FrameStep DEF storeVars, StoreInv
<1>2. CASE SaveMemoryEntry \/ SaveStateSnapshot \/ SaveConversation \/ SavePolicyAudit
    BY <1>2, SaveStep DEF SaveMemoryEntry, SaveStateSnapshot, SaveConversation, SavePolicyAudit, TableNames
<1>3. CASE SaveMemoryEntries
    BY <1>3, SaveMemoriesStep
<1>4. CASE SaveAgentConfig
    BY <1>4, ConfigStep
<1>5. CASE GiveConsent
    BY <1>5, ConsentStep
<1>6. CASE Digest
    BY <1>6, DigestStep
<1>7. CASE AskUsage
    BY <1>7, AskUsageStep
<1>8. CASE Erase
    BY <1>8, EraseStep
<1>9. CASE WorldEnds
    BY <1>9, WorldEndsStep
<1>10. CASE Passes
    BY <1>10, PassesStep
<1>11. ASSUME NEW d \in digests, SaveKnowledge(d) \/ DeleteMemoryEntries(d) PROVE StoreInv'
    BY <1>11, KnowledgeStep, DeleteMemoriesStep
<1>12. ASSUME NEW i \in DOMAIN usages, NEW t \in Counted \cup {"bytes"}, Estimate(i, t) PROVE StoreInv'
    BY <1>12, EstimateStep
<1>13. ASSUME NEW i \in DOMAIN erasures, DeleteAgentData(i) \/ DeleteConsents(i) \/ EraseFails(i)
       PROVE  StoreInv'
    BY <1>13, DeleteDataStep, DeleteConsentsStep, FailStep
<1>. QED
    BY <1>1, <1>2, <1>3, <1>4, <1>5, <1>6, <1>7, <1>8, <1>9, <1>10, <1>11, <1>12, <1>13 DEF StoreNext

(***************************************************************************)
(* What follows from the invariant.                                         *)
(***************************************************************************)
LEMMA NewestAre == \A s, limit : \A x \in Newest(s, limit) : x \subseteq s
BY DEF Newest, kSubset

LEMMA ErasureFollows == StoreInv => ErasureIsComplete
<1> SUFFICES ASSUME StoreInv PROVE ErasureIsComplete
    OBVIOUS
<1>1. ASSUME NEW i \in DOMAIN erasures, NEW asked \in archive.active, erasures[i].next = 7,
             WorldOf(asked) = erasures[i].world
      PROVE  /\ \A r \in Shown(asked, erasures[i].agent) : r.source > erasures[i].began \/ r.stale
             /\ \A c \in ConsentsPage(asked, erasures[i].agent) : c.put > erasures[i].began
    <2>1. PICK e : e = erasures[i]
        OBVIOUS
    <2>2. /\ Tables[1] = "memories" /\ Tables[2] = "snapshots" /\ Tables[3] = "conversations"
          /\ Tables[4] = "knowledge" /\ Tables[5] = "audits"
        BY DEF Tables
    <2>3. \A n \in 1..5 : \A r \in About(Tables[n], e.agent, e.world) : Younger(r, e)
        BY <1>1, <2>1 DEF StoreInv, RowsPassed
    <2>4. \A t \in TableNames : \A r \in About(t, e.agent, e.world) : Younger(r, e)
        <3> TAKE t \in TableNames
        <3>1. \E n \in 1..5 : t = Tables[n]
            BY <2>2 DEF TableNames
        <3>. QED
            BY <2>3, <3>1
    <2>5. ASSUME NEW r \in Shown(asked, e.agent)
          PROVE  \E t \in TableNames : r \in About(t, e.agent, e.world)
        <3>1. \/ r \in About("memories", e.agent, e.world) \/ r \in About("knowledge", e.agent, e.world)
              \/ \E x \in Newest(About("snapshots", e.agent, e.world), 1)
                     \cup Newest(About("snapshots", e.agent, e.world), PageSize)
                     \cup Newest(About("conversations", e.agent, e.world), PageSize)
                     \cup Newest(About("audits", e.agent, e.world), PageSize) : r \in x
            BY <1>1, <2>1 DEF Shown, GetKnowledge, GetLatestState, SnapshotsPage, GetStateHistory,
               ConversationsPage, GetConversations, AuditsPage, ListPolicyAudits
        <3>2. \/ r \in About("memories", e.agent, e.world) \/ r \in About("knowledge", e.agent, e.world)
              \/ r \in About("snapshots", e.agent, e.world)
              \/ r \in About("conversations", e.agent, e.world)
              \/ r \in About("audits", e.agent, e.world)
            BY <3>1, NewestAre
        <3>. QED
            BY <3>2 DEF TableNames
    <2>6. \A c \in ConsentsPage(asked, e.agent) : c.put > e.began
        BY <1>1, <2>1 DEF StoreInv, ConsentsPassed, ConsentsPage
    <2>. QED
        BY <2>1, <2>4, <2>5, <2>6 DEF Younger
<1>2. \A e \in ToSet(erasures), asked \in archive.active :
        e.next = 7 /\ WorldOf(asked) = e.world =>
            /\ \A r \in Shown(asked, e.agent) : r.source > e.began \/ r.stale
            /\ \A c \in ConsentsPage(asked, e.agent) : c.put > e.began
    BY <1>1 DEF ToSet
<1>3. \A s \in saved : s.row \in tables[s.table] \/ (s.table = "memories" /\ archive.digests > 0)
        \/ \E e \in ToSet(erasures) : /\ e.world = s.row.world /\ e.agent \in ToSet(s.row.of)
                                      /\ e.asked = e.world \/ e.asked \notin alive
    <2> SUFFICES ASSUME NEW s \in saved, s.row \notin tables[s.table],
                        ~(s.table = "memories" /\ archive.digests > 0)
                 PROVE  \E e \in ToSet(erasures) : /\ e.world = s.row.world /\ e.agent \in ToSet(s.row.of)
                                                   /\ e.asked = e.world \/ e.asked \notin alive
        OBVIOUS
    <2>1. PICK i \in DOMAIN erasures : Reason(s, erasures[i])
        BY DEF StoreInv, LostInv
    <2>2. erasures[i] \in ToSet(erasures)
        BY DEF ToSet
    <2>3. Erasing(erasures[i])
        BY DEF StoreInv, ErasuresInv
    <2>. QED
        BY <2>1, <2>2, <2>3 DEF Reason, Erasing
<1>. QED
    BY <1>2, <1>3 DEF ErasureIsComplete, StoreInv, GoneInv

LEMMA UsageFollows == StoreInv => UsageIsBounded
<1> SUFFICES ASSUME StoreInv, NEW k \in DOMAIN usages, ~usages[k].erased,
                    NEW t \in Counted \ usages[k].left
             PROVE  usages[k].counts[t] \in usages[k].before[t]..
                        Cardinality(About(t, usages[k].agent, usages[k].world))
    BY DEF UsageIsBounded, ToSet
<1>1. PICK u : u = usages[k]
    OBVIOUS
<1>2. UsageIs(u) /\ Bounded(u)
    BY <1>1, UsagesAre DEF StoreInv
<1>3. t \in TableNames
    BY DEF Counted, TableNames
<1>4. Cardinality(About(t, u.agent, u.world)) \in Nat
    <2>1. IsFiniteSet(tables[t]) /\ About(t, u.agent, u.world) \subseteq tables[t]
        BY <1>3 DEF StoreInv, TablesInv, About
    <2>. QED
        BY <2>1, FS_Subset, FS_CardinalityType
<1>5. u.counts[t] \in Nat /\ u.before[t] \in Nat
    BY <1>2 DEF UsageIs
<1>6. u.before[t] <= u.counts[t] /\ u.counts[t] <= Cardinality(About(t, u.agent, u.world))
    BY <1>1, <1>2 DEF Bounded
<1>. QED
    BY <1>1, <1>4, <1>5, <1>6

LEMMA ConsentFollows == StoreInv => ConsentIsLatest
<1> SUFFICES ASSUME StoreInv, NEW k \in DOMAIN said, k \notin reused
             PROVE  /\ said[k] = <<>> => GetConsent(k[1], k[2]) = {}
                    /\ said[k] # <<>> /\ Cardinality(GetConsent(k[1], k[2])) = 1 =>
                          \A c \in GetConsent(k[1], k[2]) : c.status = Head(said[k])
    BY DEF ConsentIsLatest
<1>1. Told(k)
    BY DEF StoreInv, ConsentsInv
<1>2. CASE said[k] = <<>>
    <2>1. ListConsents(k[1], k[2]) = {}
        BY <1>1, <1>2 DEF Told
    <2>. QED
        BY <1>2, <2>1 DEF GetConsent
<1>3. CASE said[k] # <<>>
    <2> SUFFICES ASSUME Cardinality(GetConsent(k[1], k[2])) = 1, NEW c \in GetConsent(k[1], k[2])
                 PROVE  c.status = Head(said[k])
        BY <1>3
    <2>1. PICK o \in archive.consents : said[k] = <<o.status>> /\ Latest(k, o.status)
        BY <1>1, <1>3 DEF Told
    <2>2. PICK d \in GetConsent(k[1], k[2]) : d.status = o.status
        BY <2>1 DEF Latest, GetConsent
    <2>3. GetConsent(k[1], k[2]) \subseteq consents /\ IsFiniteSet(consents)
        BY DEF GetConsent, ListConsents, StoreInv, ConsentsInv
    <2>4. IsFiniteSet(GetConsent(k[1], k[2]))
        BY <2>3, FS_Subset
    <2>5. PICK x : GetConsent(k[1], k[2]) = {x}
        BY <2>4, FS_Singleton
    <2>. QED
        BY <2>1, <2>2, <2>5
<1>. QED
    BY <1>2, <1>3

\* Whatever is saved, given, counted, digested and erased at once, and however erasures fail:
\* what an erasure has answered for is gone, an estimate no erasure crossed is of what there
\* is, the gate is told the last consent and each agent has one configuration a world.
THEOREM StoreStaysTrue == StoreSpec => []StoreIsTrue
<1>1. StoreInv => StoreIsTrue
    BY ErasureFollows, UsageFollows, ConsentFollows DEF StoreInv, StoreIsTrue
<1>. QED
    BY <1>1, StoreStart, StoreStep, PTL DEF StoreSpec

-----------------------------------------------------------------------------
(***************************************************************************)
(* Rules.                                                                   *)
(***************************************************************************)
\* In a line, for each number that is not too large somebody has as many in front of it.
LEMMA PlacesInLine ==
    ASSUME NEW S, IsFiniteSet(S), NEW front \in [S -> SUBSET S],
           \A x \in S : x \notin front[x],
           \A x, y \in S : x # y => \/ x \in front[y] /\ front[x] \subseteq front[y]
                                    \/ y \in front[x] /\ front[y] \subseteq front[x]
    PROVE  /\ Cardinality(S) \in Nat
           /\ \A x \in S : IsFiniteSet(front[x]) /\ Cardinality(front[x]) \in 0..(Cardinality(S) - 1)
           /\ \A k \in 0..(Cardinality(S) - 1) : \E x \in S : Cardinality(front[x]) = k
           /\ \A x, y \in S : x \in front[y] => Cardinality(front[x]) < Cardinality(front[y])
<1>. DEFINE n == Cardinality(S)
            count == [x \in S |-> Cardinality(front[x])]
            T == 0..(n - 1)
<1>1. n \in Nat
    BY FS_CardinalityType
<1>2. ASSUME NEW x \in S PROVE IsFiniteSet(front[x]) /\ count[x] \in T
  <2>1. /\ IsFiniteSet(front[x]) /\ Cardinality(front[x]) \in Nat /\ Cardinality(front[x]) <= n
        /\ Cardinality(S) = Cardinality(front[x]) => S = front[x]
      BY FS_Subset, FS_CardinalityType
  <2>2. Cardinality(front[x]) # n
      BY <2>1
  <2>. QED
      BY <1>1, <2>1, <2>2
<1>3. ASSUME NEW x \in S, NEW y \in S, x \in front[y], front[x] \subseteq front[y]
      PROVE  count[x] # count[y]
  <2>1. IsFiniteSet(front[y]) /\ front[x] \in SUBSET front[y] /\ front[x] # front[y]
      BY <1>2, <1>3
  <2>2. Cardinality(front[y]) # Cardinality(front[x])
      BY <2>1, FS_Subset
  <2>. QED
      BY <2>2
<1>4. IsFiniteSet(T) /\ Cardinality(T) = n
  <2>. DEFINE b == n - 1
  <2>1. 0 \in Int /\ b \in Int
      BY <1>1
  <2>. HIDE DEF b
  <2>2. IsFiniteSet(0..b) /\ Cardinality(0..b) = IF 0 > b THEN 0 ELSE b - 0 + 1
      BY <2>1, FS_Interval
  <2>3. IsFiniteSet(T) /\ Cardinality(T) = IF 0 > b THEN 0 ELSE b - 0 + 1
      BY <2>2 DEF b
  <2>. HIDE DEF n
  <2>4. (IF 0 > b THEN 0 ELSE b - 0 + 1) = n
      BY <1>1 DEF b
  <2>. QED
      BY <2>3, <2>4
<1>5. count \in Injection(S, T)
  <2>1. count \in [S -> T]
      BY <1>2
  <2>2. \A x, y \in S : x # y => count[x] # count[y]
      BY <1>3
  <2>. HIDE DEF count
  <2>. QED
      BY <2>1, <2>2 DEF Injection, IsInjective
<1>. HIDE DEF T
<1>6. count \in Surjection(S, T)
  <2>. HIDE DEF count
  <2>. QED
      BY <1>4, <1>5, FS_Injection
<1>7. \A k \in T : \E x \in S : count[x] = k
    BY <1>6 DEF Surjection
<1>8. ASSUME NEW x \in S, NEW y \in S, x \in front[y] PROVE count[x] < count[y]
  <2>1. x # y /\ front[x] \subseteq front[y]
      BY <1>8
  <2>2. IsFiniteSet(front[y]) /\ front[x] \in SUBSET front[y] /\ front[x] # front[y]
      BY <1>2, <1>8, <2>1
  <2>3. /\ Cardinality(front[x]) \in Nat /\ Cardinality(front[y]) \in Nat
        /\ Cardinality(front[x]) <= Cardinality(front[y])
        /\ Cardinality(front[y]) # Cardinality(front[x])
      BY <2>2, FS_Subset, FS_CardinalityType
  <2>. QED
      BY <2>3
<1>9. \A x, y \in S : x \in front[y] => Cardinality(front[x]) < Cardinality(front[y])
    BY <1>8
<1>. QED
    BY <1>1, <1>2, <1>7, <1>9 DEF T

\* ... and one has nobody in front of it.
LEMMA FirstInLine ==
    ASSUME NEW S, IsFiniteSet(S), S # {}, NEW front \in [S -> SUBSET S],
           \A x \in S : x \notin front[x],
           \A x, y \in S : x # y => \/ x \in front[y] /\ front[x] \subseteq front[y]
                                    \/ y \in front[x] /\ front[y] \subseteq front[x]
    PROVE  \E x \in S : \A y \in S \ {x} : x \in front[y]
<1>1. Cardinality(S) \in Nat /\ Cardinality(S) # 0
    BY FS_CardinalityType, FS_EmptySet
<1>2. 0 \in 0..(Cardinality(S) - 1)
    BY <1>1
<1>3. PICK x \in S : Cardinality(front[x]) = 0
    BY <1>2, PlacesInLine
<1>4. IsFiniteSet(front[x])
    BY PlacesInLine
<1>5. front[x] = {}
    BY <1>3, <1>4, FS_EmptySet
<1>. QED
    BY <1>5

\* The lines RulesFor forms, of any rules L and any of them, S.
Behind(L, i, j) ==
    \/ L[i].priority > L[j].priority
    \/ L[i].priority = L[j].priority /\ i > j
Ahead(L, i, j) ==
    IF (L[i].scope = "all") = (L[j].scope = "all") THEN Behind(L, j, i) ELSE L[i].scope = "all"
Same(L, S, i) == {j \in S : L[j].id = L[i].id}
Stays(L, S) == {i \in S : \A j \in Same(L, S, i) \ {i} : Behind(L, i, j)}
EarlierId(L, S, j, i) == \E k \in Same(L, S, j) : \A l \in Same(L, S, i) : Ahead(L, k, l)
InFront(L, S, i) ==
    {j \in Stays(L, S) : \/ L[j].priority < L[i].priority
                         \/ L[j].priority = L[i].priority /\ EarlierId(L, S, j, i)}
InLine(L, S) ==
    [n \in 1..Cardinality(Stays(L, S)) |->
        L[CHOOSE i \in Stays(L, S) : Cardinality(InFront(L, S, i)) = n - 1]]
Rules(L, S) ==
    /\ S \subseteq Nat /\ IsFiniteSet(S)
    /\ \A i \in S : L[i].priority \in Int

LEMMA LineIs ==
    RulesFor("person") =
        InLine(cast.rules, {i \in DOMAIN cast.rules : cast.rules[i].scope \in {"person", "all"}})
BY DEF RulesFor, SortsAfter, InLine, InFront, EarlierId, Stays, Same, Ahead, Behind

\* Both orders are orders.
LEMMA OrdersAre ==
    ASSUME NEW L, NEW S, Rules(L, S)
    PROVE  /\ \A i \in S : ~Behind(L, i, i) /\ ~Ahead(L, i, i)
           /\ \A i, j \in S : i # j => /\ Behind(L, i, j) \/ Behind(L, j, i)
                                       /\ Ahead(L, i, j) \/ Ahead(L, j, i)
           /\ \A i, j, k \in S : /\ Behind(L, i, j) /\ Behind(L, j, k) => Behind(L, i, k)
                                 /\ Ahead(L, i, j) /\ Ahead(L, j, k) => Ahead(L, i, k)
<1>1. \A i \in S : i \in Nat /\ L[i].priority \in Int
    BY DEF Rules
<1>2. \A i \in S : ~Behind(L, i, i)
    BY <1>1 DEF Behind
<1>3. \A i, j \in S : i # j => Behind(L, i, j) \/ Behind(L, j, i)
    BY <1>1 DEF Behind
<1>4. \A i, j, k \in S : Behind(L, i, j) /\ Behind(L, j, k) => Behind(L, i, k)
    BY <1>1 DEF Behind
<1>. QED
    BY <1>2, <1>3, <1>4 DEF Ahead

\* Of each id the last stays, and one of them was put first.
LEMMA OneStays ==
    ASSUME NEW L, NEW S, Rules(L, S), NEW i \in S
    PROVE  /\ \E j \in Same(L, S, i) : j \in Stays(L, S)
           /\ \E j \in Same(L, S, i) : \A k \in Same(L, S, i) \ {j} : Ahead(L, j, k)
<1>. DEFINE T == Same(L, S, i)
            last == [x \in T |-> {y \in T : Behind(L, y, x)}]
            first == [x \in T |-> {y \in T : Ahead(L, y, x)}]
<1>1. T \subseteq S /\ i \in T /\ T # {} /\ IsFiniteSet(T)
    BY FS_Subset DEF Same, Rules
<1>2. /\ last \in [T -> SUBSET T] /\ \A x \in T : x \notin last[x]
      /\ \A x, y \in T : x # y => \/ x \in last[y] /\ last[x] \subseteq last[y]
                                  \/ y \in last[x] /\ last[y] \subseteq last[x]
  <2>. HIDE DEF T
  <2>. QED
      BY <1>1, OrdersAre
<1>3. /\ first \in [T -> SUBSET T] /\ \A x \in T : x \notin first[x]
      /\ \A x, y \in T : x # y => \/ x \in first[y] /\ first[x] \subseteq first[y]
                                  \/ y \in first[x] /\ first[y] \subseteq first[x]
  <2>. HIDE DEF T
  <2>. QED
      BY <1>1, OrdersAre
<1>. HIDE DEF T
<1>4. \E x \in T : \A y \in T \ {x} : Behind(L, x, y)
  <2>. HIDE DEF last
  <2>1. \E x \in T : \A y \in T \ {x} : x \in last[y]
      BY <1>1, <1>2, FirstInLine
  <2>. QED
      BY <2>1 DEF last
<1>5. \E x \in T : \A y \in T \ {x} : Ahead(L, x, y)
  <2>. HIDE DEF first
  <2>1. \E x \in T : \A y \in T \ {x} : x \in first[y]
      BY <1>1, <1>3, FirstInLine
  <2>. QED
      BY <2>1 DEF first
<1>6. \A x \in T : x \in S /\ Same(L, S, x) = T
    BY <1>1 DEF T, Same
<1>. QED
    BY <1>4, <1>5, <1>6 DEF T, Stays

\* Who stays stands in a line.
LEMMA StaysInLine ==
    ASSUME NEW L, NEW S, Rules(L, S)
    PROVE  LET K == Stays(L, S) IN
           /\ IsFiniteSet(K) /\ K \subseteq S
           /\ \A x, y \in K : x # y => L[x].id # L[y].id
           /\ \A x \in K : x \notin InFront(L, S, x) /\ InFront(L, S, x) \subseteq K
           /\ \A x, y \in K : x # y =>
                \/ x \in InFront(L, S, y) /\ InFront(L, S, x) \subseteq InFront(L, S, y)
                \/ y \in InFront(L, S, x) /\ InFront(L, S, y) \subseteq InFront(L, S, x)
<1>. DEFINE K == Stays(L, S)
            E(j, i) == EarlierId(L, S, j, i)
<1>1. K \subseteq S /\ IsFiniteSet(K)
    BY FS_Subset DEF Stays, Rules
<1>2. \A x, y \in K : x # y => L[x].id # L[y].id
  <2>1. SUFFICES ASSUME NEW x \in K, NEW y \in K, x # y, L[x].id = L[y].id PROVE FALSE
      OBVIOUS
  <2>2. Behind(L, x, y) /\ Behind(L, y, x)
      BY <2>1 DEF Stays, Same
  <2>. QED
      BY <1>1, <2>1, <2>2, OrdersAre
<1>3. \A x \in K : Same(L, S, x) \subseteq S /\ x \in Same(L, S, x)
    BY <1>1 DEF Same
<1>4. \A x, y \in K : x # y => Same(L, S, x) \cap Same(L, S, y) = {}
    BY <1>2 DEF Same
<1>5. \A x \in K : ~E(x, x)
  <2>. QED
      BY <1>3, OrdersAre DEF EarlierId
<1>6. ASSUME NEW x \in K, NEW y \in K, NEW z \in K, E(x, y), E(y, z) PROVE E(x, z)
  <2>1. PICK k \in Same(L, S, x) : \A l \in Same(L, S, y) : Ahead(L, k, l)
      BY <1>6 DEF EarlierId
  <2>2. PICK m \in Same(L, S, y) : \A l \in Same(L, S, z) : Ahead(L, m, l)
      BY <1>6 DEF EarlierId
  <2>3. \A l \in Same(L, S, z) : Ahead(L, k, l)
      BY <1>3, <2>1, <2>2, OrdersAre
  <2>. QED
      BY <2>3 DEF EarlierId
<1>7. ASSUME NEW x \in K, NEW y \in K, x # y PROVE E(x, y) \/ E(y, x)
  <2>1. PICK k \in Same(L, S, x) : \A l \in Same(L, S, x) \ {k} : Ahead(L, k, l)
      BY <1>1, OneStays
  <2>2. PICK m \in Same(L, S, y) : \A l \in Same(L, S, y) \ {m} : Ahead(L, m, l)
      BY <1>1, OneStays
  <2>3. k # m /\ k \in S /\ m \in S
      BY <1>3, <1>4, <1>7, <2>1, <2>2
  <2>4. ASSUME Ahead(L, k, m) PROVE E(x, y)
    <3>1. \A l \in Same(L, S, y) : Ahead(L, k, l)
        BY <1>3, <2>2, <2>3, <2>4, OrdersAre
    <3>. QED
        BY <3>1 DEF EarlierId
  <2>5. ASSUME Ahead(L, m, k) PROVE E(y, x)
    <3>1. \A l \in Same(L, S, x) : Ahead(L, m, l)
        BY <1>3, <2>1, <2>3, <2>5, OrdersAre
    <3>. QED
        BY <3>1 DEF EarlierId
  <2>. QED
      BY <2>3, <2>4, <2>5, OrdersAre
<1>8. \A x \in K : L[x].priority \in Int
    BY <1>1 DEF Rules
<1>9. \A x, y \in K : x \in InFront(L, S, y) <=>
          \/ L[x].priority < L[y].priority
          \/ L[x].priority = L[y].priority /\ E(x, y)
    BY DEF InFront
<1>10. \A x \in K : InFront(L, S, x) \subseteq K
    BY DEF InFront
<1>. HIDE DEF K, E
<1>11. \A x \in K : x \notin InFront(L, S, x)
    BY <1>5, <1>8, <1>9
<1>12. \A x, y, z \in K : x \in InFront(L, S, y) /\ y \in InFront(L, S, z) => x \in InFront(L, S, z)
    BY <1>6, <1>8, <1>9
<1>13. \A x, y \in K : x # y => x \in InFront(L, S, y) \/ y \in InFront(L, S, x)
    BY <1>7, <1>8, <1>9
<1>14. \A x, y \in K : x \in InFront(L, S, y) => InFront(L, S, x) \subseteq InFront(L, S, y)
    BY <1>10, <1>12
<1>. QED
    BY <1>1, <1>2, <1>10, <1>11, <1>13, <1>14 DEF K

\* What an agent is told are the rules that apply, once and in order.
LEMMA LineIsRight ==
    ASSUME NEW L, NEW S, Rules(L, S)
    PROVE  LET line == InLine(L, S) IN
           /\ \A n \in DOMAIN line : \E i \in S : line[n] = L[i]
           /\ \A m, n \in DOMAIN line :
                 m < n => line[m].priority <= line[n].priority /\ line[m].id # line[n].id
           /\ \A i \in S : \E n \in DOMAIN line :
                 line[n].id = L[i].id /\ L[i].priority <= line[n].priority
<1>. DEFINE K == Stays(L, S)
            front == [x \in K |-> InFront(L, S, x)]
            N == Cardinality(K)
            at(n) == CHOOSE i \in K : Cardinality(InFront(L, S, i)) = n - 1
            line == InLine(L, S)
<1>1. /\ IsFiniteSet(K) /\ K \subseteq S
      /\ \A x, y \in K : x # y => L[x].id # L[y].id
      /\ front \in [K -> SUBSET K] /\ \A x \in K : x \notin front[x]
      /\ \A x, y \in K : x # y => \/ x \in front[y] /\ front[x] \subseteq front[y]
                                  \/ y \in front[x] /\ front[y] \subseteq front[x]
    BY StaysInLine
<1>2. line = [n \in 1..N |-> L[at(n)]]
    BY DEF InLine
<1>. HIDE DEF K, line
<1>3. /\ N \in Nat
      /\ \A x \in K : Cardinality(front[x]) \in 0..(N - 1)
      /\ \A k \in 0..(N - 1) : \E x \in K : Cardinality(front[x]) = k
      /\ \A x, y \in K : x \in front[y] => Cardinality(front[x]) < Cardinality(front[y])
  <2>. HIDE DEF front
  <2>. QED
      BY <1>1, PlacesInLine
<1>4. \A x \in K : front[x] = InFront(L, S, x)
    OBVIOUS
<1>. HIDE DEF N
<1>5. ASSUME NEW n \in 1..N PROVE at(n) \in K /\ Cardinality(InFront(L, S, at(n))) = n - 1
  <2>1. n - 1 \in 0..(N - 1)
      BY <1>3
  <2>. HIDE DEF front
  <2>2. \E x \in K : Cardinality(InFront(L, S, x)) = n - 1
      BY <1>3, <1>4, <2>1
  <2>. QED
      BY <2>2
<1>6. ASSUME NEW x \in K PROVE \E n \in 1..N : at(n) = x
  <2>. HIDE DEF front
  <2>. DEFINE n == Cardinality(InFront(L, S, x)) + 1
  <2>1. n \in 1..N /\ Cardinality(InFront(L, S, x)) = n - 1 /\ Cardinality(InFront(L, S, x)) \in Nat
      BY <1>3, <1>4
  <2>. HIDE DEF n
  <2>2. at(n) \in K /\ Cardinality(InFront(L, S, at(n))) = n - 1
      BY <1>5, <2>1
  <2>. HIDE DEF at
  <2>3. ASSUME at(n) # x PROVE FALSE
    <3>1. Cardinality(front[x]) < Cardinality(front[at(n)])
            \/ Cardinality(front[at(n)]) < Cardinality(front[x])
        BY <1>1, <1>3, <2>2, <2>3
    <3>. QED
        BY <3>1, <1>4, <2>1, <2>2
  <2>. QED
      BY <2>1, <2>3
<1>7. \A n \in 1..N : at(n) \in S /\ L[at(n)].priority \in Int
    BY <1>1, <1>5 DEF Rules
<1>8. \A n \in DOMAIN line : n \in 1..N /\ line[n] = L[at(n)]
    BY <1>2
<1>9. \A n \in 1..N : n \in DOMAIN line
    BY <1>2
<1>10. \A x, y \in K : x \in front[y] => L[x].priority <= L[y].priority
  <2>. HIDE DEF front
  <2>1. \A x \in K : L[x].priority \in Int
      BY <1>1 DEF Rules
  <2>2. \A x, y \in K : x \in InFront(L, S, y) =>
            L[x].priority < L[y].priority \/ L[x].priority = L[y].priority
      BY DEF InFront
  <2>. QED
      BY <1>4, <2>1, <2>2
<1>11. ASSUME NEW m \in 1..N, NEW n \in 1..N, m < n
       PROVE  L[at(m)].priority <= L[at(n)].priority /\ L[at(m)].id # L[at(n)].id
  <2>1. /\ at(m) \in K /\ Cardinality(front[at(m)]) = m - 1
        /\ at(n) \in K /\ Cardinality(front[at(n)]) = n - 1
      BY <1>4, <1>5
  <2>. HIDE DEF at, front
  <2>2. at(m) # at(n) /\ at(n) \notin front[at(m)]
      BY <1>3, <1>11, <2>1
  <2>3. at(m) \in front[at(n)]
      BY <1>1, <2>1, <2>2
  <2>. QED
      BY <1>1, <1>10, <2>1, <2>2, <2>3
<1>12. ASSUME NEW i \in S PROVE \E x \in K : L[x].id = L[i].id /\ L[i].priority <= L[x].priority
  <2>1. PICK x \in Same(L, S, i) : x \in Stays(L, S)
      BY OneStays
  <2>2. i = x \/ Behind(L, x, i)
      BY <2>1 DEF Stays, Same
  <2>3. L[x].priority \in Int /\ L[i].priority \in Int
      BY <1>1, <2>1 DEF Rules, K
  <2>. QED
      BY <2>1, <2>2, <2>3 DEF Behind, Same, K
<1>. HIDE DEF at
<1>13. \A n \in DOMAIN line : \E i \in S : line[n] = L[i]
    BY <1>7, <1>8
<1>14. \A m, n \in DOMAIN line :
           m < n => line[m].priority <= line[n].priority /\ line[m].id # line[n].id
    BY <1>8, <1>11
<1>15. \A i \in S : \E n \in DOMAIN line :
           line[n].id = L[i].id /\ L[i].priority <= line[n].priority
    BY <1>6, <1>8, <1>9, <1>12
<1>. QED
    BY <1>13, <1>14, <1>15 DEF line

LEMMA RulesApply == cast \in Casts => Apply(RulesFor("person"))
<1>1. SUFFICES ASSUME cast \in Casts PROVE Apply(RulesFor("person"))
    OBVIOUS
<1>2. PICK L : L = cast.rules
    OBVIOUS
<1>. DEFINE S == {i \in DOMAIN L : L[i].scope \in {"person", "all"}}
            line == InLine(L, S)
<1>3. RulesFor("person") = line
    BY <1>2, LineIs
<1>4. L \in Seq([id : {L[i].id : i \in DOMAIN L}, priority : Int, scope : {"all", "person", "control"}])
    BY <1>1, <1>2, CastsAreSound
<1>5. DOMAIN L = 1..Len(L) /\ Len(L) \in Nat /\ \A i \in DOMAIN L : L[i].priority \in Int
  <2>1. PICK ids : L \in Seq([id : ids, priority : Int, scope : {"all", "person", "control"}])
      BY <1>4
  <2>2. PICK R : R = [id : ids, priority : Int, scope : {"all", "person", "control"}]
      OBVIOUS
  <2>3. L \in Seq(R) /\ \A r \in R : r.priority \in Int
      BY <2>1, <2>2
  <2>4. DOMAIN L = 1..Len(L) /\ Len(L) \in Nat /\ \A i \in DOMAIN L : L[i] \in R
      BY <2>3
  <2>. QED
      BY <2>3, <2>4
<1>6. IsFiniteSet(DOMAIN L)
    BY <1>5, FS_Interval
<1>7. Rules(L, S)
  <2>1. IsFiniteSet(S)
      BY <1>6, FS_Subset
  <2>2. \A i \in S : i \in Nat /\ L[i].priority \in Int
      BY <1>5
  <2>. QED
      BY <2>1, <2>2 DEF Rules
<1>8. /\ \A n \in DOMAIN line : \E i \in S : line[n] = L[i]
      /\ \A m, n \in DOMAIN line :
            m < n => line[m].priority <= line[n].priority /\ line[m].id # line[n].id
      /\ \A i \in S : \E n \in DOMAIN line :
            line[n].id = L[i].id /\ L[i].priority <= line[n].priority
  <2>. HIDE DEF S
  <2>. QED
      BY <1>7, LineIsRight
<1>. HIDE DEF line
<1>9. {r \in ToSet(L) : r.scope \in {"all", "person"}} = {L[i] : i \in S}
    BY DEF ToSet
<1>. HIDE DEF S
<1>10. ToSet(line) \subseteq {L[i] : i \in S}
    BY <1>8 DEF ToSet
<1>. QED
    BY <1>2, <1>3, <1>8, <1>9, <1>10 DEF Apply

(***************************************************************************)
(* The persons: their inductive invariant.                                   *)
(***************************************************************************)
Phases == {"ready", "gathering", "iterating", "perceiving", "asked", "done"}
Selves ==
    /\ cast \in Casts
    /\ DOMAIN own = People /\ DOMAIN learnt = People /\ DOMAIN lastMood = People
    /\ DOMAIN records = {Shared} \cup {a \in People : Cell(a) = a}
    /\ \A a \in People : DOMAIN own[a] = {"mood", "energy", "goals"} /\ own[a].energy \in Int
Days ==
    /\ sun \in Nat /\ pc \in [People -> Phases] /\ DOMAIN told = People
    /\ \A a \in People : told[a].tick \in Nat
    /\ \A a \in People : pc[a] # "done" => sun > 0
    /\ \A a \in People : pc[a] = "ready" => told[a].tick = 0

\* Letters do not get lost within a tick, and the ones read are told.
LettersInv ==
    /\ DOMAIN waiting = People /\ DOMAIN heard = People /\ DOMAIN incoming = People
    /\ \A a \in People :
          /\ waiting[a] \subseteq InboxOf(a)
          /\ pc[a] = "perceiving" => waiting[a] \subseteq incoming[a]
          /\ told[a].tick = sun => Letters(waiting[a]) \subseteq heard[a]

\* Who rests, rests since the energy was what it was then, and has no letters.
RestInv ==
    /\ rests \in [People -> Nat] /\ tiredAt \in [People -> Int]
    /\ \A a \in People : rests[a] > 0 =>
          /\ pc[a] \in {"ready", "done"} /\ waiting[a] = {}
          /\ own[a].energy = tiredAt[a] + 5 * rests[a] /\ own[a].energy <= 35

\* What an agent has done is stored, or in the tick that runs.
Doing(a) == pc[a] \in {"iterating", "perceiving", "asked"}
PastInv ==
    /\ DOMAIN stored = People /\ DOMAIN past = People /\ DOMAIN context = People
    /\ deeds \in [People -> Seq(ValidActionTypes)]
    /\ \A a \in People :
          /\ IsFiniteSet(stored[a])
          /\ \A e \in past[a] : e \notin stored[a] =>
                Doing(a) /\ \E i \in DOMAIN deeds[a] : e = Entry(i, "action")
          /\ Doing(a) => \A e \in stored[a] : e.tick < sun /\ e \notin context[a] =>
                /\ Cardinality(context[a]) = MemoryLimit(a)
                /\ \A m \in context[a] : m.tick >= e.tick
          /\ pc[a] = "asked" => told[a].memories = context[a]

RulesInv == \A a \in People : told[a].tick > 0 => told[a].rules = RulesFor("person")

PersonsInv == Selves /\ Days /\ SelvesAreApart /\ LettersInv /\ RestInv /\ PastInv /\ RulesInv

LEMMA TwoNumbers ==
    ASSUME NEW x \in Int, NEW y \in Int
    PROVE  /\ Max({x, y}) \in Int
           /\ Min({x, y}) = IF x < y THEN x ELSE y
<1>1. \E m \in {x, y} : \A n \in {x, y} : m >= n
    OBVIOUS
<1>2. Max({x, y}) \in {x, y}
    BY <1>1 DEF Max
<1>3. \E m \in {x, y} : \A n \in {x, y} : m <= n
    OBVIOUS
<1>4. Min({x, y}) \in {x, y} /\ \A n \in {x, y} : Min({x, y}) <= n
    BY <1>3 DEF Min
<1>. QED
    BY <1>2, <1>4

\* Who an agent is born as.
LEMMA BornIs ==
    ASSUME cast \in Casts, NEW a \in People
    PROVE  /\ Born(a).energy \in Int
           /\ Cell(a) \in {a, Shared} /\ a # Shared
           /\ Cell(a) = a <=> "beliefs" \in DOMAIN cast.born[a]
           /\ Cell(a) = a => Born(a).beliefs = [k \in DOMAIN Born(a).beliefs |-> Born(a).beliefs[k]]
<1>1. a # Shared
    BY CastsAreSound DEF Shared
<1>2. /\ "energy" \in DOMAIN cast.born[a] => cast.born[a].energy \in Int
      /\ "beliefs" \in DOMAIN cast.born[a] =>
            cast.born[a].beliefs = [k \in DOMAIN cast.born[a].beliefs |-> cast.born[a].beliefs[k]]
    BY CastsAreSound
<1>3. PICK b : b = cast.born[a]
    OBVIOUS
<1>4. Born(a) = Over(b, DefaultState)
    BY <1>3 DEF Born
<1>5. Born(a).energy = IF "energy" \in DOMAIN b THEN b.energy ELSE 100
    BY <1>4 DEF Over, DefaultState
<1>6. "beliefs" \in DOMAIN b => Born(a).beliefs = b.beliefs
    BY <1>4 DEF Over, DefaultState
<1>. QED
    BY <1>1, <1>2, <1>3, <1>5, <1>6 DEF Cell

LEMMA PersonsStart == PersonsInit => PersonsInv
<1>1. SUFFICES ASSUME PersonsInit PROVE PersonsInv
    OBVIOUS
<1>2. \A a \in People : Born(a).energy \in Int /\ Cell(a) \in {a, Shared} /\ a # Shared
                        /\ (Cell(a) = a <=> "beliefs" \in DOMAIN cast.born[a])
    BY <1>1, BornIs DEF PersonsInit
<1>3. Selves
    BY <1>1, <1>2 DEF PersonsInit, Selves
<1>4. Days
    BY <1>1 DEF PersonsInit, Days, Phases, NoPrompt
<1>5. SelvesAreApart
  <2>1. \A a \in People : own[a].mood = lastMood[a]
      BY <1>1 DEF PersonsInit
  <2>2. ASSUME NEW a \in People, "beliefs" \in DOMAIN cast.born[a]
        PROVE  records[Cell(a)] = Over(learnt[a], Born(a).beliefs)
    <3>1. Cell(a) = a /\ records[a] = Born(a).beliefs /\ learnt[a] = <<>>
        BY <1>1, <1>2, <2>2 DEF PersonsInit
    <3>2. Born(a).beliefs = [k \in DOMAIN Born(a).beliefs |-> Born(a).beliefs[k]]
        BY <1>1, <3>1, BornIs DEF PersonsInit
    <3>3. PICK b : b = Born(a).beliefs
        OBVIOUS
    <3>4. b = [k \in DOMAIN b |-> b[k]]
        BY <3>2, <3>3
    <3>5. Over(<<>>, b) = [k \in DOMAIN b |-> b[k]]
        BY DEF Over
    <3>. QED
        BY <3>1, <3>3, <3>4, <3>5
  <2>3. records[Shared] = <<>> /\ DOMAIN records[Shared] = {}
      BY <1>1 DEF PersonsInit, DefaultState
  <2>4. \A a \in People : learnt[a] = <<>> /\ DOMAIN learnt[a] = {}
      BY <1>1 DEF PersonsInit
  <2>5. \A a \in People : "beliefs" \notin DOMAIN cast.born[a] => Cell(a) = Shared
      BY DEF Cell
  <2>. QED
      BY <2>1, <2>2, <2>3, <2>4, <2>5 DEF SelvesAreApart
<1>6. LettersInv
    BY <1>1 DEF PersonsInit, LettersInv, InboxOf, NoPrompt, Letters
<1>7. RestInv
    BY <1>1 DEF PersonsInit, RestInv
<1>8. PastInv
  <2>1. <<>> \in Seq(ValidActionTypes)
      OBVIOUS
  <2>. QED
      BY <1>1, <2>1, FS_EmptySet DEF PersonsInit, PastInv, Doing
<1>9. RulesInv
    BY <1>1 DEF PersonsInit, RulesInv, NoPrompt
<1>. QED
    BY <1>3, <1>4, <1>5, <1>6, <1>7, <1>8, <1>9 DEF PersonsInv

-----------------------------------------------------------------------------
(***************************************************************************)
(* What an agent is told to be.                                              *)
(***************************************************************************)
\* Three records, one over the other.
LEMMA Layers == ASSUME NEW f, NEW g, NEW h PROVE Over(f, Over(g, h)) = Over(Over(f, g), h)
BY DEF Over

LEMMA UpdateStep ==
    ASSUME Selves, SelvesAreApart, NEW a \in People, NEW u, Sound(u), UpdateInternalState(a, u),
           UNCHANGED cast
    PROVE  Selves' /\ SelvesAreApart'
<1>1. /\ Cell(a)' = Cell(a) /\ \A b \in People : Cell(b)' = Cell(b) /\ Born(b)' = Born(b)
      /\ Cell(a) \in DOMAIN records
    BY BornIs DEF Cell, Born, Selves
<1>2. Given(u.energy, own[a].energy) \in Int
    BY DEF Given, Sound, Selves
<1>3. Selves'
    BY <1>1, <1>2 DEF Selves, UpdateInternalState
<1>4. \A b \in People : own'[b].mood = lastMood'[b]
    BY DEF SelvesAreApart, UpdateInternalState, Selves
<1>5. PICK v : v = u.beliefs
    OBVIOUS
<1>6. /\ records' = [records EXCEPT ![Cell(a)] = Over(v, records[Cell(a)])]
      /\ learnt' = [learnt EXCEPT ![a] = Over(v, learnt[a])]
    BY <1>5 DEF UpdateInternalState, Assigned
<1>7. ASSUME NEW b \in People, "beliefs" \in DOMAIN cast.born[b]
      PROVE  records'[Cell(b)] = Over(learnt'[b], Born(b).beliefs)
  <2>1. Cell(b) = b /\ records[b] = Over(learnt[b], Born(b).beliefs) /\ b \in DOMAIN records
      BY <1>7 DEF SelvesAreApart, Cell, Selves
  <2>2. CASE b = a
    <3>1. records'[b] = Over(v, records[b]) /\ learnt'[b] = Over(v, learnt[b])
        BY <1>6, <2>1, <2>2 DEF Selves
    <3>2. Over(v, Over(learnt[b], Born(b).beliefs)) = Over(Over(v, learnt[b]), Born(b).beliefs)
        BY Layers
    <3>. QED
        BY <2>1, <3>1, <3>2
  <2>3. CASE b # a
    <3>1. Cell(a) # b
        BY <2>3, BornIs DEF Selves
    <3>. QED
        BY <1>6, <2>1, <2>3, <3>1 DEF Selves
  <2>. QED
      BY <2>2, <2>3
<1>8. PICK sharing : sharing = {b \in People : "beliefs" \notin DOMAIN cast.born[b]}
    OBVIOUS
<1>9. PICK B : B = records[Shared]
    OBVIOUS
<1>10. \A b \in sharing : Cell(b) = Shared
    BY <1>8 DEF Cell
<1>11. sharing # {} =>
          /\ DOMAIN B = UNION {DOMAIN learnt[b] : b \in sharing}
          /\ \A k \in DOMAIN B : \E b \in sharing : k \in DOMAIN learnt[b] /\ learnt[b][k] = B[k]
    BY <1>8, <1>9, <1>10 DEF SelvesAreApart
<1>12. ASSUME sharing # {}
       PROVE  LET C == records'[Shared] IN
              /\ DOMAIN C = UNION {DOMAIN learnt'[b] : b \in sharing}
              /\ \A k \in DOMAIN C : \E b \in sharing : k \in DOMAIN learnt'[b] /\ learnt'[b][k] = C[k]
  <2>1. CASE a \notin sharing
    <3>1. Cell(a) = a /\ a # Shared
        BY <1>8, <2>1, BornIs DEF Selves
    <3>2. records'[Shared] = B /\ \A b \in sharing : learnt'[b] = learnt[b]
        BY <1>6, <1>8, <1>9, <2>1, <3>1 DEF Selves
    <3>3. {DOMAIN learnt'[b] : b \in sharing} = {DOMAIN learnt[b] : b \in sharing}
        BY <3>2
    <3>. QED
        BY <1>11, <1>12, <3>2, <3>3
  <2>2. CASE a \in sharing
    <3>1. records'[Shared] = Over(v, B) /\ learnt'[a] = Over(v, learnt[a])
        BY <1>1, <1>6, <1>9, <1>10, <2>2 DEF Selves
    <3>2. \A b \in sharing : b # a => learnt'[b] = learnt[b]
        BY <1>6, <1>8 DEF Selves
    <3>3. PICK C : C = Over(v, B)
        OBVIOUS
    <3>4. /\ DOMAIN C = DOMAIN v \cup DOMAIN B
          /\ \A k \in DOMAIN C : C[k] = IF k \in DOMAIN v THEN v[k] ELSE B[k]
        BY <3>3 DEF Over
    <3>5. PICK m : m = Over(v, learnt[a])
        OBVIOUS
    <3>6. /\ DOMAIN m = DOMAIN v \cup DOMAIN learnt[a]
          /\ \A k \in DOMAIN m : m[k] = IF k \in DOMAIN v THEN v[k] ELSE learnt[a][k]
        BY <3>5 DEF Over
    <3>7. learnt'[a] = m /\ records'[Shared] = C
        BY <3>1, <3>3, <3>5
    <3>8. DOMAIN C = UNION {DOMAIN learnt'[b] : b \in sharing}
      <4>1. \A k \in DOMAIN C : \E b \in sharing : k \in DOMAIN learnt'[b]
          BY <1>11, <1>12, <2>2, <3>2, <3>4, <3>6, <3>7
      <4>2. \A b \in sharing : DOMAIN learnt'[b] \subseteq DOMAIN C
          BY <1>11, <1>12, <2>2, <3>2, <3>4, <3>6, <3>7
      <4>. QED
          BY <4>1, <4>2
    <3>9. ASSUME NEW k \in DOMAIN C
          PROVE  \E b \in sharing : k \in DOMAIN learnt'[b] /\ learnt'[b][k] = C[k]
      <4>1. CASE k \in DOMAIN v
          BY <2>2, <3>4, <3>6, <3>7, <4>1
      <4>2. CASE k \notin DOMAIN v
        <5>1. PICK b \in sharing : k \in DOMAIN learnt[b] /\ learnt[b][k] = B[k]
            BY <1>11, <1>12, <3>4, <4>2
        <5>2. k \in DOMAIN learnt'[b] /\ learnt'[b][k] = B[k]
            BY <3>2, <3>6, <3>7, <4>2, <5>1
        <5>. QED
            BY <3>4, <4>2, <5>2
      <4>. QED
          BY <4>1, <4>2
    <3>. QED
        BY <3>7, <3>8, <3>9
  <2>. QED
      BY <2>1, <2>2
<1>13. {b \in People : "beliefs" \notin DOMAIN cast'.born[b]} = sharing
    BY <1>8
<1>14. \A b \in People \ sharing : records'[Cell(b)'] = Over(learnt'[b], Born(b)'.beliefs)
    BY <1>1, <1>7, <1>8
<1>15. \A b \in sharing : Cell(b)' = Shared
    BY <1>1, <1>8, <1>10
<1>. QED
    BY <1>3, <1>4, <1>12, <1>13, <1>14, <1>15 DEF SelvesAreApart

LEMMA SelvesStay ==
    Selves /\ SelvesAreApart /\ UNCHANGED <<cast, own, records, learnt, lastMood>> =>
        Selves' /\ SelvesAreApart'
BY DEF Selves, SelvesAreApart, Cell, Born

LEMMA ApartStays ==
    ASSUME SelvesAreApart, UNCHANGED <<cast, records, learnt, lastMood>>,
           \A a \in People : own'[a].mood = own[a].mood
    PROVE  SelvesAreApart'
<1>1. \A a \in People : Cell(a)' = Cell(a) /\ Born(a)' = Born(a)
    BY DEF Cell, Born
<1>. QED
    BY <1>1 DEF SelvesAreApart

\* What a tick does not touch.
LEMMA LineWillBe ==
    (RulesFor("person") =
        InLine(cast.rules, {i \in DOMAIN cast.rules : cast.rules[i].scope \in {"person", "all"}}))'
BY LineIs, PTL

LEMMA RulesForStays == UNCHANGED cast => RulesFor("person")' = RulesFor("person")
BY LineIs, LineWillBe

LEMMA RulesStay ==
    RulesInv /\ UNCHANGED <<cast, told>> => RulesInv'
BY RulesForStays DEF RulesInv

LEMMA LimitStays == UNCHANGED cast => \A a \in People : MemoryLimit(a)' = MemoryLimit(a)
BY DEF MemoryLimit

LEMMA PastStays ==
    ASSUME PastInv, UNCHANGED <<cast, sun, stored, past, context, deeds>>,
           \A a \in People : Doing(a)' <=> Doing(a),
           \A a \in People : pc'[a] = "asked" => told'[a].memories = context[a]
    PROVE  PastInv'
<1>1. \A n, kind : Entry(n, kind)' = Entry(n, kind)
    BY DEF Entry
<1>2. \A a \in People : MemoryLimit(a)' = MemoryLimit(a)
    BY LimitStays
<1>3. /\ DOMAIN stored' = People /\ DOMAIN past' = People /\ DOMAIN context' = People
      /\ deeds' \in [People -> Seq(ValidActionTypes)]
    BY DEF PastInv
<1>4. ASSUME NEW a \in People
      PROVE  /\ IsFiniteSet(stored'[a])
             /\ \A e \in past'[a] : e \notin stored'[a] =>
                   Doing(a)' /\ \E i \in DOMAIN deeds'[a] : e = Entry(i, "action")'
             /\ Doing(a)' => \A e \in stored'[a] : e.tick < sun' /\ e \notin context'[a] =>
                   /\ Cardinality(context'[a]) = MemoryLimit(a)'
                   /\ \A m \in context'[a] : m.tick >= e.tick
             /\ pc'[a] = "asked" => told'[a].memories = context'[a]
  <2>1. IsFiniteSet(stored'[a])
      BY DEF PastInv
  <2>2. \A e \in past'[a] : e \notin stored'[a] =>
            Doing(a)' /\ \E i \in DOMAIN deeds'[a] : e = Entry(i, "action")'
      BY <1>1 DEF PastInv
  <2>3. Doing(a)' => \A e \in stored'[a] : e.tick < sun' /\ e \notin context'[a] =>
            /\ Cardinality(context'[a]) = MemoryLimit(a)'
            /\ \A m \in context'[a] : m.tick >= e.tick
      BY <1>2 DEF PastInv
  <2>4. pc'[a] = "asked" => told'[a].memories = context'[a]
      OBVIOUS
  <2>. QED
      BY <2>1, <2>2, <2>3, <2>4
<1>. QED
    BY <1>3, <1>4 DEF PastInv

-----------------------------------------------------------------------------
(***************************************************************************)
(* Steps.                                                                    *)
(***************************************************************************)
LEMMA NewTickOfPersons == PersonsInv /\ NewTick => PersonsInv'
<1>1. SUFFICES ASSUME PersonsInv, NewTick PROVE PersonsInv'
    OBVIOUS
<1>2. Selves' /\ SelvesAreApart'
    BY <1>1, SelvesStay DEF PersonsInv, NewTick, selfVars
<1>3. Days'
    BY <1>1 DEF PersonsInv, NewTick, Days, NoPrompt, Phases
<1>4. LettersInv'
    BY <1>1 DEF PersonsInv, NewTick, Days, LettersInv, NoPrompt, Letters
<1>5. RestInv'
    BY <1>1 DEF PersonsInv, NewTick, RestInv, selfVars
<1>6. PastInv'
  <2>1. <<>> \in Seq(ValidActionTypes)
      OBVIOUS
  <2>2. \A a \in People : ~Doing(a) /\ ~Doing(a)' /\ pc'[a] # "asked"
      BY <1>1 DEF NewTick, Doing
  <2>. QED
      BY <1>1, <2>1, <2>2 DEF PersonsInv, NewTick, PastInv
<1>7. RulesInv'
    BY <1>1 DEF PersonsInv, NewTick, RulesInv, NoPrompt
<1>. QED
    BY <1>2, <1>3, <1>4, <1>5, <1>6, <1>7 DEF PersonsInv

LEMMA LetterStep == ASSUME PersonsInv, NEW a \in People, NEW channel, Letter(a, channel) PROVE PersonsInv'
<1>1. Selves' /\ SelvesAreApart'
    BY SelvesStay DEF PersonsInv, Letter, selfVars, historyVars
<1>2. Days'
    BY DEF PersonsInv, Letter, Days, tickVars
<1>3. LettersInv'
    BY DEF PersonsInv, Letter, LettersInv, InboxOf, Letters, tickVars, historyVars
<1>4. RestInv'
    BY DEF PersonsInv, Letter, RestInv, selfVars, tickVars, historyVars
<1>5. PastInv'
  <2>1. UNCHANGED <<cast, sun, pc, told, stored, past, context, deeds>>
      BY DEF Letter, tickVars, historyVars
  <2>2. /\ \A b \in People : Doing(b)' <=> Doing(b)
        /\ \A b \in People : pc'[b] = "asked" => told'[b].memories = context[b]
      BY <2>1 DEF PersonsInv, PastInv, Doing
  <2>. QED
      BY <2>1, <2>2, PastStays DEF PersonsInv
<1>6. RulesInv'
    BY RulesStay DEF PersonsInv, Letter
<1>. QED
    BY <1>1, <1>2, <1>3, <1>4, <1>5, <1>6 DEF PersonsInv

LEMMA BeginStep == ASSUME PersonsInv, NEW a \in People, Begin(a) PROVE PersonsInv'
<1>. DEFINE idle == a \notin cast.always /\ ShouldIdle(a)
<1>2. /\ pc[a] = "ready" /\ pc' = [pc EXCEPT ![a] = IF idle THEN "done" ELSE "gathering"]
      /\ waiting' = [waiting EXCEPT ![a] = InboxOf(a)]
      /\ UNCHANGED <<cast, sun, records, context, incoming, iteration, deeds, inbox, stored,
                     told, chats, learnt, lastMood, heard, past>>
    BY DEF Begin, To
<1>3. idle => /\ own' = [own EXCEPT ![a] = [@ EXCEPT !.energy = Min({100, own[a].energy + 5})]]
              /\ rests' = [rests EXCEPT ![a] = @ + 1]
              /\ tiredAt' = [tiredAt EXCEPT ![a] = IF rests[a] = 0 THEN own[a].energy ELSE @]
              /\ own[a].energy <= 30 /\ InboxOf(a) = {}
    BY DEF Begin, ShouldIdle
<1>4. ~idle => rests' = [rests EXCEPT ![a] = 0] /\ UNCHANGED <<own, tiredAt>>
    BY DEF Begin
<1>5. own[a].energy \in Int /\ sun > 0 /\ told[a].tick = 0 /\ sun \in Nat
    BY <1>2 DEF PersonsInv, Selves, Days
<1>6. ASSUME idle
      PROVE  /\ own'[a].energy = own[a].energy + 5
             /\ own'[a].mood = own[a].mood /\ DOMAIN own'[a] = DOMAIN own[a]
             /\ \A b \in People : b # a => own'[b] = own[b]
             /\ DOMAIN own' = People
  <2>1. PICK e : e = own[a].energy
      OBVIOUS
  <2>2. e \in Int /\ e <= 30 /\ e + 5 \in Int /\ 100 \in Int
      BY <1>3, <1>5, <1>6, <2>1
  <2>3. Min({100, e + 5}) = IF 100 < e + 5 THEN 100 ELSE e + 5
      BY <2>2, TwoNumbers
  <2>4. Min({100, e + 5}) = e + 5
      BY <2>2, <2>3
  <2>5. own' = [own EXCEPT ![a] = [own[a] EXCEPT !.energy = e + 5]]
      BY <1>3, <1>6, <2>1, <2>4
  <2>. QED
      BY <2>1, <2>5 DEF PersonsInv, Selves
<1>7. \A b \in People : own'[b].mood = own[b].mood /\ DOMAIN own'[b] = DOMAIN own[b]
                        /\ own'[b].energy \in Int
    BY <1>4, <1>5, <1>6 DEF PersonsInv, Selves
<1>8. Selves'
    BY <1>2, <1>4, <1>6, <1>7 DEF PersonsInv, Selves, Cell
<1>9. SelvesAreApart'
    BY <1>2, <1>7, ApartStays DEF PersonsInv
<1>10. Days'
    BY <1>2 DEF PersonsInv, Days, Phases
<1>11. LettersInv'
    BY <1>2, <1>5 DEF PersonsInv, LettersInv, Days, InboxOf, Letters, Phases
<1>12. RestInv'
  <2>1. waiting'[a] = InboxOf(a) /\ \A b \in People : b # a => waiting'[b] = waiting[b] /\ pc'[b] = pc[b]
      BY <1>2 DEF PersonsInv, LettersInv, Days
  <2>2. CASE idle
    <3>1. /\ rests[a] \in Nat /\ rests'[a] = rests[a] + 1 /\ rests' \in [People -> Nat]
          /\ \A b \in People : b # a => rests'[b] = rests[b]
        BY <1>3, <2>2 DEF PersonsInv, RestInv
    <3>2. /\ tiredAt'[a] = IF rests[a] = 0 THEN own[a].energy ELSE tiredAt[a]
          /\ tiredAt[a] \in Int /\ tiredAt' \in [People -> Int]
          /\ \A b \in People : b # a => tiredAt'[b] = tiredAt[b]
        BY <1>3, <1>5, <2>2 DEF PersonsInv, RestInv
    <3>3. own'[a].energy = own[a].energy + 5 /\ own[a].energy <= 30 /\ waiting'[a] = {}
        BY <1>3, <1>6, <2>1, <2>2
    <3>4. rests[a] > 0 => own[a].energy = tiredAt[a] + 5 * rests[a]
        BY DEF PersonsInv, RestInv
    <3>5. own'[a].energy = tiredAt'[a] + 5 * rests'[a] /\ own'[a].energy <= 35
        BY <1>5, <3>1, <3>2, <3>3, <3>4
    <3>6. pc'[a] = "done"
        BY <1>2, <2>2 DEF PersonsInv, Days
    <3>7. \A b \in People : b # a => own'[b] = own[b]
        BY <1>6, <2>2
    <3>. QED
        BY <2>1, <3>1, <3>2, <3>3, <3>5, <3>6, <3>7 DEF PersonsInv, RestInv
  <2>3. CASE ~idle
      BY <1>2, <1>4, <2>1, <2>3 DEF PersonsInv, RestInv, Days
  <2>. QED
      BY <2>2, <2>3
<1>13. PastInv'
  <2>1. /\ \A b \in People : Doing(b)' <=> Doing(b)
        /\ \A b \in People : pc'[b] = "asked" => told'[b].memories = context[b]
      BY <1>2 DEF PersonsInv, PastInv, Doing, Days
  <2>. QED
      BY <1>2, <2>1, PastStays DEF PersonsInv
<1>14. RulesInv'
    BY <1>2, RulesStay DEF PersonsInv
<1>. QED
    BY <1>8, <1>9, <1>10, <1>11, <1>12, <1>13, <1>14 DEF PersonsInv

LEMMA SkipStep == ASSUME PersonsInv, NEW a \in People, Skip(a) PROVE PersonsInv'
<1>1. Selves' /\ SelvesAreApart'
    BY SelvesStay DEF PersonsInv, Skip, selfVars, historyVars
<1>2. Days'
    BY DEF PersonsInv, Skip, Days, To, Phases
<1>3. LettersInv'
    BY DEF PersonsInv, Skip, LettersInv, InboxOf, Letters, To, Days, historyVars
<1>4. RestInv'
    BY DEF PersonsInv, Skip, RestInv, selfVars, To, Days, historyVars
<1>5. PastInv'
  <2>1. /\ pc[a] = "ready" /\ pc' = [pc EXCEPT ![a] = "done"]
        /\ UNCHANGED <<cast, sun, told, stored, past, context, deeds>>
      BY DEF Skip, To, historyVars
  <2>2. /\ \A b \in People : Doing(b)' <=> Doing(b)
        /\ \A b \in People : pc'[b] = "asked" => told'[b].memories = context[b]
      BY <2>1 DEF PersonsInv, PastInv, Doing, Days
  <2>. QED
      BY <2>1, <2>2, PastStays DEF PersonsInv
<1>6. RulesInv'
    BY RulesStay DEF PersonsInv, Skip
<1>. QED
    BY <1>1, <1>2, <1>3, <1>4, <1>5, <1>6 DEF PersonsInv

LEMMA GatherStep == ASSUME PersonsInv, NEW a \in People, GatherContext(a) PROVE PersonsInv'
<1>1. PICK M \in SUBSET stored[a] : Recents(a, M) /\ context' = [context EXCEPT ![a] = M]
    BY DEF GatherContext
<1>2. Selves' /\ SelvesAreApart'
    BY SelvesStay DEF PersonsInv, GatherContext, selfVars, historyVars
<1>3. Days'
    BY DEF PersonsInv, GatherContext, Days, To, Phases
<1>4. LettersInv'
    BY DEF PersonsInv, GatherContext, LettersInv, InboxOf, Letters, To, Days, historyVars
<1>5. RestInv'
    BY DEF PersonsInv, GatherContext, RestInv, selfVars, To, Days, historyVars
<1>6. PastInv'
  <2>1. \A e \in stored[a] : e \notin M =>
            Cardinality(M) = MemoryLimit(a) /\ \A m \in M : m.tick >= e.tick
    <3>1. SUFFICES ASSUME NEW e \in stored[a], e \notin M
                   PROVE  Cardinality(M) = MemoryLimit(a) /\ \A m \in M : m.tick >= e.tick
        OBVIOUS
    <3>2. \A m \in M : m.tick >= e.tick
        BY <1>1, <3>1 DEF Recents
    <3>3. IsFiniteSet(stored[a]) /\ Cardinality(stored[a]) \in Nat /\ MemoryLimit(a) \in Int
        BY FS_CardinalityType DEF PersonsInv, PastInv, MemoryLimit
    <3>4. Cardinality(M) # Cardinality(stored[a])
      <4>1. PICK all : all = stored[a]
          OBVIOUS
      <4>2. IsFiniteSet(all) /\ M \in SUBSET all /\ M # all
          BY <3>1, <3>3, <4>1
      <4>3. Cardinality(M) # Cardinality(all)
          BY <4>2, FS_Subset
      <4>. QED
          BY <4>1, <4>3
    <3>5. Cardinality(M) \in {MemoryLimit(a), Cardinality(stored[a])}
      <4>1. PICK c, l : c = Cardinality(stored[a]) /\ l = MemoryLimit(a)
          OBVIOUS
      <4>2. Cardinality(M) = Min({l, c})
          BY <1>1, <4>1 DEF Recents
      <4>3. l \in Int /\ c \in Int
          BY <3>3, <4>1
      <4>4. Min({l, c}) = IF l < c THEN l ELSE c
          BY <4>3, TwoNumbers
      <4>. QED
          BY <4>1, <4>2, <4>4
    <3>. QED
        BY <3>2, <3>4, <3>5
  <2>2. <<>> \in Seq(ValidActionTypes)
      OBVIOUS
  <2>3. /\ pc' = [pc EXCEPT ![a] = "iterating"] /\ pc[a] = "gathering"
        /\ deeds' = [deeds EXCEPT ![a] = <<>>]
        /\ UNCHANGED <<cast, sun, stored, told, past>>
      BY DEF GatherContext, To, historyVars
  <2>4. /\ ~Doing(a) /\ \A b \in People : b # a => Doing(b)' = Doing(b) /\ deeds'[b] = deeds[b]
                                                    /\ context'[b] = context[b] /\ pc'[b] = pc[b]
        /\ context'[a] = M /\ pc'[a] = "iterating"
      BY <1>1, <2>3 DEF PersonsInv, PastInv, Days, Doing
  <2>5. \A n, kind : Entry(n, kind)' = Entry(n, kind)
      BY <2>3 DEF Entry
  <2>. QED
      BY <1>1, <2>1, <2>2, <2>3, <2>4, <2>5, LimitStays DEF PersonsInv, PastInv
<1>7. RulesInv'
    BY RulesStay DEF PersonsInv, GatherContext
<1>. QED
    BY <1>2, <1>3, <1>4, <1>5, <1>6, <1>7 DEF PersonsInv

\* An agent is told what there is.
LEMMA TellStep ==
    ASSUME PersonsInv, NEW a \in People, NEW letters, NEW seen, Tell(a, letters, seen),
           pc[a] \in {"iterating", "perceiving"}, waiting[a] \subseteq letters,
           UNCHANGED <<cast, sun, own, records, context, deeds, inbox, stored,
                       learnt, lastMood, waiting, rests, tiredAt, past>>,
           DOMAIN incoming' = People, \A b \in People : b # a => incoming'[b] = incoming[b]
    PROVE  PersonsInv'
<1>1. PICK t : /\ t.tick = sun /\ t.memories = context[a] /\ t.rules = RulesFor("person")
               /\ told' = [told EXCEPT ![a] = t]
  <2>1. PICK s, e, w, m : told' = [told EXCEPT ![a] =
            [tick |-> sun, sections |-> s, memories |-> context[a], letters |-> Letters(letters),
             rules |-> RulesFor("person"), energy |-> e, warning |-> w, mood |-> m]]
      BY DEF Tell
  <2>2. PICK t : t =
            [tick |-> sun, sections |-> s, memories |-> context[a], letters |-> Letters(letters),
             rules |-> RulesFor("person"), energy |-> e, warning |-> w, mood |-> m]
      OBVIOUS
  <2>. QED
      BY <2>1, <2>2
<1>2. /\ pc' = [pc EXCEPT ![a] = "asked"]
      /\ heard' = [heard EXCEPT ![a] = heard[a] \cup Letters(letters)]
    BY DEF Tell, To
<1>3. sun \in Nat
    BY DEF PersonsInv, Days
<1>4. Selves' /\ SelvesAreApart'
    BY SelvesStay DEF PersonsInv
<1>5. Days'
    BY <1>1, <1>2, <1>3 DEF PersonsInv, Days, Phases
<1>6. LettersInv'
  <2>1. Letters(waiting[a]) \subseteq Letters(letters)
      BY DEF Letters
  <2>2. \A s : Letters(s)' = Letters(s)
      BY DEF Letters
  <2>3. \A b \in People : InboxOf(b)' = InboxOf(b)
      BY DEF InboxOf
  <2>. QED
      BY <1>1, <1>2, <2>1, <2>2, <2>3 DEF PersonsInv, LettersInv, Days
<1>7. RestInv'
    BY <1>2 DEF PersonsInv, RestInv, Days
<1>8. PastInv'
  <2>1. /\ \A b \in People : Doing(b)' <=> Doing(b)
        /\ \A b \in People : pc'[b] = "asked" => told'[b].memories = context[b]
      BY <1>1, <1>2 DEF PersonsInv, PastInv, Doing, Days
  <2>. QED
      BY <2>1, PastStays DEF PersonsInv
<1>9. RulesInv'
    BY <1>1, RulesForStays DEF PersonsInv, RulesInv, Days
<1>. QED
    BY <1>4, <1>5, <1>6, <1>7, <1>8, <1>9 DEF PersonsInv

LEMMA IterateStep == ASSUME PersonsInv, NEW a \in People, Iterate(a) PROVE PersonsInv'
<1>1. /\ pc[a] = "iterating"
      /\ UNCHANGED <<cast, sun, own, records, context, deeds, inbox, stored,
                     learnt, lastMood, waiting, rests, tiredAt, past>>
    BY DEF Iterate, selfVars
<1>2. waiting[a] \subseteq InboxOf(a)
    BY DEF PersonsInv, LettersInv
<1>3. CASE ~cast.perceives
  <2>1. Tell(a, InboxOf(a), FALSE) /\ UNCHANGED incoming
      BY <1>3 DEF Iterate
  <2>2. DOMAIN incoming' = People /\ \A b \in People : b # a => incoming'[b] = incoming[b]
      BY <2>1 DEF PersonsInv, LettersInv
  <2>. QED
      BY <1>1, <1>2, <2>1, <2>2, TellStep
<1>4. CASE cast.perceives
  <2>1. /\ incoming' = [incoming EXCEPT ![a] = InboxOf(a)]
        /\ pc' = [pc EXCEPT ![a] = "perceiving"] /\ UNCHANGED <<told, heard>>
      BY <1>4 DEF Iterate, To
  <2>2. Selves' /\ SelvesAreApart'
      BY <1>1, SelvesStay DEF PersonsInv
  <2>3. Days'
      BY <1>1, <2>1 DEF PersonsInv, Days, Phases
  <2>4. LettersInv'
    <3>1. \A s : Letters(s)' = Letters(s)
        BY <1>1 DEF Letters
    <3>2. \A b \in People : InboxOf(b)' = InboxOf(b)
        BY <1>1 DEF InboxOf
    <3>. QED
        BY <1>1, <1>2, <2>1, <3>1, <3>2 DEF PersonsInv, LettersInv, Days
  <2>5. RestInv'
      BY <1>1, <2>1 DEF PersonsInv, RestInv, Days
  <2>6. PastInv'
    <3>1. /\ \A b \in People : Doing(b)' <=> Doing(b)
          /\ \A b \in People : pc'[b] = "asked" => told'[b].memories = context[b]
        BY <1>1, <2>1 DEF PersonsInv, PastInv, Doing, Days
    <3>. QED
        BY <1>1, <3>1, PastStays DEF PersonsInv
  <2>7. RulesInv'
      BY <1>1, <2>1, RulesStay DEF PersonsInv
  <2>. QED
      BY <2>2, <2>3, <2>4, <2>5, <2>6, <2>7 DEF PersonsInv
<1>. QED
    BY <1>3, <1>4

LEMMA PerceivedStep == ASSUME PersonsInv, NEW a \in People, Perceived(a) PROVE PersonsInv'
<1>1. PICK seen : Tell(a, incoming[a], seen)
    BY DEF Perceived
<1>2. /\ pc[a] = "perceiving"
      /\ UNCHANGED <<cast, sun, own, records, context, incoming, deeds, inbox, stored,
                     learnt, lastMood, waiting, rests, tiredAt, past>>
    BY DEF Perceived, selfVars
<1>3. waiting[a] \subseteq incoming[a] /\ DOMAIN incoming' = People
    BY <1>2 DEF PersonsInv, LettersInv
<1>. QED
    BY <1>1, <1>2, <1>3, TellStep

LEMMA ParsedIs ==
    ASSUME cast \in Casts, NEW answer \in cast.answers
    PROVE  LET parsed == ParseAgentAction(answer) IN
           /\ parsed.type \in ValidActionTypes
           /\ parsed.update # <<>> => Sound(parsed.update[1])
BY CastsAreSound DEF ParseAgentAction, ValidActionTypes

LEMMA RespondStep ==
    ASSUME PersonsInv, NEW a \in People, NEW answer \in cast.answers, Respond(a, answer)
    PROVE  PersonsInv'
<1>1. PICK parsed : parsed = ParseAgentAction(answer)
    OBVIOUS
<1>2. PICK u : u = IF parsed.update # <<>> THEN parsed.update[1]
                   ELSE [Nothing EXCEPT !.energy = {ApplyEnergyDecay(own[a].energy, parsed.type)}]
    OBVIOUS
<1>3. /\ pc[a] = "asked" /\ pc' = [pc EXCEPT ![a] = "iterating"]
      /\ UpdateInternalState(a, u)
      /\ deeds' = [deeds EXCEPT ![a] = Append(deeds[a], parsed.type)]
      /\ past' = [past EXCEPT ![a] = past[a] \cup {Entry(Len(deeds[a]) + 1, "action")}]
      /\ UNCHANGED <<cast, sun, context, incoming, inbox, stored, told, waiting, heard,
                     rests, tiredAt>>
    BY <1>1, <1>2 DEF Respond, To
<1>4. parsed.type \in ValidActionTypes /\ (parsed.update # <<>> => Sound(parsed.update[1]))
    BY <1>1, ParsedIs DEF PersonsInv, Selves
<1>5. Sound(u)
  <2>1. own[a].energy - EnergyCost(parsed.type) \in Int
    <3>1. EnergyCost(parsed.type) \in Int
        BY DEF EnergyCost
    <3>. QED
        BY <3>1 DEF PersonsInv, Selves
  <2>2. ApplyEnergyDecay(own[a].energy, parsed.type) \in Int
      BY <2>1, TwoNumbers DEF ApplyEnergyDecay
  <2>3. PICK n \in Int : n = ApplyEnergyDecay(own[a].energy, parsed.type)
      BY <2>2
  <2>4. [Nothing EXCEPT !.energy = {n}].energy = {n}
      BY DEF Nothing
  <2>. QED
      BY <1>2, <1>4, <2>3, <2>4 DEF Sound
<1>6. Selves' /\ SelvesAreApart'
    BY <1>3, <1>5, UpdateStep DEF PersonsInv
<1>7. Days'
    BY <1>3 DEF PersonsInv, Days, Phases
<1>8. LettersInv'
  <2>1. \A s : Letters(s)' = Letters(s)
      BY <1>3 DEF Letters
  <2>2. \A b \in People : InboxOf(b)' = InboxOf(b)
      BY <1>3 DEF InboxOf
  <2>. QED
      BY <1>3, <2>1, <2>2 DEF PersonsInv, LettersInv, Days
<1>9. RestInv'
  <2>1. \A b \in People : b # a => own'[b] = own[b]
    <3>1. PICK r : own' = [own EXCEPT ![a] = r]
        BY <1>3 DEF UpdateInternalState
    <3>. QED
        BY <3>1 DEF PersonsInv, Selves
  <2>2. rests[a] = 0
    <3>1. pc[a] = "asked"
        BY <1>3
    <3>. QED
        BY <3>1 DEF PersonsInv, RestInv
  <2>3. \A b \in People : b # a => pc'[b] = pc[b]
      BY <1>3 DEF PersonsInv, Days
  <2>4. UNCHANGED <<waiting, rests, tiredAt>>
      BY <1>3
  <2>. QED
      BY <2>1, <2>2, <2>3, <2>4 DEF PersonsInv, RestInv
<1>10. PastInv'
  <2>1. deeds[a] \in Seq(ValidActionTypes) /\ Len(deeds[a]) \in Nat
      BY DEF PersonsInv, PastInv
  <2>2. PICK d : d = Append(deeds[a], parsed.type)
      OBVIOUS
  <2>3. /\ d \in Seq(ValidActionTypes) /\ DOMAIN deeds[a] \subseteq DOMAIN d
        /\ Len(deeds[a]) + 1 \in DOMAIN d
      BY <1>4, <2>1, <2>2
  <2>4. /\ deeds' \in [People -> Seq(ValidActionTypes)] /\ deeds'[a] = d
        /\ \A b \in People : b # a => deeds'[b] = deeds[b]
      BY <1>3, <2>2, <2>3 DEF PersonsInv, PastInv
  <2>5. \A n, kind : Entry(n, kind)' = Entry(n, kind)
      BY <1>3 DEF Entry
  <2>6. /\ \A b \in People : Doing(b)' <=> Doing(b)
        /\ Doing(a) /\ pc'[a] # "asked" /\ \A b \in People : b # a => pc'[b] = pc[b]
      BY <1>3 DEF PersonsInv, Doing, Days
  <2>7. \A b \in People : \A e \in past'[b] : e \notin stored'[b] =>
            Doing(b)' /\ \E i \in DOMAIN deeds'[b] : e = Entry(i, "action")'
    <3>1. SUFFICES ASSUME NEW b \in People, NEW e \in past'[b], e \notin stored[b]
                   PROVE  Doing(b) /\ \E i \in DOMAIN deeds'[b] : e = Entry(i, "action")
        BY <1>3, <2>5, <2>6
    <3>2. CASE e \in past[b]
        BY <2>3, <2>4, <3>1, <3>2 DEF PersonsInv, PastInv
    <3>3. CASE e \notin past[b]
        BY <1>3, <2>3, <2>4, <2>6, <3>1, <3>3 DEF PersonsInv, PastInv
    <3>. QED
        BY <3>2, <3>3
  <2>8. \A b \in People : MemoryLimit(b)' = MemoryLimit(b)
      BY <1>3, LimitStays
  <2>. QED
      BY <1>3, <2>4, <2>6, <2>7, <2>8 DEF PersonsInv, PastInv
<1>11. RulesInv'
    BY <1>3, RulesStay DEF PersonsInv
<1>. QED
    BY <1>6, <1>7, <1>8, <1>9, <1>10, <1>11 DEF PersonsInv

LEMMA EndStep == ASSUME PersonsInv, NEW a \in People, EndIterations(a) PROVE PersonsInv'
<1>1. PICK new : new = {Entry(i, "action") : i \in DOMAIN deeds[a]}
    OBVIOUS
<1>2. /\ pc[a] = "iterating" /\ pc' = [pc EXCEPT ![a] = "done"]
      /\ stored' = [stored EXCEPT ![a] = stored[a] \cup new]
      /\ UNCHANGED <<cast, sun, own, records, context, incoming, deeds, inbox, told,
                     learnt, lastMood, waiting, heard, rests, tiredAt, past>>
    BY <1>1 DEF EndIterations, To, PersistedActions, selfVars, historyVars
<1>3. Selves' /\ SelvesAreApart'
    BY <1>2, SelvesStay DEF PersonsInv
<1>4. Days'
    BY <1>2 DEF PersonsInv, Days, Phases
<1>5. LettersInv'
    BY <1>2 DEF PersonsInv, LettersInv, InboxOf, Letters, Days
<1>6. RestInv'
    BY <1>2 DEF PersonsInv, RestInv, Days
<1>7. PastInv'
  <2>1. IsFiniteSet(new)
    <3>1. deeds[a] \in Seq(ValidActionTypes)
        BY DEF PersonsInv, PastInv
    <3>2. DOMAIN deeds[a] = 1..Len(deeds[a]) /\ Len(deeds[a]) \in Nat
        BY <3>1
    <3>3. IsFiniteSet(DOMAIN deeds[a])
        BY <3>2, FS_Interval
    <3>4. PICK D : D = DOMAIN deeds[a]
        OBVIOUS
    <3>5. PICK f : f = [i \in D |-> Entry(i, "action")]
        OBVIOUS
    <3>6. f \in Surjection(D, new)
        BY <1>1, <3>4, <3>5 DEF Surjection
    <3>. QED
        BY <3>3, <3>4, <3>6, FS_Surjection
  <2>2. IsFiniteSet(stored[a] \cup new)
      BY <2>1, FS_Union DEF PersonsInv, PastInv
  <2>3. /\ ~Doing(a)' /\ pc'[a] # "asked" /\ stored'[a] = stored[a] \cup new
        /\ \A b \in People : b # a => stored'[b] = stored[b] /\ pc'[b] = pc[b] /\ (Doing(b)' <=> Doing(b))
      BY <1>2 DEF PersonsInv, PastInv, Days, Doing
  <2>4. \A n, kind : Entry(n, kind)' = Entry(n, kind)
      BY <1>2 DEF Entry
  <2>5. \A e \in past[a] : e \in stored[a] \cup new
      BY <1>1 DEF PersonsInv, PastInv
  <2>6. \A b \in People : MemoryLimit(b)' = MemoryLimit(b)
      BY <1>2, LimitStays
  <2>. QED
      BY <1>2, <2>2, <2>3, <2>4, <2>5, <2>6 DEF PersonsInv, PastInv
<1>8. RulesInv'
    BY <1>2, RulesStay DEF PersonsInv
<1>. QED
    BY <1>3, <1>4, <1>5, <1>6, <1>7, <1>8 DEF PersonsInv

LEMMA FailedTickStep == ASSUME PersonsInv, NEW a \in People, TickFails(a) PROVE PersonsInv'
<1>1. PICK undone : undone = {Entry(i, "action") : i \in DOMAIN deeds[a]}
    OBVIOUS
<1>2. /\ pc[a] = "asked" /\ pc' = [pc EXCEPT ![a] = "done"]
      /\ deeds' = [deeds EXCEPT ![a] = <<>>]
      /\ past' = [past EXCEPT ![a] = past[a] \ undone]
      /\ UNCHANGED <<cast, sun, own, records, context, incoming, inbox, stored, told,
                     learnt, lastMood, waiting, heard, rests, tiredAt>>
    BY <1>1 DEF TickFails, To, selfVars
<1>3. Selves' /\ SelvesAreApart'
    BY <1>2, SelvesStay DEF PersonsInv
<1>4. Days'
    BY <1>2 DEF PersonsInv, Days, Phases
<1>5. LettersInv'
    BY <1>2 DEF PersonsInv, LettersInv, InboxOf, Letters, Days
<1>6. RestInv'
    BY <1>2 DEF PersonsInv, RestInv, Days
<1>7. PastInv'
  <2>1. <<>> \in Seq(ValidActionTypes)
      OBVIOUS
  <2>2. /\ ~Doing(a)' /\ pc'[a] # "asked" /\ past'[a] = past[a] \ undone
        /\ \A b \in People : b # a => /\ past'[b] = past[b] /\ pc'[b] = pc[b] /\ (Doing(b)' <=> Doing(b))
                                      /\ deeds'[b] = deeds[b]
      BY <1>2 DEF PersonsInv, PastInv, Days, Doing
  <2>3. \A n, kind : Entry(n, kind)' = Entry(n, kind)
      BY <1>2 DEF Entry
  <2>4. \A e \in past'[a] : e \in stored[a]
      BY <1>1, <2>2 DEF PersonsInv, PastInv
  <2>5. \A b \in People : MemoryLimit(b)' = MemoryLimit(b)
      BY <1>2, LimitStays
  <2>. QED
      BY <1>2, <2>1, <2>2, <2>3, <2>4, <2>5 DEF PersonsInv, PastInv
<1>8. RulesInv'
    BY <1>2, RulesStay DEF PersonsInv
<1>. QED
    BY <1>3, <1>4, <1>5, <1>6, <1>7, <1>8 DEF PersonsInv

LEMMA ChatStep ==
    ASSUME PersonsInv, NEW a \in People, NEW u \in cast.updates, ChatUpdates(a, u)
    PROVE  PersonsInv'
<1>1. PICK e : e = Entry(chats, "chat")
    OBVIOUS
<1>2. /\ UpdateInternalState(a, u)
      /\ stored' = [stored EXCEPT ![a] = stored[a] \cup {e}]
      /\ past' = [past EXCEPT ![a] = past[a] \cup {e}]
      /\ rests' = [rests EXCEPT ![a] = 0]
      /\ UNCHANGED <<cast, sun, pc, context, incoming, deeds, inbox, told, waiting, heard, tiredAt>>
    BY <1>1 DEF ChatUpdates, tickVars
<1>3. Sound(u)
    BY CastsAreSound DEF PersonsInv, Selves
<1>4. Selves' /\ SelvesAreApart'
    BY <1>2, <1>3, UpdateStep DEF PersonsInv
<1>5. Days'
    BY <1>2 DEF PersonsInv, Days
<1>6. LettersInv'
    BY <1>2 DEF PersonsInv, LettersInv, InboxOf, Letters
<1>7. RestInv'
  <2>1. \A b \in People : b # a => own'[b] = own[b]
      BY <1>2 DEF UpdateInternalState, PersonsInv, Selves
  <2>. QED
      BY <1>2, <2>1 DEF PersonsInv, RestInv
<1>8. PastInv'
  <2>1. e.tick = sun /\ sun \in Nat
      BY <1>1 DEF Entry, PersonsInv, Days
  <2>2. IsFiniteSet(stored[a] \cup {e})
      BY FS_Singleton, FS_Union DEF PersonsInv, PastInv
  <2>3. /\ stored'[a] = stored[a] \cup {e} /\ past'[a] = past[a] \cup {e}
        /\ \A b \in People : b # a => stored'[b] = stored[b] /\ past'[b] = past[b]
        /\ \A b \in People : Doing(b)' <=> Doing(b)
      BY <1>2 DEF PersonsInv, PastInv, Doing
  <2>4. \A n, kind : Entry(n, kind)' = Entry(n, kind)
      BY <1>2 DEF Entry
  <2>5. \A b \in People : MemoryLimit(b)' = MemoryLimit(b)
      BY <1>2, LimitStays
  <2>. QED
      BY <1>2, <2>1, <2>2, <2>3, <2>4, <2>5 DEF PersonsInv, PastInv
<1>9. RulesInv'
    BY <1>2, RulesStay DEF PersonsInv
<1>. QED
    BY <1>4, <1>5, <1>6, <1>7, <1>8, <1>9 DEF PersonsInv

LEMMA PersonsStep == PersonsInv /\ [PersonsNext]_personsVars => PersonsInv'
<1>1. ASSUME PersonsInv, UNCHANGED personsVars PROVE PersonsInv'
  <2>1. UNCHANGED <<cast, sun, own, records, pc, context, incoming, deeds, inbox, stored, told,
                    learnt, lastMood, waiting, heard, rests, tiredAt, past>>
      BY <1>1 DEF personsVars, selfVars, tickVars, historyVars
  <2>2. Selves' /\ SelvesAreApart'
      BY <1>1, <2>1, SelvesStay DEF PersonsInv
  <2>3. Days'
      BY <1>1, <2>1 DEF PersonsInv, Days
  <2>4. LettersInv'
      BY <1>1, <2>1 DEF PersonsInv, LettersInv, InboxOf, Letters
  <2>5. RestInv'
      BY <1>1, <2>1 DEF PersonsInv, RestInv
  <2>6. PastInv'
    <3>1. /\ \A b \in People : Doing(b)' <=> Doing(b)
          /\ \A b \in People : pc'[b] = "asked" => told'[b].memories = context[b]
        BY <1>1, <2>1 DEF PersonsInv, PastInv, Doing
    <3>. QED
        BY <1>1, <2>1, <3>1, PastStays DEF PersonsInv
  <2>7. RulesInv'
      BY <1>1, <2>1, RulesStay DEF PersonsInv
  <2>. QED
      BY <2>2, <2>3, <2>4, <2>5, <2>6, <2>7 DEF PersonsInv
<1>2. ASSUME PersonsInv, PersonsNext PROVE PersonsInv'
    BY <1>2, NewTickOfPersons, LetterStep, BeginStep, SkipStep, GatherStep, IterateStep,
       PerceivedStep, EndStep, FailedTickStep, RespondStep, ChatStep DEF PersonsNext
<1>. QED
    BY <1>1, <1>2

LEMMA LettersFollow == PersonsInv => MessagesAreTold /\ NobodyRestsOnALetter
BY DEF PersonsInv, LettersInv, RestInv, MessagesAreTold, NobodyRestsOnALetter, Letters

LEMMA RestFollows == PersonsInv => RestEnds
<1>1. SUFFICES ASSUME PersonsInv, NEW a \in People, rests[a] > 0
               PROVE  5 * (rests[a] - 1) <= 30 - tiredAt[a]
    BY DEF RestEnds
<1>2. /\ rests[a] \in Nat /\ tiredAt[a] \in Int
      /\ own[a].energy = tiredAt[a] + 5 * rests[a] /\ own[a].energy <= 35
    BY <1>1 DEF PersonsInv, RestInv
<1>. QED
    BY <1>2

LEMMA PastFollows == PersonsInv => PastIsTold
<1>1. SUFFICES ASSUME PersonsInv, NEW a \in People, pc[a] = "asked", NEW e \in past[a], e.tick < sun,
                      e \notin told[a].memories
               PROVE  /\ Cardinality(told[a].memories) = MemoryLimit(a)
                      /\ \A m \in told[a].memories : m.tick >= e.tick
    BY DEF PastIsTold
<1>2. sun \in Nat /\ \A i : Entry(i, "action").tick = sun
    BY <1>1 DEF PersonsInv, Days, Entry
<1>3. e \in stored[a]
    BY <1>1, <1>2 DEF PersonsInv, PastInv
<1>. QED
    BY <1>1, <1>3 DEF PersonsInv, PastInv, Doing

\* Whatever agents are born as, however messages, chats, failures and ticks interleave: each
\* keeps its own state, but for the records those without any share; it is told the letters
\* it found, its past and its rules; and its rest ends.
THEOREM PersonsStayThemselves == PersonsSpec => []PersonsAreThemselves
<1>1. PersonsInv => PersonsAreThemselves
  <2>1. PersonsInv => RulesAreTold
      BY RulesApply DEF PersonsInv, Selves, RulesInv, RulesAreTold
  <2>. QED
      BY <2>1, LettersFollow, RestFollows, PastFollows DEF PersonsInv, PersonsAreThemselves
<1>. QED
    BY <1>1, PersonsStart, PersonsStep, PTL DEF PersonsSpec

-----------------------------------------------------------------------------
(***************************************************************************)
(* The needs: their inductive invariant.                                     *)
(***************************************************************************)
Moments == {"configured", "failed", "idle", "acting", "transforming", "ticking"}
Deeds == [agent : crew, move : config.moves \cup {Resting}]
NeedTypes ==
    /\ config \in Settings /\ tick \in Nat /\ stage \in Moments
    /\ crew \subseteq Folk /\ active \subseteq crew /\ toFeel \subseteq crew
    /\ done \in [Folk -> Seq(config.moves)] /\ actions \in Seq(Deeds)
    /\ DOMAIN owed = Folk /\ DOMAIN needs \subseteq Folk
    /\ \A a \in DOMAIN needs : SoundNeeds(needs[a])
    /\ ~config.perception => DOMAIN needs = {}

\* Where the tick is.
HourInv ==
    /\ stage \in {"configured", "failed"} => tick = 0 /\ DOMAIN needs = {} /\ toFeel = {}
    /\ stage \in {"acting", "transforming", "ticking"} => tick > 0
    /\ stage \in {"acting", "transforming"} => toFeel = crew
    /\ stage = "acting" => credits = {}
    /\ stage \notin {"acting", "transforming"} => actions = <<>>
    /\ stage = "idle" => toFeel = {} \/ ~config.perception

\* The credits are numbers, and those of actions that have been seen.
CreditsInv ==
    /\ IsFiniteSet(credits)
    /\ \A c \in credits : c.amount \in Nat /\ c.of \in Nat /\ (stage = "transforming" => c.of > Len(actions))

\* Until an agent's needs advance they are what they were, and the credits are owed to it.
Pending(a) ==
    /\ needs[a] = before[a]
    /\ DOMAIN owed[a] = {c.need : c \in {d \in credits : d.agent = a}}
    /\ \A need \in DOMAIN owed[a] : owed[a][need] = Total(a, need)

Advanced(a) ==
    /\ owed[a] = <<>>
    /\ tick \notin config.asleep[a] => Felt(a)
    /\ tick \in config.asleep[a] /\ Satisfier \in plugins => Rested(a)

Whose(a) ==
    IF a \notin crew THEN owed[a] = <<>> /\ needs[a] = before[a]
    ELSE IF a \in toFeel THEN Pending(a) ELSE Advanced(a)

FeelingInv ==
    /\ \A a \in Folk : tick = 0 \/ a \notin DOMAIN needs => owed[a] = <<>>
    /\ tick > 0 => \A a \in DOMAIN needs :
          SoundNeeds(before[a]) /\ DOMAIN before[a] = DOMAIN needs[a] /\ Whose(a)

NeedsInv == NeedTypes /\ HourInv /\ CreditsInv /\ FeelingInv /\ LoopIsClosed

-----------------------------------------------------------------------------
(***************************************************************************)
(* Sums and bounds.                                                         *)
(***************************************************************************)
\* The units that a sum counts.
Units(dues) == UNION {{d} \X (1..d.amount) : d \in dues}
Creditable(dues) == IsFiniteSet(dues) /\ \A d \in dues : d.amount \in Nat

LEMMA WorthIsANumber ==
    ASSUME NEW S, Creditable(S)
    PROVE  IsFiniteSet(Units(S)) /\ Worth(S) \in Nat
<1>. DEFINE T == {{d} \X (1..d.amount) : d \in S}
            f == [d \in S |-> {d} \X (1..d.amount)]
<1>1. f \in Surjection(S, T)
  <2>1. f \in [S -> T] /\ \A t \in T : \E d \in S : f[d] = t
      OBVIOUS
  <2>. HIDE DEF f, T
  <2>. QED
      BY <2>1 DEF Surjection
<1>2. IsFiniteSet(T)
  <2>. HIDE DEF f, T
  <2>. QED
      BY <1>1, FS_Surjection DEF Creditable
<1>3. ASSUME NEW d \in S PROVE IsFiniteSet({d} \X (1..d.amount))
  <2>1. IsFiniteSet({d})
      BY FS_Singleton
  <2>2. d.amount \in Int
      BY DEF Creditable
  <2>3. IsFiniteSet(1..d.amount)
      BY <2>2, FS_Interval
  <2>. QED
      BY <2>1, <2>3, FS_Product
<1>4. \A t \in T : IsFiniteSet(t)
    BY <1>3
<1>5. IsFiniteSet(UNION T)
  <2>. HIDE DEF T
  <2>. QED
      BY <1>2, <1>4, FS_UNION
<1>6. IsFiniteSet(Units(S))
    BY <1>5 DEF Units
<1>7. Cardinality(Units(S)) \in Nat
    BY <1>6, FS_CardinalityType
<1>. QED
    BY <1>6, <1>7 DEF Worth, Units

LEMMA WorthOfNone == Worth({}) = 0
<1>1. UNION {{d} \X (1..d.amount) : d \in {}} = {}
    OBVIOUS
<1>. QED
    BY <1>1, FS_EmptySet DEF Worth

LEMMA WorthsAdd ==
    ASSUME NEW S, NEW T, Creditable(S), Creditable(T), S \cap T = {}
    PROVE  Worth(S \cup T) = Worth(S) + Worth(T)
<1>1. Units(S \cup T) = Units(S) \cup Units(T)
    BY DEF Units
<1>2. Units(S) \cap Units(T) = {}
  <2>1. ASSUME NEW u \in Units(S) PROVE u[1] \in S
      BY DEF Units
  <2>2. ASSUME NEW u \in Units(T) PROVE u[1] \in T
      BY DEF Units
  <2>. QED
      BY <2>1, <2>2
<1>3. IsFiniteSet(Units(S)) /\ IsFiniteSet(Units(T))
    BY WorthIsANumber
<1>4. Cardinality(Units(S) \cap Units(T)) = 0
    BY <1>2, FS_EmptySet
<1>5. PICK k, l : k = Cardinality(Units(S)) /\ l = Cardinality(Units(T))
    OBVIOUS
<1>6. k \in Nat /\ l \in Nat
    BY <1>3, <1>5, FS_CardinalityType
<1>7. Cardinality(Units(S) \cup Units(T)) = k + l - 0
    BY <1>3, <1>4, <1>5, FS_Union
<1>8. Worth(S) = k /\ Worth(T) = l /\ Worth(S \cup T) = Cardinality(Units(S \cup T))
    BY <1>5 DEF Worth, Units
<1>9. k + l - 0 = k + l
    BY <1>6
<1>. QED
    BY <1>1, <1>7, <1>8, <1>9

LEMMA PartIsCreditable ==
    ASSUME NEW S, Creditable(S), NEW a, NEW need
    PROVE  Creditable(For(a, need, S))
<1>1. For(a, need, S) \in SUBSET S
    BY DEF For
<1>2. IsFiniteSet(For(a, need, S))
    BY <1>1, FS_Subset DEF Creditable
<1>. QED
    BY <1>1, <1>2 DEF Creditable

LEMMA AboveZero ==
    ASSUME NEW v \in Int
    PROVE  Max({0, v}) = IF v < 0 THEN 0 ELSE v
<1>1. \E m \in {0, v} : \A n \in {0, v} : m >= n
    OBVIOUS
<1>2. Max({0, v}) \in {0, v} /\ \A n \in {0, v} : Max({0, v}) >= n
    BY <1>1 DEF Max
<1>. QED
    BY <1>2

LEMMA ClampIs ==
    ASSUME NEW v \in Int
    PROVE  Clamp(v) = IF v < 0 THEN 0 ELSE IF v > 1000 THEN 1000 ELSE v
<1>1. \A x \in Int : Min({x, v}) = IF x < v THEN x ELSE v
    BY TwoNumbers
<1>2. PICK w : w = Min({1000, v})
    OBVIOUS
<1>3. w = IF 1000 < v THEN 1000 ELSE v
  <2>1. PICK k \in Int : k = 1000
      OBVIOUS
  <2>2. Min({k, v}) = IF k < v THEN k ELSE v
      BY <1>1
  <2>3. w = Min({k, v})
      BY <1>2, <2>1
  <2>. QED
      BY <2>1, <2>2, <2>3
<1>4. w \in Int
    BY <1>3
<1>5. Max({0, w}) = IF w < 0 THEN 0 ELSE w
    BY <1>4, AboveZero
<1>6. Clamp(v) = Max({0, w})
    BY <1>2 DEF Clamp
<1>. QED
    BY <1>3, <1>5, <1>6

-----------------------------------------------------------------------------
(***************************************************************************)
(* What an action deserves.                                                 *)
(***************************************************************************)
\* A rule gives one credit, or none, for the action at hand.
GivenTo(a, dues) ==
    /\ IsFiniteSet(dues)
    /\ \A d \in dues : d.agent = a /\ d.of = Len(actions) /\ d.amount \in Nat

LEMMA OneCredit ==
    ASSUME NEW why, NEW a, NEW need, NEW amount \in Nat, NEW given \in BOOLEAN
    PROVE  GivenTo(a, IF given THEN Credit(why, a, need, amount) ELSE {})
<1>1. PICK d : d = [why |-> why, of |-> Len(actions), agent |-> a, need |-> need, amount |-> amount]
    OBVIOUS
<1>2. Credit(why, a, need, amount) = {d} /\ IsFiniteSet({d})
    BY <1>1, FS_Singleton DEF Credit
<1>3. d.agent = a /\ d.of = Len(actions) /\ d.amount = amount
    BY <1>1
<1>4. GivenTo(a, {d}) /\ GivenTo(a, {})
    BY <1>2, <1>3, FS_EmptySet DEF GivenTo
<1>. QED
    BY <1>2, <1>4

LEMMA GivenBoth ==
    ASSUME NEW a, NEW S, NEW T, GivenTo(a, S), GivenTo(a, T)
    PROVE  GivenTo(a, S \cup T)
    BY FS_Union DEF GivenTo

LEMMA SatisfiesGives ==
    ASSUME NEW m, NEW a, m.restored \in Nat
    PROVE  GivenTo(a, Satisfies(m, a))
<1>1. ASSUME NEW S1, NEW S2, NEW S3, NEW S4, NEW S5, GivenTo(a, S1), GivenTo(a, S2), GivenTo(a, S3),
             GivenTo(a, S4), GivenTo(a, S5)
      PROVE  GivenTo(a, UNION {S1, S2, S3, S4, S5})
  <2>1. UNION {S1, S2, S3, S4, S5} = S1 \cup (S2 \cup (S3 \cup (S4 \cup S5)))
      OBVIOUS
  <2>2. GivenTo(a, S4 \cup S5)
      BY <1>1, GivenBoth
  <2>3. GivenTo(a, S3 \cup (S4 \cup S5))
      BY <1>1, <2>2, GivenBoth
  <2>4. GivenTo(a, S2 \cup (S3 \cup (S4 \cup S5)))
      BY <1>1, <2>3, GivenBoth
  <2>5. GivenTo(a, S1 \cup (S2 \cup (S3 \cup (S4 \cup S5))))
      BY <1>1, <2>4, GivenBoth
  <2>. QED
      BY <2>1, <2>5
<1>2. GivenTo(a, DefaultRules(m, a))
  <2>. DEFINE S1 == IF m.type = "interact" /\ "eat" \in m.words
                    THEN Credit("eat", a, "hunger", 30) ELSE {}
              S2 == IF m.type = "interact" /\ "drink" \in m.words
                    THEN Credit("drink", a, "thirst", 30) ELSE {}
              S3 == IF m.type = "interact" /\ "rest" \in m.words
                    THEN Credit("rest-explicit", a, "fatigue", 30) ELSE {}
              S4 == IF m.type \in {"finish", "observe"} /\ energy[a] < 30
                    THEN Credit("rest-low-energy", a, "fatigue", 20) ELSE {}
              S5 == IF m.type = "speak" /\ m.participants >= 2
                    THEN Credit("social-talk", a, "social", 10) ELSE {}
  <2>1. GivenTo(a, S1)
      BY OneCredit
  <2>2. GivenTo(a, S2)
      BY OneCredit
  <2>3. GivenTo(a, S3)
      BY OneCredit
  <2>4. GivenTo(a, S4)
      BY OneCredit
  <2>5. GivenTo(a, S5)
      BY OneCredit
  <2>6. DefaultRules(m, a) = UNION {S1, S2, S3, S4, S5}
      BY DEF DefaultRules
  <2>. HIDE DEF S1, S2, S3, S4, S5
  <2>. QED
      BY <1>1, <2>1, <2>2, <2>3, <2>4, <2>5, <2>6
<1>3. GivenTo(a, StructuredRules(m, a))
  <2>. DEFINE S1 == IF m.type = "interact" /\ m.verb \in DOMAIN Affordance
                    THEN Credit("affordance-verb", a, Affordance[m.verb].need,
                                Affordance[m.verb].amount)
                    ELSE {}
              S2 == IF m.restored > 0
                    THEN Credit("tool-energy-restored", a, "fatigue", Min({40, m.restored})) ELSE {}
              S3 == IF m.harvest THEN Credit("tool-harvest-food", a, "hunger", 25) ELSE {}
              S4 == IF m.company THEN Credit("tool-social-effect", a, "social", 15) ELSE {}
  <2>1. GivenTo(a, S1)
    <3>1. CASE m.type = "interact" /\ m.verb \in DOMAIN Affordance
      <4>1. Affordance[m.verb].amount \in Nat
          BY <3>1 DEF Affordance
      <4>2. GivenTo(a, IF TRUE THEN Credit("affordance-verb", a, Affordance[m.verb].need,
                                           Affordance[m.verb].amount) ELSE {})
          BY <4>1, OneCredit
      <4>. QED
          BY <3>1, <4>2
    <3>2. CASE ~(m.type = "interact" /\ m.verb \in DOMAIN Affordance)
      <4>1. GivenTo(a, {})
          BY FS_EmptySet DEF GivenTo
      <4>. QED
          BY <3>2, <4>1
    <3>. QED
        BY <3>1, <3>2
  <2>2. GivenTo(a, S2)
    <3>1. PICK r \in Int, k \in Int : r = m.restored /\ k = 40 /\ r >= 0
        OBVIOUS
    <3>2. Min({k, r}) = IF k < r THEN k ELSE r
        BY TwoNumbers
    <3>3. Min({40, m.restored}) = Min({k, r})
        BY <3>1
    <3>5. Min({40, m.restored}) \in Nat
        BY <3>1, <3>2, <3>3
    <3>. QED
        BY <3>5, OneCredit
  <2>3. GivenTo(a, S3)
      BY OneCredit
  <2>4. GivenTo(a, S4)
      BY OneCredit
  <2>5. GivenTo(a, {})
      BY FS_EmptySet DEF GivenTo
  <2>6. StructuredRules(m, a) = UNION {S1, S2, S3, S4, {}}
      BY DEF StructuredRules
  <2>. HIDE DEF S1, S2, S3, S4
  <2>. QED
      BY <1>1, <2>1, <2>2, <2>3, <2>4, <2>5, <2>6
<1>. QED
    BY <1>2, <1>3, GivenBoth DEF Satisfies

-----------------------------------------------------------------------------
(***************************************************************************)
(* The world starts.                                                        *)
(***************************************************************************)
LEMMA NeedsStart == NeedsInit => NeedsInv
<1>. SUFFICES ASSUME NeedsInit PROVE NeedsInv
    OBVIOUS
<1>1. NeedTypes
  <2>1. actions \in Seq(Deeds) /\ done \in [Folk -> Seq(config.moves)]
      BY DEF NeedsInit
  <2>. QED
      BY <2>1 DEF NeedsInit, NeedTypes, Moments
<1>2. HourInv
    BY DEF NeedsInit, HourInv
<1>3. CreditsInv
    BY FS_EmptySet DEF NeedsInit, CreditsInv
<1>4. FeelingInv
    BY DEF NeedsInit, FeelingInv
<1>5. LoopIsClosed
    BY DEF NeedsInit, LoopIsClosed
<1>. QED
    BY <1>1, <1>2, <1>3, <1>4, <1>5 DEF NeedsInv

\* The needs that a world begins with.
LEMMA InitialIs ==
    ASSUME config \in Settings
    PROVE  /\ DOMAIN Initial \subseteq Folk /\ (~config.perception => DOMAIN Initial = {})
           /\ \A a \in DOMAIN Initial : SoundNeeds(Initial[a])
<1>1. ASSUME NEW name PROVE SoundNeeds(Template(name))
  <2>2. \A s, t, u, v : SoundNeed(s) /\ SoundNeed(t) /\ SoundNeed(u) /\ SoundNeed(v) =>
            SoundNeeds(<<s, t, u, v>>)
      BY DEF SoundNeeds
  <2>3. SoundNeeds(<<>>)
      BY DEF SoundNeeds
  <2>4. /\ SoundNeed(Need("hunger", 200, 10)) /\ SoundNeed(Need("thirst", 200, 12))
        /\ SoundNeed(Need("fatigue", 0, 8)) /\ SoundNeed(Need("social", 300, 5))
        /\ SoundNeed(Need("hunger", 300, 15)) /\ SoundNeed(Need("thirst", 200, 13))
        /\ SoundNeed(Need("fear", 0, 5)) /\ SoundNeed(Need("territory", 0, 4))
      BY DEF Need, SoundNeed
  <2>5. /\ SoundNeeds(<<Need("hunger", 200, 10), Need("thirst", 200, 12), Need("fatigue", 0, 8),
                        Need("social", 300, 5)>>)
        /\ SoundNeeds(<<Need("hunger", 300, 15), Need("thirst", 200, 13), Need("fear", 0, 5),
                        Need("territory", 0, 4)>>)
      BY <2>2, <2>4
  <2>. QED
      BY <2>3, <2>5 DEF Template
<1>2. \A a \in Folk : SoundNeeds(config.own[a])
    BY SettingsAreSound
<1>3. PICK t : t = Template(config.template)
    OBVIOUS
<1>4. SoundNeeds(t)
    BY <1>1, <1>3
<1>5. Initial = IF ~config.perception THEN <<>>
                ELSE [a \in {b \in Folk : config.own[b] # <<>> \/ config.template # Unknown} |->
                         IF config.own[a] # <<>> THEN config.own[a] ELSE t]
    BY <1>3 DEF Initial
<1>6. CASE ~config.perception
    BY <1>5, <1>6
<1>7. CASE config.perception
    BY <1>2, <1>4, <1>5, <1>7
<1>. QED
    BY <1>6, <1>7

LEMMA BootstrapStep ==
    ASSUME NeedsInv, Bootstrap
    PROVE  NeedsInv'
<1>1. /\ NeedTypes /\ HourInv /\ CreditsInv /\ FeelingInv
      /\ stage = "configured" /\ tick = 0 /\ needs \in {needs} /\ DOMAIN needs = {}
      /\ UNCHANGED <<config, tick, owed, energy, active, done, actions, toFeel, crew, before, credits>>
    BY DEF NeedsInv, HourInv, Bootstrap
<1>2. stage' \in {"idle", "failed"} /\ (stage' = "failed" => needs' = needs)
    BY DEF Bootstrap
<1>3. /\ DOMAIN needs' \subseteq Folk /\ (~config.perception => DOMAIN needs' = {})
      /\ \A a \in DOMAIN needs' : SoundNeeds(needs'[a])
  <2>1. needs' = Initial \/ needs' = needs
      BY DEF Bootstrap
  <2>2. config \in Settings
      BY <1>1 DEF NeedTypes
  <2>. QED
      BY <1>1, <2>1, <2>2, InitialIs
<1>4. NeedTypes'
    BY <1>1, <1>2, <1>3 DEF NeedTypes, Moments, Deeds
<1>5. HourInv'
  <2>1. toFeel' = {} \/ ~config'.perception
      BY <1>1 DEF HourInv, NeedTypes
  <2>. QED
      BY <1>1, <1>2, <2>1 DEF HourInv
<1>6. CreditsInv'
    BY <1>1, <1>2 DEF CreditsInv
<1>7. FeelingInv'
    BY <1>1 DEF FeelingInv
<1>8. LoopIsClosed'
  <2>1. config' = config /\ (HasNeeds' <=> HasNeeds)
      BY <1>1 DEF HasNeeds
  <2>2. /\ stage' = "failed" => HasNeeds /\ config.require /\ Satisfier \notin plugins'
        /\ stage' # "failed" => ~(HasNeeds /\ config.require /\ Satisfier \notin plugins')
        /\ config.auto /\ HasNeeds => Satisfier \in plugins'
      BY DEF Bootstrap, Validates, Registered
  <2>. QED
      BY <1>2, <2>1, <2>2 DEF LoopIsClosed
<1>. QED
    BY <1>4, <1>5, <1>6, <1>7, <1>8 DEF NeedsInv

-----------------------------------------------------------------------------
(***************************************************************************)
(* The agents of a tick act.                                                *)
(***************************************************************************)
\* A step that leaves the needs, what is owed and the credits alone.
LEMMA FeelingsStay ==
    ASSUME NeedsInv, stage # "configured", stage' \notin {"configured", "failed"}, stage # "failed",
           UNCHANGED <<config, tick, plugins, needs, owed, toFeel, crew, before, credits>>
    PROVE  FeelingInv' /\ LoopIsClosed'
<1>1. FeelingInv /\ LoopIsClosed
    BY DEF NeedsInv
<1>2. ASSUME NEW a PROVE Whose(a)' <=> Whose(a)
  <2>1. \A need : Total(a, need)' = Total(a, need)
      BY DEF Total, For, Worth
  <2>2. Felt(a)' <=> Felt(a)
      BY <2>1, ZenonT(60) DEF Felt, First
  <2>3. Rested(a)' <=> Rested(a)
      BY DEF Rested
  <2>4. Pending(a)' <=> Pending(a)
      BY <2>1 DEF Pending
  <2>. QED
      BY <2>2, <2>3, <2>4 DEF Whose, Advanced
<1>3. FeelingInv'
    BY <1>1, <1>2 DEF FeelingInv
<1>4. HasNeeds' <=> HasNeeds
    BY DEF HasNeeds
<1>5. LoopIsClosed'
    BY <1>1, <1>4 DEF LoopIsClosed
<1>. QED
    BY <1>3, <1>5

LEMMA OpenStep ==
    ASSUME NeedsInv, Open
    PROVE  NeedsInv'
<1>1. /\ NeedTypes /\ HourInv /\ FeelingInv /\ LoopIsClosed
      /\ stage = "idle" /\ stage' = "acting" /\ tick' = tick + 1
      /\ crew' \in config.crews /\ active' = crew' /\ toFeel' = crew'
      /\ before' = needs /\ credits' = {}
      /\ UNCHANGED <<config, plugins, needs, owed, energy, done, actions>>
    BY DEF NeedsInv, Open
<1>2. config \in Settings /\ tick \in Nat /\ DOMAIN owed = Folk
    BY <1>1 DEF NeedTypes
<1>3. crew' \subseteq Folk
    BY <1>1, <1>2, SettingsAreSound
<1>4. actions = <<>>
    BY <1>1 DEF HourInv
<1>5. NeedTypes'
  <2>1. actions' \in Seq(Deeds')
      BY <1>1, <1>4
  <2>2. DOMAIN needs' \subseteq Folk /\ \A a \in DOMAIN needs' : SoundNeeds(needs'[a])
      BY <1>1 DEF NeedTypes
  <2>. QED
      BY <1>1, <1>2, <1>3, <2>1, <2>2 DEF NeedTypes, Moments
<1>6. HourInv'
    BY <1>1, <1>2 DEF HourInv
<1>7. CreditsInv'
    BY <1>1, FS_EmptySet DEF CreditsInv
<1>8. \A a \in Folk : owed[a] = <<>>
  <2>1. ASSUME NEW a \in DOMAIN needs, tick > 0 PROVE owed[a] = <<>>
    <3>1. a \notin toFeel
        BY <1>1, <2>1 DEF HourInv, NeedTypes
    <3>. QED
        BY <1>1, <2>1, <3>1 DEF FeelingInv, Whose, Advanced
  <2>. QED
      BY <1>1, <1>2, <2>1 DEF FeelingInv
<1>9. FeelingInv'
  <2>1. ASSUME NEW a \in DOMAIN needs PROVE Whose(a)'
    <3>1. needs'[a] = before'[a] /\ owed'[a] = <<>>
        BY <1>1, <1>8, <2>1 DEF NeedTypes
    <3>2. Pending(a)'
      <4>1. DOMAIN owed'[a] = {} /\ {c.need : c \in {d \in credits' : d.agent = a}} = {}
          BY <1>1, <3>1
      <4>. QED
          BY <3>1, <4>1 DEF Pending
    <3>. QED
        BY <1>1, <3>1, <3>2 DEF Whose
  <2>2. \A a \in DOMAIN needs : SoundNeeds(before'[a]) /\ DOMAIN before'[a] = DOMAIN needs'[a]
      BY <1>1 DEF NeedTypes
  <2>3. \A a \in Folk : a \notin DOMAIN needs' => owed'[a] = <<>>
      BY <1>1, <1>8
  <2>. QED
      BY <1>1, <1>2, <2>1, <2>2, <2>3 DEF FeelingInv
<1>10. LoopIsClosed'
  <2>1. HasNeeds' <=> HasNeeds
      BY <1>1 DEF HasNeeds
  <2>. QED
      BY <1>1, <2>1 DEF LoopIsClosed
<1>. QED
    BY <1>5, <1>6, <1>7, <1>9, <1>10 DEF NeedsInv

\* What an agent does in its own tick is seen later.
LEMMA OwnTickStep ==
    ASSUME NeedsInv, NEW a \in Folk, Act(a) \/ Rest(a) \/ HandOver(a) \/ OwnTickFails(a)
    PROVE  NeedsInv'
<1>1. /\ NeedTypes /\ HourInv /\ CreditsInv
      /\ stage = "acting" /\ a \in active
      /\ UNCHANGED <<config, tick, stage, plugins, needs, owed, toFeel, crew, before, credits>>
    BY DEF NeedsInv, Act, Rest, HandOver, OwnTickFails, Acting
<1>2. a \in crew /\ active \subseteq crew /\ done \in [Folk -> Seq(config.moves)] /\ actions \in Seq(Deeds)
    BY <1>1 DEF NeedTypes
<1>3. active' \subseteq crew
    BY <1>2 DEF Act, Rest, HandOver, OwnTickFails
<1>4. done' \in [Folk -> Seq(config.moves)]
  <2>1. PICK W : W = Seq(config.moves)
      OBVIOUS
  <2>2. \/ done' = done
        \/ \E w \in W : done' = [done EXCEPT ![a] = w]
    <3>1. CASE Act(a)
      <4>1. PICK m \in config.moves : done' = [done EXCEPT ![a] = Append(done[a], m)]
          BY <3>1 DEF Act
      <4>2. PICK w : w = Append(done[a], m)
          OBVIOUS
      <4>3. w \in W
          BY <1>2, <2>1, <4>2
      <4>. QED
          BY <4>1, <4>2, <4>3
    <3>2. CASE Rest(a)
        BY <3>2 DEF Rest
    <3>3. CASE HandOver(a) \/ OwnTickFails(a)
      <4>1. <<>> \in W
          BY <2>1
      <4>. QED
          BY <3>3, <4>1 DEF HandOver, OwnTickFails
    <3>. QED
        BY <3>1, <3>2, <3>3
  <2>3. done \in [Folk -> W]
      BY <1>2, <2>1
  <2>4. done' \in [Folk -> W]
      BY <2>2, <2>3
  <2>. QED
      BY <2>1, <2>4
<1>5. actions' \in Seq(Deeds)
  <2>1. CASE Act(a) \/ OwnTickFails(a)
      BY <1>2, <2>1 DEF Act, OwnTickFails
  <2>2. CASE Rest(a)
    <3>1. [agent |-> a, move |-> Resting] \in Deeds
        BY <1>2 DEF Deeds
    <3>. QED
        BY <1>2, <2>2, <3>1 DEF Rest
  <2>3. CASE HandOver(a)
    <3>1. PICK w, M : w = done[a] /\ M = config.moves
        OBVIOUS
    <3>2. w \in Seq(M)
        BY <1>2, <3>1
    <3>3. \A i \in DOMAIN w : [agent |-> a, move |-> w[i]] \in Deeds
        BY <1>2, <3>1, <3>2 DEF Deeds
    <3>4. [i \in DOMAIN w |-> [agent |-> a, move |-> w[i]]] \in Seq(Deeds)
        BY <3>2, <3>3
    <3>5. [i \in DOMAIN done[a] |-> [agent |-> a, move |-> done[a][i]]] \in Seq(Deeds)
        BY <3>1, <3>4
    <3>6. PICK t \in Seq(Deeds) : actions' = actions \o t
        BY <2>3, <3>5 DEF HandOver
    <3>. QED
        BY <1>2, <3>6
  <2>. QED
      BY <2>1, <2>2, <2>3
<1>6. Deeds' = Deeds
    BY <1>1 DEF Deeds
<1>7. NeedTypes'
    BY <1>1, <1>3, <1>4, <1>5, <1>6 DEF NeedTypes
<1>8. HourInv' /\ CreditsInv'
    BY <1>1 DEF HourInv, CreditsInv
<1>9. FeelingInv' /\ LoopIsClosed'
    BY <1>1, FeelingsStay
<1>. QED
    BY <1>7, <1>8, <1>9 DEF NeedsInv

LEMMA StageStep ==
    ASSUME NeedsInv, Settle \/ BeginNeeds \/ Close
    PROVE  NeedsInv'
<1>1. /\ NeedTypes /\ HourInv /\ CreditsInv
      /\ stage \in {"acting", "transforming", "ticking"}
      /\ stage' \in {"transforming", "ticking", "idle"}
      /\ UNCHANGED <<config, tick, plugins, needs, owed, active, done, actions, toFeel, crew, before,
                     credits>>
    BY DEF NeedsInv, Settle, BeginNeeds, Close
<1>2. NeedTypes'
    BY <1>1 DEF NeedTypes, Moments, Deeds
<1>3. HourInv'
    BY <1>1 DEF HourInv, Settle, BeginNeeds, Close
<1>4. CreditsInv'
    BY <1>1 DEF CreditsInv, HourInv, Settle, BeginNeeds, Close
<1>5. FeelingInv' /\ LoopIsClosed'
    BY <1>1, FeelingsStay
<1>. QED
    BY <1>2, <1>3, <1>4, <1>5 DEF NeedsInv

-----------------------------------------------------------------------------
(***************************************************************************)
(* The plugins see an action.                                               *)
(***************************************************************************)
LEMMA OwedIsTotal ==
    ASSUME NEW a, Pending(a), NEW need
    PROVE  Owed(a, need) = Total(a, need)
<1>1. CASE need \in DOMAIN owed[a]
    BY <1>1 DEF Owed, Pending
<1>2. CASE need \notin DOMAIN owed[a]
  <2>1. For(a, need, credits) = {}
      BY <1>2 DEF For, Pending
  <2>. QED
      BY <1>2, <2>1, WorthOfNone DEF Owed, Total
<1>. QED
    BY <1>1, <1>2

LEMMA TransformStep ==
    ASSUME NeedsInv, Transform
    PROVE  NeedsInv'
<1>1. /\ NeedTypes /\ HourInv /\ CreditsInv /\ FeelingInv /\ LoopIsClosed
      /\ stage = "transforming" /\ actions # <<>> /\ actions' = Tail(actions)
      /\ UNCHANGED <<config, tick, stage, plugins, needs, energy, active, done, toFeel, crew, before>>
    BY DEF NeedsInv, Transform
<1>2. PICK b, m : b = Head(actions).agent /\ m = Head(actions).move
    OBVIOUS
<1>3. PICK dues : dues = Satisfies(m, b)
    OBVIOUS
<1>4. toFeel = crew /\ tick > 0 /\ Creditable(credits) /\ b \in crew /\ b \in Folk /\ GivenTo(b, dues)
  <2>1. Head(actions) \in Deeds
      BY <1>1 DEF NeedTypes
  <2>2. b \in crew /\ m \in config.moves \cup {Resting}
      BY <1>2, <2>1 DEF Deeds
  <2>3. m.restored \in Nat
    <3>1. config \in Settings
        BY <1>1 DEF NeedTypes
    <3>2. Resting.restored = 0
        BY DEF Resting
    <3>3. \A x \in config.moves : x.restored \in Nat
        BY <3>1, SettingsAreSound
    <3>. QED
        BY <2>2, <3>2, <3>3
  <2>4. GivenTo(b, dues)
      BY <1>3, <2>3, SatisfiesGives
  <2>. QED
      BY <1>1, <2>2, <2>4 DEF HourInv, CreditsInv, Creditable, NeedTypes
<1>5. \/ owed' = owed /\ credits' = credits
      \/ b \in DOMAIN needs /\ owed' = Schedule(b, dues) /\ credits' = credits \cup dues
    BY <1>2, <1>3 DEF Transform
<1>6. NeedTypes'
  <2>1. Deeds' = Deeds
      BY <1>1 DEF Deeds
  <2>2. DOMAIN owed' = DOMAIN owed
      BY <1>5 DEF Schedule
  <2>3. Tail(actions) \in Seq(Deeds)
      BY <1>1 DEF NeedTypes
  <2>. QED
      BY <1>1, <2>1, <2>2, <2>3 DEF NeedTypes
<1>7. HourInv'
    BY <1>1 DEF HourInv
<1>8. CreditsInv'
  <2>1. Len(Tail(actions)) = Len(actions) - 1 /\ Len(actions) \in Nat
      BY <1>1 DEF NeedTypes
  <2>2. IsFiniteSet(credits')
      BY <1>4, <1>5, FS_Union DEF GivenTo, Creditable
  <2>3. ASSUME NEW c \in credits' PROVE c.amount \in Nat /\ c.of \in Nat /\ c.of > Len(actions')
    <3>1. CASE c \in credits
      <4>1. c.of > Len(actions) /\ c.of \in Nat
          BY <1>1, <3>1 DEF CreditsInv
      <4>. QED
          BY <1>1, <1>4, <2>1, <3>1, <4>1 DEF Creditable
    <3>2. CASE c \in dues
        BY <1>1, <1>4, <2>1, <3>2 DEF GivenTo
    <3>. QED
        BY <1>5, <3>1, <3>2
  <2>. QED
      BY <2>2, <2>3 DEF CreditsInv
<1>9. ASSUME NEW a \in Folk, a # b PROVE owed'[a] = owed[a] /\ (Pending(a)' <=> Pending(a))
  <2>1. owed'[a] = owed[a]
      BY <1>1, <1>5, <1>9 DEF Schedule, NeedTypes
  <2>2. \A need : For(a, need, credits') = For(a, need, credits)
      BY <1>4, <1>5, <1>9 DEF For, GivenTo
  <2>3. {d \in credits' : d.agent = a} = {d \in credits : d.agent = a}
      BY <1>4, <1>5, <1>9 DEF GivenTo
  <2>4. \A need : Total(a, need)' = Total(a, need)
      BY <2>2 DEF Total
  <2>. QED
      BY <1>1, <2>1, <2>3, <2>4 DEF Pending
<1>10. ASSUME Pending(b), credits' = credits \cup dues, owed' = Schedule(b, dues) PROVE Pending(b)'
  <2>1. PICK D : D = DOMAIN owed[b] \cup {d.need : d \in dues}
      OBVIOUS
  <2>2. owed'[b] = [need \in D |-> Owed(b, need) + Worth(For(b, need, dues))]
      BY <1>1, <1>4, <1>10, <2>1 DEF Schedule, NeedTypes
  <2>3. {c.need : c \in {d \in credits' : d.agent = b}} = D
      BY <1>4, <1>10, <2>1 DEF Pending, GivenTo
  <2>4. ASSUME NEW need PROVE Total(b, need)' = Total(b, need) + Worth(For(b, need, dues))
    <3>1. PICK S, T : S = For(b, need, credits) /\ T = For(b, need, dues)
        OBVIOUS
    <3>2. Creditable(dues)
        BY <1>4 DEF GivenTo, Creditable
    <3>3. Creditable(S) /\ Creditable(T)
        BY <1>4, <3>1, <3>2, PartIsCreditable
    <3>4. S \cap T = {}
      <4>1. \A c \in credits : c.of > Len(actions) /\ c.of \in Nat
          BY <1>1 DEF CreditsInv
      <4>2. Len(actions) \in Nat
          BY <1>1 DEF NeedTypes
      <4>3. \A c \in S : c \in credits
          BY <3>1 DEF For
      <4>4. \A c \in T : c.of = Len(actions)
          BY <1>4, <3>1 DEF For, GivenTo
      <4>. QED
          BY <4>1, <4>2, <4>3, <4>4
    <3>5. For(b, need, credits') = S \cup T
        BY <1>10, <3>1 DEF For
    <3>6. Worth(S \cup T) = Worth(S) + Worth(T)
        BY <3>3, <3>4, WorthsAdd
    <3>7. Total(b, need)' = Worth(S \cup T)
        BY <3>5 DEF Total
    <3>. QED
        BY <3>1, <3>6, <3>7 DEF Total
  <2>5. \A need \in DOMAIN owed'[b] : owed'[b][need] = Total(b, need)'
      BY <1>10, <2>2, <2>4, OwedIsTotal
  <2>6. DOMAIN owed'[b] = D
      BY <2>2
  <2>. QED
      BY <1>1, <1>10, <2>3, <2>5, <2>6 DEF Pending
<1>11. Pending(b) => Pending(b)'
  <2>1. CASE owed' = owed /\ credits' = credits
    <3>1. \A need : Total(b, need)' = Total(b, need)
        BY <2>1 DEF Total
    <3>. QED
        BY <1>1, <2>1, <3>1 DEF Pending
  <2>. QED
      BY <1>5, <1>10, <2>1
<1>12. FeelingInv'
  <2>1. ASSUME NEW a \in DOMAIN needs PROVE Whose(a)'
    <3>1. Whose(a) /\ a \in Folk
        BY <1>1, <1>4 DEF FeelingInv, NeedTypes
    <3>2. CASE a \in crew
      <4>1. Pending(a)
          BY <1>4, <3>1, <3>2 DEF Whose
      <4>2. Pending(a)'
          BY <1>9, <1>11, <3>1, <4>1
      <4>. QED
          BY <1>1, <1>4, <3>2, <4>2 DEF Whose
    <3>3. CASE a \notin crew
      <4>1. a # b
          BY <1>4, <3>3
      <4>2. owed'[a] = owed[a]
          BY <1>9, <3>1, <4>1
      <4>. QED
          BY <1>1, <3>1, <3>3, <4>2 DEF Whose
    <3>. QED
        BY <3>2, <3>3
  <2>2. ASSUME NEW a \in Folk, a \notin DOMAIN needs PROVE owed'[a] = <<>>
    <3>1. owed'[a] = owed[a]
        BY <1>5, <1>9, <2>2
    <3>. QED
        BY <1>1, <2>2, <3>1 DEF FeelingInv
  <2>3. \A a \in DOMAIN needs : SoundNeeds(before[a]) /\ DOMAIN before[a] = DOMAIN needs[a]
      BY <1>1, <1>4 DEF FeelingInv
  <2>. QED
      BY <1>1, <1>4, <2>1, <2>2, <2>3 DEF FeelingInv, NeedTypes
<1>13. LoopIsClosed'
  <2>1. HasNeeds' <=> HasNeeds
      BY <1>1 DEF HasNeeds
  <2>. QED
      BY <1>1, <2>1 DEF LoopIsClosed
<1>. QED
    BY <1>6, <1>7, <1>8, <1>12, <1>13 DEF NeedsInv

-----------------------------------------------------------------------------
(***************************************************************************)
(* The needs of an agent advance.                                           *)
(***************************************************************************)
\* What a need becomes, and what else of it stays.
Became(m, n, v) ==
    SoundNeed(m) /\ m.value = v /\ m.id = n.id /\ m.decay = n.decay /\ m.regen = n.regen

LEMMA NeedBecomes ==
    ASSUME NEW n, SoundNeed(n), NEW v \in 0..1000
    PROVE  Became([n EXCEPT !.value = v], n, v)
<1>1. [n EXCEPT !.value = v] = [id |-> n.id, value |-> v, decay |-> n.decay, regen |-> n.regen,
                                activation |-> n.activation, critical |-> n.critical]
    BY DEF SoundNeed
<1>. QED
    BY <1>1 DEF Became, SoundNeed

LEMMA AdvanceIs ==
    ASSUME NEW a, Pending(a), Creditable(credits), SoundNeeds(needs[a]), NEW i \in DOMAIN needs[a]
    PROVE  Became(Advance(i, a), needs[a][i],
                  After(needs[a][i], First(i, needs[a]), Total(a, needs[a][i].id)))
<1>1. PICK n, t : n = needs[a][i] /\ t = Total(a, n.id)
    OBVIOUS
<1>2. PICK first : first \in {0, 1} /\ (first = 1 <=> First(i, needs[a]))
  <2>1. CASE First(i, needs[a])
    <3>. WITNESS 1
    <3>. QED
        BY <2>1
  <2>2. CASE ~First(i, needs[a])
    <3>. WITNESS 0
    <3>. QED
        BY <2>2
  <2>. QED
      BY <2>1, <2>2
<1>3. SoundNeed(n) /\ n.value \in 0..1000 /\ n.decay \in Int /\ n.regen \in Nat /\ t \in Nat
  <2>1. SoundNeed(n)
      BY <1>1 DEF SoundNeeds
  <2>2. Creditable(For(a, n.id, credits))
      BY PartIsCreditable
  <2>3. t \in Nat
      BY <1>1, <2>2, WorthIsANumber DEF Total
  <2>. QED
      BY <2>1, <2>3 DEF SoundNeed
<1>4. PICK lower : lower = n.value - 10 * t
    OBVIOUS
<1>5. lower \in Int /\ lower <= 1000 /\ lower <= n.value
    BY <1>3, <1>4, SMTT(30)
<1>6. Clamp(lower) = Max({0, lower}) /\ Max({0, lower}) \in 0..1000
  <2>1. Clamp(lower) = IF lower < 0 THEN 0 ELSE IF lower > 1000 THEN 1000 ELSE lower
      BY <1>5, ClampIs
  <2>2. Max({0, lower}) = IF lower < 0 THEN 0 ELSE lower
      BY <1>5, AboveZero
  <2>. QED
      BY <1>5, <2>1, <2>2
<1>7. PICK paid : paid = IF first = 1 THEN Max({0, lower}) ELSE n.value
    OBVIOUS
<1>8. paid \in 0..1000
    BY <1>3, <1>6, <1>7
<1>9. PICK v : v = Clamp(paid + n.decay - n.regen)
    OBVIOUS
<1>10. v \in 0..1000
  <2>1. paid + n.decay - n.regen \in Int
      BY <1>3, <1>8
  <2>. QED
      BY <1>9, <2>1, ClampIs
<1>11. Advance(i, a) = [n EXCEPT !.value = v]
  <2>1. Owed(a, n.id) = t
      BY <1>1, OwedIsTotal
  <2>. QED
      BY <1>1, <1>2, <1>4, <1>6, <1>7, <1>9, <2>1, ZenonT(60) DEF Advance
<1>12. After(n, First(i, needs[a]), t) = v
    BY <1>2, <1>4, <1>7, <1>9 DEF After
<1>13. Became([n EXCEPT !.value = v], n, v)
    BY <1>3, <1>10, NeedBecomes, ZenonT(60)
<1>. QED
    BY <1>1, <1>11, <1>12, <1>13

\* Sleep gives back more than the decay takes twice.
LEMMA SleepIsStronger ==
    ASSUME NEW value, NEW met, NEW decay, NEW regen, value \in 0..1000, met \in 0..1000, met <= value,
           decay \in Int, decay < 10, regen \in Nat
    PROVE  Clamp(Clamp(met + decay - regen) + decay - (regen + 20)) <= value
<1>1. PICK x : x = met + decay - regen /\ x \in Int
    OBVIOUS
<1>2. PICK y : y = Clamp(x)
    OBVIOUS
<1>3. y = IF x < 0 THEN 0 ELSE IF x > 1000 THEN 1000 ELSE x
    BY <1>1, <1>2, ClampIs
<1>4. PICK z : z = y + decay - (regen + 20) /\ z \in Int
    BY <1>1, <1>3
<1>5. Clamp(z) = IF z < 0 THEN 0 ELSE IF z > 1000 THEN 1000 ELSE z
    BY <1>4, ClampIs
<1>6. Clamp(z) <= value
    BY <1>1, <1>3, <1>4, <1>5
<1>. QED
    BY <1>1, <1>2, <1>4, <1>6

LEMMA RecoverIs ==
    ASSUME NEW n, SoundNeed(n)
    PROVE  /\ SoundNeed(Recover(n)) /\ Recover(n).id = n.id /\ Recover(n).decay = n.decay
           /\ n.id = "fatigue" => Recover(n).value = Clamp(n.value + n.decay - (n.regen + 20))
<1>1. PICK v : v = Clamp(n.value + n.decay - (n.regen + 20))
    OBVIOUS
<1>2. v \in 0..1000
  <2>1. n.value + n.decay - (n.regen + 20) \in Int
      BY DEF SoundNeed
  <2>. QED
      BY <1>1, <2>1, ClampIs
<1>3. CASE n.id # "fatigue"
    BY <1>3 DEF Recover
<1>4. CASE n.id = "fatigue"
  <2>1. Recover(n) = [n EXCEPT !.regen = n.regen + 20, !.value = v]
      BY <1>1, <1>4 DEF Recover
  <2>2. Recover(n) = [id |-> n.id, value |-> v, decay |-> n.decay, regen |-> n.regen + 20,
                      activation |-> n.activation, critical |-> n.critical]
      BY <2>1 DEF SoundNeed
  <2>. QED
      BY <1>1, <1>2, <1>4, <2>2, SMTT(30) DEF SoundNeed
<1>. QED
    BY <1>3, <1>4

\* The needs of an agent that advance, in sleep or awake.
LEMMA NeedsAdvance ==
    ASSUME NeedsInv, NEW a \in DOMAIN needs, NeedsTick(a)
    PROVE  SoundNeeds(needs'[a]) /\ DOMAIN needs'[a] = DOMAIN needs[a] /\ Advanced(a)'
<1>1. /\ NeedTypes /\ HourInv /\ CreditsInv /\ FeelingInv /\ stage = "ticking" /\ a \in toFeel
      /\ owed' = Paid(a)
      /\ needs' = [needs EXCEPT ![a] = [i \in DOMAIN needs[a] |->
                      IF Asleep(a) THEN Recover(Advance(i, a)) ELSE Advance(i, a)]]
      /\ UNCHANGED <<config, tick, plugins, before, credits>>
    BY DEF NeedsInv, NeedsTick
<1>2. Pending(a) /\ needs[a] = before[a] /\ SoundNeeds(needs[a]) /\ Creditable(credits)
  <2>1. tick > 0 /\ a \in crew
      BY <1>1 DEF HourInv, NeedTypes
  <2>2. Pending(a)
      BY <1>1, <2>1 DEF FeelingInv, Whose
  <2>. QED
      BY <1>1, <2>2 DEF NeedTypes, CreditsInv, Creditable, Pending
<1>3. PICK N : N = needs[a]
    OBVIOUS
<1>4. PICK M : M = needs'[a]
    OBVIOUS
<1>5. /\ DOMAIN M = DOMAIN N
      /\ \A i \in DOMAIN N : M[i] = IF Asleep(a) THEN Recover(Advance(i, a)) ELSE Advance(i, a)
    BY <1>1, <1>3, <1>4
<1>6. \A i \in DOMAIN N :
          Became(Advance(i, a), N[i], After(N[i], First(i, N), Total(a, N[i].id)))
    BY <1>2, <1>3, AdvanceIs
<1>7. ASSUME NEW i \in DOMAIN N PROVE SoundNeed(M[i])
  <2>1. PICK n : n = Advance(i, a)
      OBVIOUS
  <2>2. SoundNeed(n)
      BY <1>6, <2>1 DEF Became
  <2>3. SoundNeed(Recover(n))
      BY <2>2, RecoverIs
  <2>. QED
      BY <1>5, <2>1, <2>2, <2>3
<1>8. SoundNeeds(M)
    BY <1>5, <1>7 DEF SoundNeeds
<1>9. owed'[a] = <<>>
    BY <1>1 DEF Paid, NeedTypes
<1>10. ASSUME tick \notin config.asleep[a] PROVE Felt(a)'
  <2>1. ~Asleep(a)
      BY <1>10 DEF Asleep
  <2>2. \A i \in DOMAIN N : M[i].value = After(N[i], First(i, N), Total(a, N[i].id))
      BY <1>5, <1>6, <2>1 DEF Became
  <2>3. before'[a] = N /\ needs'[a] = M
      BY <1>1, <1>2, <1>3, <1>4
  <2>4. \A need : Total(a, need)' = Total(a, need)
      BY <1>1 DEF Total
  <2>. QED
      BY <1>5, <2>2, <2>3, <2>4, ZenonT(60) DEF Felt, First
<1>11. ASSUME tick \in config.asleep[a], Satisfier \in plugins PROVE Rested(a)'
  <2>1. Asleep(a)
      BY <1>11 DEF Asleep
  <2>2. ASSUME NEW i \in DOMAIN N, M[i].id = "fatigue", M[i].decay < 10
        PROVE  M[i].value <= N[i].value
    <3>1. PICK n, m, t, v :
              /\ n = N[i] /\ m = Advance(i, a) /\ t = Total(a, n.id)
              /\ v = After(n, First(i, N), t)
        OBVIOUS
    <3>2. SoundNeed(n) /\ SoundNeed(m) /\ m.value = v /\ m.id = n.id /\ m.decay = n.decay /\ m.regen = n.regen
        BY <1>2, <1>3, <1>6, <3>1 DEF Became, SoundNeeds
    <3>3. M[i] = Recover(m)
        BY <1>5, <2>1, <3>1
    <3>4. /\ n.id = "fatigue" /\ n.decay < 10
          /\ M[i].value = Clamp(m.value + m.decay - (m.regen + 20))
      <4>1. Recover(m).id = m.id /\ Recover(m).decay = m.decay
          BY <3>2, RecoverIs
      <4>2. m.id = "fatigue"
          BY <2>2, <3>3, <4>1
      <4>. QED
          BY <2>2, <3>2, <3>3, <4>1, <4>2, RecoverIs
    <3>5. t \in Nat
      <4>1. Creditable(For(a, n.id, credits))
          BY <1>2, PartIsCreditable
      <4>. QED
          BY <3>1, <4>1, WorthIsANumber DEF Total
    <3>6. n.value \in 0..1000 /\ n.decay \in Int /\ n.regen \in Nat
        BY <3>2 DEF SoundNeed
    <3>7. PICK met : met = IF First(i, N) THEN Max({0, n.value - 10 * t}) ELSE n.value
        OBVIOUS
    <3>8. met \in 0..1000 /\ met <= n.value
      <4>1. PICK low, k : low = n.value - 10 * t /\ k = n.value
          OBVIOUS
      <4>2. low \in Int /\ low <= k /\ k \in 0..1000
          BY <3>5, <3>6, <4>1, SMTT(30)
      <4>3. PICK p : p = Max({0, low})
          OBVIOUS
      <4>4. p = IF low < 0 THEN 0 ELSE low
          BY <4>2, <4>3, AboveZero
      <4>5. p \in 0..1000 /\ p <= k
          BY <4>2, <4>4
      <4>6. met = p \/ met = k
          BY <3>7, <4>1, <4>3
      <4>7. met \in 0..1000 /\ met <= k
          BY <4>2, <4>5, <4>6, SMTT(30)
      <4>. QED
          BY <4>1, <4>7
    <3>9. v = Clamp(met + n.decay - n.regen)
        BY <3>1, <3>7 DEF After
    <3>10. Clamp(Clamp(met + n.decay - n.regen) + n.decay - (n.regen + 20)) <= n.value
        BY <3>4, <3>6, <3>8, SleepIsStronger
    <3>. QED
        BY <3>1, <3>2, <3>4, <3>9, <3>10
  <2>3. before'[a] = N /\ needs'[a] = M
      BY <1>1, <1>2, <1>3, <1>4
  <2>. QED
      BY <1>5, <2>2, <2>3 DEF Rested
<1>12. Advanced(a)'
    BY <1>1, <1>9, <1>10, <1>11 DEF Advanced
<1>. QED
    BY <1>3, <1>4, <1>5, <1>8, <1>12

LEMMA NeedsTickStep ==
    ASSUME NeedsInv, NEW a \in Folk, NeedsTick(a)
    PROVE  NeedsInv'
<1>1. /\ NeedTypes /\ HourInv /\ CreditsInv /\ FeelingInv /\ LoopIsClosed
      /\ stage = "ticking" /\ a \in toFeel /\ toFeel' = toFeel \ {a}
      /\ UNCHANGED <<config, tick, stage, plugins, energy, active, done, actions, crew, before, credits>>
    BY DEF NeedsInv, NeedsTick
<1>2. a \in crew /\ tick > 0
    BY <1>1 DEF NeedTypes, HourInv
<1>3. /\ \/ a \notin DOMAIN needs /\ needs' = needs /\ owed' = owed
         \/ a \in DOMAIN needs /\ DOMAIN needs' = DOMAIN needs /\ owed' = Paid(a)
      /\ \A b \in DOMAIN needs : b # a => needs'[b] = needs[b]
    BY DEF NeedsTick
<1>4. a \in DOMAIN needs => /\ SoundNeeds(needs'[a]) /\ DOMAIN needs'[a] = DOMAIN needs[a]
                            /\ Advanced(a)'
    BY NeedsAdvance
<1>5. NeedTypes'
  <2>1. Deeds' = Deeds
      BY <1>1 DEF Deeds
  <2>2. DOMAIN owed' = Folk
      BY <1>1, <1>3 DEF NeedTypes, Paid
  <2>3. DOMAIN needs' = DOMAIN needs
      BY <1>3
  <2>4. \A b \in DOMAIN needs : SoundNeeds(needs'[b])
      BY <1>1, <1>3, <1>4 DEF NeedTypes
  <2>. QED
      BY <1>1, <2>1, <2>2, <2>3, <2>4 DEF NeedTypes
<1>6. HourInv' /\ CreditsInv'
    BY <1>1 DEF HourInv, CreditsInv
<1>7. ASSUME NEW b \in Folk, b # a PROVE owed'[b] = owed[b]
    BY <1>1, <1>3, <1>7 DEF NeedTypes, Paid
<1>8. ASSUME NEW b \in DOMAIN needs, b # a PROVE Whose(b)' <=> Whose(b)
  <2>1. needs'[b] = needs[b] /\ owed'[b] = owed[b] /\ (b \in toFeel' <=> b \in toFeel)
      BY <1>1, <1>3, <1>7, <1>8 DEF NeedTypes
  <2>2. \A need : Total(b, need)' = Total(b, need)
      BY <1>1 DEF Total
  <2>3. Felt(b)' <=> Felt(b)
      BY <1>1, <2>1, <2>2 DEF Felt, First
  <2>4. Rested(b)' <=> Rested(b)
      BY <1>1, <2>1 DEF Rested
  <2>5. Pending(b)' <=> Pending(b)
      BY <1>1, <2>1, <2>2 DEF Pending
  <2>. QED
      BY <1>1, <2>1, <2>3, <2>4, <2>5 DEF Whose, Advanced
<1>9. a \in DOMAIN needs => Whose(a)'
    BY <1>1, <1>2, <1>4 DEF Whose
<1>10. FeelingInv'
  <2>1. ASSUME NEW b \in Folk, b \notin DOMAIN needs PROVE owed'[b] = <<>>
    <3>1. owed'[b] = owed[b]
        BY <1>3, <1>7, <2>1
    <3>. QED
        BY <1>1, <2>1, <3>1 DEF FeelingInv
  <2>2. ASSUME NEW b \in DOMAIN needs
        PROVE  SoundNeeds(before'[b]) /\ DOMAIN before'[b] = DOMAIN needs'[b] /\ Whose(b)'
    <3>1. SoundNeeds(before[b]) /\ DOMAIN before[b] = DOMAIN needs[b] /\ Whose(b)
        BY <1>1, <1>2, <2>2 DEF FeelingInv
    <3>. QED
        BY <1>1, <1>3, <1>4, <1>8, <1>9, <3>1
  <2>3. DOMAIN needs' = DOMAIN needs
      BY <1>3
  <2>. QED
      BY <1>1, <1>2, <2>1, <2>2, <2>3 DEF FeelingInv
<1>11. LoopIsClosed'
  <2>1. HasNeeds' <=> HasNeeds
      BY <1>1 DEF HasNeeds
  <2>. QED
      BY <1>1, <2>1 DEF LoopIsClosed
<1>. QED
    BY <1>5, <1>6, <1>10, <1>11 DEF NeedsInv

\* Between two ticks the need of an agent that was awake is what it was, less what the
\* actions of the tick deserve, each counted once, plus the decay, for any agents, needs,
\* actions and order of them; sleep makes nobody more tired; and a world that requires the
\* loop has a satisfier, or does not start (NeedsTracker.ts:71-104,
\* NeedsSatisfierPlugin.ts:208-247, needsLoop.ts:50-71).
THEOREM NeedsStayMet == NeedsSpec => []NeedsAreMet
<1>1. NeedsInit => NeedsInv
    BY NeedsStart
<1>2. NeedsInv /\ [NeedsNext]_needsVars => NeedsInv'
  <2>. SUFFICES ASSUME NeedsInv, [NeedsNext]_needsVars PROVE NeedsInv'
      OBVIOUS
  <2>1. CASE Bootstrap
      BY <2>1, BootstrapStep
  <2>2. CASE Open
      BY <2>2, OpenStep
  <2>3. CASE Settle \/ BeginNeeds \/ Close
      BY <2>3, StageStep
  <2>4. CASE Transform
      BY <2>4, TransformStep
  <2>5. ASSUME NEW a \in Folk, Act(a) \/ Rest(a) \/ HandOver(a) \/ OwnTickFails(a) PROVE NeedsInv'
      BY <2>5, OwnTickStep
  <2>6. ASSUME NEW a \in Folk, NeedsTick(a) PROVE NeedsInv'
      BY <2>6, NeedsTickStep
  <2>7. CASE UNCHANGED needsVars
    <3>1. NeedTypes /\ HourInv /\ CreditsInv /\ FeelingInv /\ LoopIsClosed
        BY DEF NeedsInv
    <3>2. NeedTypes' /\ HourInv' /\ CreditsInv'
        BY <2>7, <3>1 DEF needsVars, NeedTypes, Deeds, HourInv, CreditsInv
    <3>3. \A a : Whose(a)' <=> Whose(a)
      <4>. TAKE a
      <4>1. \A need : Total(a, need)' = Total(a, need)
          BY <2>7 DEF needsVars, Total
      <4>2. (Felt(a)' <=> Felt(a)) /\ (Rested(a)' <=> Rested(a))
          BY <2>7, <4>1 DEF needsVars, Felt, First, Rested
      <4>3. Pending(a)' <=> Pending(a)
          BY <2>7, <4>1 DEF needsVars, Pending
      <4>. QED
          BY <2>7, <4>2, <4>3 DEF needsVars, Whose, Advanced
    <3>4. FeelingInv'
        BY <2>7, <3>1, <3>3 DEF needsVars, FeelingInv
    <3>5. HasNeeds' <=> HasNeeds
        BY <2>7 DEF needsVars, HasNeeds
    <3>6. LoopIsClosed'
        BY <2>7, <3>1, <3>5 DEF needsVars, LoopIsClosed
    <3>. QED
        BY <3>2, <3>4, <3>6 DEF NeedsInv
  <2>. QED
      BY <2>1, <2>2, <2>3, <2>4, <2>5, <2>6, <2>7 DEF NeedsNext
<1>3. NeedsInv => NeedsAreMet
  <2>. SUFFICES ASSUME NeedsInv PROVE NeedsAreMet
      OBVIOUS
  <2>1. NeedTypes /\ HourInv /\ FeelingInv /\ LoopIsClosed
      BY DEF NeedsInv
  <2>2. ASSUME stage = "idle", tick > 0, NEW a \in DOMAIN needs
        PROVE  IF a \in crew THEN Advanced(a) ELSE owed[a] = <<>> /\ needs[a] = before[a]
    <3>1. Whose(a) /\ a \notin toFeel
        BY <2>1, <2>2 DEF FeelingInv, HourInv, NeedTypes
    <3>. QED
        BY <3>1 DEF Whose
  <2>3. FeltOnce
      BY <2>2 DEF FeltOnce, Advanced
  <2>4. SleepRests
    <3>1. ASSUME stage = "idle", tick > 0, Satisfier \in plugins, NEW a \in DOMAIN needs,
                 tick \in config.asleep[a]
          PROVE  Rested(a)
      <4>1. CASE a \in crew
          BY <2>2, <3>1, <4>1 DEF Advanced
      <4>2. CASE a \notin crew
        <5>1. needs[a] = before[a] /\ SoundNeeds(needs[a])
            BY <2>1, <2>2, <3>1, <4>2 DEF NeedTypes
        <5>2. ASSUME NEW i \in DOMAIN needs[a] PROVE needs[a][i].value <= before[a][i].value
          <6>1. PICK v : v = needs[a][i].value
              OBVIOUS
          <6>2. SoundNeed(needs[a][i])
              BY <5>1, <5>2 DEF SoundNeeds
          <6>3. v \in Int
              BY <6>1, <6>2 DEF SoundNeed
          <6>. QED
              BY <5>1, <6>1, <6>3
        <5>. QED
            BY <5>2 DEF Rested
      <4>. QED
          BY <4>1, <4>2
    <3>. QED
        BY <3>1 DEF SleepRests
  <2>. QED
      BY <2>1, <2>3, <2>4 DEF NeedsAreMet
<1>. QED
    BY <1>1, <1>2, <1>3, PTL DEF NeedsSpec
=============================================================================
