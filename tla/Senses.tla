------------------------------- MODULE Senses -------------------------------
(***************************************************************************)
(* What a perceiver senses of a stimulus and what of it an agent attends     *)
(* to: PerceptionEngine and AttentionPolicy as operators.                    *)
(*                                                                         *)
(* Intensities, sensitivities, floors and scores are percentages.  Places    *)
(* are naturals on a line, whose difference stands for haversineKm.  The     *)
(* senses of a perceiver are a function of the channel                      *)
(* (indexSensesByChannel).                                                  *)
(***************************************************************************)
EXTENDS Integers, Sequences, FiniteSetsExt, SequencesExt, Sifting

Nowhere == 1000      \* no entry in the LocationIndex
Unlimited == 999     \* a range that is not given: Infinity
NotANumber == 1001   \* NaN, which is neither below a floor nor above one

Clamp01(n) == IF n < 0 THEN 0 ELSE IF n > 100 THEN 100 ELSE n

BypassesPhysics(channel) == channel \in {"signal", "event"}

\* getLocation, of a world that may have no index at all
Placed(where, x) == x \in DOMAIN where /\ where[x] # Nowhere

(* The distance or the reason why there is none, which the engine takes for  *)
(* an infinite distance.                                                    *)
DistanceInfo(stim, p, where, geography) ==
    IF BypassesPhysics(stim.channel) \/ ~geography THEN [km |-> 0, reason |-> "none"]
    ELSE IF ~Placed(where, p) THEN [km |-> Unlimited, reason |-> "no_location"]
    ELSE IF ~Placed(where, stim.from) THEN [km |-> Unlimited, reason |-> "no_source_location"]
    ELSE [km |-> IF where[p] > where[stim.from] THEN where[p] - where[stim.from]
                                                 ELSE where[stim.from] - where[p],
          reason |-> "none"]

EffectiveRange(stim, sense) == IF stim.range # Unlimited THEN stim.range ELSE sense.range

\* 1 - distance / range, in which Infinity / Infinity is not a number
Attenuation(km, range) ==
    IF km = Unlimited THEN IF range = Unlimited THEN NotANumber ELSE 0
    ELSE IF range = Unlimited \/ km = 0 THEN 100
    ELSE IF km > range THEN 0 ELSE ((range - km) * 100) \div range

PerceivedIntensity(stim, sense, km) ==
    LET a == IF BypassesPhysics(stim.channel) THEN 100
                                              ELSE Attenuation(km, EffectiveRange(stim, sense))
    IN  IF a = NotANumber THEN NotANumber
        ELSE Clamp01((stim.intensity * sense.sensitivity * a) \div 10000)

OutOfRange(stim, sense, km) ==
    /\ ~BypassesPhysics(stim.channel)
    /\ km > EffectiveRange(stim, sense)

\* 0 or 100 for speech; a tongue that is not told is understood
Intelligibility(stim, senses) ==
    IF stim.kind # "speech" THEN NotANumber
    ELSE IF "language" \notin DOMAIN senses THEN 0
    ELSE IF senses["language"].tongues = {} \/ stim.tongue \in {"untold"} \cup senses["language"].tongues
         THEN 100 ELSE 0

(* computePercepts for one stimulus: a set with the percept or none.  What   *)
(* filters hold back from p is a set of channels with senders.               *)
Percept(stim, p, senses, where, geography, blocked) ==
    IF stim.from = p \/ stim.channel \notin DOMAIN senses THEN {}
    ELSE LET sense == senses[stim.channel]
             km == DistanceInfo(stim, p, where, geography).km
             felt == PerceivedIntensity(stim, sense, km)
             percept == [stim |-> stim.id, from |-> stim.from, tick |-> stim.tick, via |-> stim.channel,
                         topic |-> stim.topic, felt |-> felt, words |-> stim.words,
                         tags |-> stim.tags,
                         understood |-> Intelligibility(stim, senses)]
         IN  IF OutOfRange(stim, sense, km) \/ felt < sense.floor \/ <<stim.channel, stim.from>> \in blocked
             THEN {} ELSE {percept}

\* out.push(...row), row by row
Flat(rows) ==
    LET upto[n \in 0..Len(rows)] == IF n = 0 THEN <<>> ELSE upto[n - 1] \o rows[n]
    IN  upto[Len(rows)]

\* perceiveFor: the percepts of a sequence of stimuli, in their order
PerceiveFor(p, stimuli, senses, where, geography, blocked) ==
    Flat([i \in DOMAIN stimuli |->
             SetToSeq(Percept(stimuli[i], p, senses, where, geography, blocked))])

(* explainUndelivered: the first reason, in this order, that some perceiver  *)
(* other than the speaker gives.                                            *)
ExplainUndelivered(stim, excluded, senses, where, geography) ==
    LET others == DOMAIN senses \ {excluded, stim.from}
        sensing == {p \in others : stim.channel \in DOMAIN senses[p]}
        info(p) == DistanceInfo(stim, p, where, geography)
        placed == {p \in sensing : info(p).reason = "none"}
        sense(p) == senses[p][stim.channel]
        far == {p \in placed : OutOfRange(stim, sense(p), info(p).km)}
    IN  IF others = {} THEN "no_perceivers"
        ELSE IF sensing = {} THEN "no_matching_sense"
        ELSE IF \E p \in sensing : info(p).reason = "no_location" THEN "no_location"
        ELSE IF \E p \in sensing : info(p).reason = "no_source_location" THEN "no_source_location"
        ELSE IF far # {} THEN "out_of_range"
        ELSE IF \E p \in placed \ far :
                   PerceivedIntensity(stim, sense(p), info(p).km) < sense(p).floor
             THEN "below_floor"
        ELSE "filtered"

(***************************************************************************)
(* AttentionPolicy.  The text of a stimulus is the set of the phrases that   *)
(* occur in it; what an agent cares for is a record of its needs, goals,     *)
(* interests, relationships and AttentionConfig.                            *)
(***************************************************************************)
\* scoreNeedRelevance: the most pressing active need that shares a tag
NeedRelevance(percept, needs) ==
    Max({0} \cup {Clamp01(((n.value - n.activation) * 100) \div Max({100 - n.activation, 1})) :
                    n \in {m \in needs : m.value >= m.activation /\ m.tags \cap percept.tags # {}}})

\* scoreGoalRelevance: the first goal that is mentioned, in full or by a word
GoalRelevance(percept, goals) ==
    LET mentioned(i) == ({goals[i].phrase} \cup goals[i].words) \cap percept.words # {}
        hits == {i \in DOMAIN goals : mentioned(i)}
    IN  IF hits = {} THEN 0 ELSE IF goals[Min(hits)].phrase \in percept.words THEN 100 ELSE 50

InterestMatch(percept, interests) ==
    IF interests \cap percept.tags # {} THEN 100
    ELSE IF interests \cap percept.words # {} THEN 60 ELSE 0

\* indexRelationships and scoreRelationship: the strongest tie to the source
RelationshipBoost(percept, ties) ==
    Max({0} \cup {Clamp01(t.strength) : t \in {u \in ties : u.to = percept.from}})

Recency(percept, tick) ==
    LET delta == tick - percept.tick
    IN  IF delta <= 0 THEN 100 ELSE IF delta >= 5 THEN 0 ELSE 100 - 20 * delta

\* clamp01 of AttentionPolicy takes NaN for 0
Score(percept, recent, cares, tick) ==
    Clamp01((  25 * (IF percept.felt = NotANumber THEN 0 ELSE Clamp01(percept.felt))
             + 10 * (IF percept.stim \in recent THEN 0 ELSE 100)
             + 20 * NeedRelevance(percept, cares.needs) * cares.needWeight
             + 15 * GoalRelevance(percept, cares.goals)
             + 20 * InterestMatch(percept, cares.interests)
             +  5 * Clamp01(RelationshipBoost(percept, cares.ties) * cares.relationshipWeight)
             +  5 * Recency(percept, tick)) \div 100)

\* rank: a stable sort by falling score
Rank(percepts, recent, cares, tick) ==
    LET scored == {[place |-> i, percept |-> percepts[i],
                    score |-> Score(percepts[i], recent, cares, tick)] : i \in DOMAIN percepts}
        ahead(r) == {q \in scored : \/ q.score > r.score
                                    \/ q.score = r.score /\ q.place < r.place}
    IN  [n \in DOMAIN percepts |-> CHOOSE r \in scored : Cardinality(ahead(r)) = n - 1]

\* attend: the threshold, lowered by distractibility, then the budget
Attend(ranked, cares) ==
    LET threshold == (cares.threshold * (100 - Clamp01(cares.distractibility))) \div 100
        above == Sifted(ranked, {i \in DOMAIN ranked : ranked[i].score >= threshold})
    IN  SubSeq(above, 1, Min({Len(above), Max({0, cares.budget})}))
=============================================================================
