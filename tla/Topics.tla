------------------------------- MODULE Topics -------------------------------
(***************************************************************************)
(* The TopicTracker as operators on its two maps: `topics`, whose keys it     *)
(* iterates over in the sequence `order`, and `of`, which is stimToTopic.    *)
(***************************************************************************)
EXTENDS Integers, Sequences, FiniteSetsExt, SequencesExt

CONSTANT TopicWindow  \* windowTicks

ASSUME WindowIsThere == TopicWindow \in Nat \ {0}

NoTopics == [topics |-> <<>>, order |-> <<>>, of |-> <<>>]

Tracks(tracker, id) == id \in DOMAIN tracker.topics

InWindow(topic, tick) == tick - topic.last <= TopicWindow

\* *Fault*: the entries of its stimuli stay
ExpireTopicsOnly(tracker, tick) ==
    LET kept == {id \in DOMAIN tracker.topics : InWindow(tracker.topics[id], tick)}
    IN  [tracker EXCEPT !.topics = Restrict(@, kept),
                        !.order = SelectSeq(@, LAMBDA id : id \in kept)]

\* expireStale: a topic goes with the entries of its stimuli
ExpireStale(tracker, tick) ==
    LET kept == {id \in DOMAIN tracker.topics : InWindow(tracker.topics[id], tick)}
        gone == UNION {Range(tracker.topics[id].stims) : id \in DOMAIN tracker.topics \ kept}
    IN  [topics |-> Restrict(tracker.topics, kept),
         order |-> SelectSeq(tracker.order, LAMBDA id : id \in kept),
         of |-> Restrict(tracker.of, DOMAIN tracker.of \ gone)]

Put(map, key, value) == [k \in DOMAIN map \cup {key} |-> IF k = key THEN value ELSE map[k]]

\* openTopic: Map.set keeps the place of a key that is there
OpenTopic(tracker, stim, id) ==
    [topics |-> Put(tracker.topics, id, [root |-> stim.id, last |-> stim.tick,
                                         members |-> {stim.from}, stims |-> <<stim.id>>]),
     order |-> IF Tracks(tracker, id) THEN tracker.order ELSE Append(tracker.order, id),
     of |-> Put(tracker.of, stim.id, id)]

AppendTo(tracker, stim, id) ==
    IF ~Tracks(tracker, id) THEN OpenTopic(tracker, stim, id)
    ELSE LET t == tracker.topics[id]
         IN  [topics |-> Put(tracker.topics, id,
                             [root |-> t.root, last |-> IF stim.tick > t.last THEN stim.tick ELSE t.last,
                              members |-> t.members \cup {stim.from},
                              stims |-> Append(t.stims, stim.id)]),
              order |-> tracker.order,
              of |-> Put(tracker.of, stim.id, id)]

(* openTopicsForAgent: among the topics in the window that the agent spoke   *)
(* in, the first one with the latest activity, or none.                      *)
OpenTopicForAgent(tracker, agent, tick) ==
    LET topic(i) == tracker.topics[tracker.order[i]]
        open == {i \in DOMAIN tracker.order :
                    agent \in topic(i).members /\ InWindow(topic(i), tick)}
        latest == {i \in open : \A j \in open : topic(j).last <= topic(i).last}
    IN  IF open = {} THEN {} ELSE {tracker.order[Min(latest)]}

(* ingest, without the optional classifier: the explicit topic, the topic of *)
(* the cause, the open topic of the speaker, or a fresh one.  A stimulus     *)
(* names no topic or no cause by the empty set, one by a singleton.          *)
TopicFor(tracker, stim, fresh) ==
    LET causal == {tracker.of[c] : c \in stim.cause \cap DOMAIN tracker.of}
        followed == {id \in causal : Tracks(tracker, id)}
        spoken == OpenTopicForAgent(tracker, stim.from, stim.tick)
    IN  CHOOSE id \in IF stim.topic # {} THEN stim.topic
                      ELSE IF followed # {} THEN followed
                      ELSE IF spoken # {} THEN spoken
                      ELSE {fresh} : TRUE

Ingest(tracker, stim, fresh) ==
    IF stim.id \in DOMAIN tracker.of THEN tracker
    ELSE LET swept == ExpireStale(tracker, stim.tick)
         IN  AppendTo(swept, stim, TopicFor(swept, stim, fresh))

\* what the caller writes into stim.topicId
TopicOf(tracker, stim) == {tracker.of[s] : s \in {stim.id} \cap DOMAIN tracker.of}
=============================================================================
