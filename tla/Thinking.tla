------------------------------- MODULE Thinking -------------------------------
(***************************************************************************)
(* How the agents of a tick think: the graph of each (the model, then the     *)
(* tools it asks for, and again), the adapters of the pool with their         *)
(* response caches and their retries, the tracker, and the tools of plugins   *)
(* and MCP servers.  A prompt is what a call is about, without its history.    *)
(***************************************************************************)
EXTENDS Integers, SequencesExt, FiniteSetsExt, Functions, Sifting

CONSTANTS
    Thinkers,
    Minds,      \* worlds: [llm: agent -> its LLMConfig [model, temperature]; cached: BOOLEAN;
                \* max, ttl: of a cache; retries; tools: agent -> names; prompts:
                \* <<agent, tick>> -> prompt; replies: what a model may answer; until: ticks]
    MaxLoops,   \* 10 in shouldContinue
    Iterations  \* maxIterations: 3 for a person

\* A cache has room for an entry; an answer is a sequence of calls, empty or not.
ASSUME MindsAreSound ==
    \A m \in Minds :
       /\ m.max \in Nat \ {0} /\ m.ttl \in Int /\ m.cached \in BOOLEAN
       /\ \A reply \in m.replies : reply \in Seq(Range(reply))

VARIABLES
    mind, now,
    pool,      \* fingerprint -> the config its adapter was built with
    cache,     \* fingerprint -> entries [prompt, reply, at], the least recently used first
    graph,     \* agent -> the state of its graph
    usage,     \* agent -> recorded responses
    \* history:
    served     \* agent -> the cached entry it was answered with last, if any

mindVars == <<mind, now, pool, cache, graph, usage, served>>

Idle == [at |-> "idle"]

ThinkingInit ==
    /\ mind \in Minds
    /\ now = 1
    /\ pool = <<>> /\ cache = <<>>
    /\ graph = [a \in Thinkers |-> [at |-> "new"]]
    /\ usage = [a \in Thinkers |-> 0]
    /\ served = [a \in Thinkers |-> <<>>]

(***************************************************************************)
(* The pool: getAdapter, at the bootstrap of an agent.                       *)
(***************************************************************************)
Fingerprint(config) == config.model

Put(f, x, v) == [y \in DOMAIN f \cup {x} |-> IF y = x THEN v ELSE f[y]]

GetAdapter(a) ==
    /\ graph[a].at = "new"
    /\ LET config == mind.llm[a]
           key == Fingerprint(config)
       IN  IF key \in DOMAIN pool THEN UNCHANGED <<pool, cache>>
           ELSE pool' = Put(pool, key, config) /\ cache' = Put(cache, key, <<>>)
    /\ graph' = [graph EXCEPT ![a] = Idle]
    /\ UNCHANGED <<mind, now, usage, served>>

Adapter(a) == Fingerprint(mind.llm[a])
Prompt(a) == mind.prompts[<<a, now>>]

(***************************************************************************)
(* The response cache of an adapter.                                        *)
(***************************************************************************)
Expired(entry, tick) == tick - entry.at > mind.ttl
Lookup(entries, prompt) == {i \in DOMAIN entries : entries[i].prompt = prompt}
Holds(entries, prompt) == Lookup(entries, prompt) # {}
Where(entries, prompt) == CHOOSE i \in Lookup(entries, prompt) : TRUE
Entry(entries, prompt) == entries[Where(entries, prompt)]
Others(entries, prompt) == RemoveAt(entries, Where(entries, prompt))

\* *Fault*: an entry that is there is not looked at for its age
Served(entries, prompt) == Holds(entries, prompt)
\* getFromCache answers
Hits(entries, prompt) == Holds(entries, prompt) /\ ~Expired(Entry(entries, prompt), now)

\* getFromCache: an entry that answers becomes the latest, an expired one goes
Touched(entries, prompt) ==
    IF ~Holds(entries, prompt) THEN entries
    ELSE IF Hits(entries, prompt)
         THEN Append(Others(entries, prompt), Entry(entries, prompt))
         ELSE Others(entries, prompt)

\* putInCache: the oldest goes when the cache is full, also for a prompt that is there
Stored(entries, entry) ==
    LET room == IF Len(entries) >= mind.max THEN Tail(entries) ELSE entries
        new == [i \in DOMAIN room |-> IF room[i].prompt = entry.prompt THEN entry ELSE room[i]]
    IN  IF Holds(room, entry.prompt) THEN new ELSE Append(room, entry)

\* setTick: expired entries go when more than half of the cache is used
Swept(entries, tick) ==
    IF 2 * Len(entries) > mind.max
    THEN Sifted(entries, {i \in DOMAIN entries : ~Expired(entries[i], tick)}) ELSE entries

(***************************************************************************)
(* The graph.                                                              *)
(***************************************************************************)
Fresh == [at |-> "think", loops |-> 0, attempt |-> 0, messages |-> <<>>, calls |-> <<>>,
          results |-> 0]

Invoke(a) ==
    /\ graph[a] = Idle
    /\ graph' = [graph EXCEPT ![a] = Fresh]
    /\ UNCHANGED <<mind, now, pool, cache, usage, served>>

\* shouldContinue, after an answer
Continues(g, finish) ==
    IF ~finish /\ g.loops < MaxLoops /\ g.calls # <<>> THEN "tools" ELSE "done"

\* what think makes of an answer: the calls it asks for, or the end
Heard(g, reply) ==
    LET told == [g EXCEPT !.messages = Append(@, [role |-> "assistant", calls |-> reply]),
                          !.calls = reply, !.loops = @ + 1, !.attempt = 0]
    IN  [told EXCEPT !.at = Continues(told, reply = <<>>)]

Cacheable(a) == mind.cached /\ mind.tools[a] = {}

\* think: nothing more after maxIterations; else the cache, or a request
Think(a) ==
    /\ graph[a].at = "think"
    /\ LET g == graph[a]
           held == cache[Adapter(a)]
       IN  IF g.loops >= Iterations
           THEN /\ graph' = [graph EXCEPT ![a].at = "done"]
                /\ UNCHANGED <<cache, usage, served>>
           ELSE /\ cache' = IF Cacheable(a)
                            THEN [cache EXCEPT ![Adapter(a)] = Touched(held, Prompt(a))] ELSE cache
                /\ IF Cacheable(a) /\ Hits(held, Prompt(a))
                   THEN /\ graph' = [graph EXCEPT ![a] = Heard(g, <<>>)]
                        /\ usage' = [usage EXCEPT ![a] = @ + 1]
                        /\ served' = [served EXCEPT ![a] =
                                         <<[entry |-> Entry(held, Prompt(a)), tick |-> now]>>]
                   ELSE /\ graph' = [graph EXCEPT ![a].at = "asked"]
                        /\ UNCHANGED <<usage, served>>
    /\ UNCHANGED <<mind, now, pool>>

\* The model answers: with calls of tools, if it was told of any.
Respond(a) ==
    /\ graph[a].at = "asked"
    /\ \E reply \in mind.replies :
          /\ reply # <<>> => mind.tools[a] # {}
          /\ graph' = [graph EXCEPT ![a] = Heard(graph[a], reply)]
          /\ cache' = IF Cacheable(a)
                      THEN [cache EXCEPT ![Adapter(a)] =
                               Stored(@, [prompt |-> Prompt(a), at |-> now])]
                      ELSE cache
    /\ usage' = [usage EXCEPT ![a] = @ + 1]
    /\ UNCHANGED <<mind, now, pool, served>>

\* *Fault*: the attempts are not counted
Again(g) == g
\* withRetry, while shouldRetry lets it
NextAttempt(g) == [g EXCEPT !.attempt = @ + 1]

RequestFails(a, transient) ==
    /\ graph[a].at = "asked"
    /\ IF transient /\ graph[a].attempt < mind.retries
       THEN graph' = [graph EXCEPT ![a] = NextAttempt([graph[a] EXCEPT !.at = "sleep"])]
       ELSE graph' = [graph EXCEPT ![a].at = "failed"]
    /\ UNCHANGED <<mind, now, pool, cache, usage, served>>

Sleep(a) ==
    /\ graph[a].at = "sleep" /\ graph' = [graph EXCEPT ![a].at = "asked"]
    /\ UNCHANGED <<mind, now, pool, cache, usage, served>>

\* *Fault*: a tool that is not there gets no answer
SkipsUnknown(a, g) ==
    LET known == Head(g.calls).tool \in mind.tools[a]
    IN  [g EXCEPT !.calls = Tail(@), !.results = @ + 1,
                  !.messages = IF known THEN Append(@, [role |-> "tool", call |-> Head(g.calls).id])
                               ELSE @]
\* one call: a result, or an error for a tool that is not there, throws or times out
Executed(a, g) ==
    [g EXCEPT !.calls = Tail(@), !.results = @ + 1,
              !.messages = Append(@, [role |-> "tool", call |-> Head(g.calls).id])]

ExecuteTool(a) ==
    /\ graph[a].at = "tools"
    /\ graph' = [graph EXCEPT ![a] = IF graph[a].calls = <<>> THEN [graph[a] EXCEPT !.at = "think"]
                                     ELSE Executed(a, graph[a])]
    /\ UNCHANGED <<mind, now, pool, cache, usage, served>>

\* All agents of the tick have settled: the next one sets the tick of the caches.
NextTick ==
    /\ now < mind.until /\ \A a \in Thinkers : graph[a].at \in {"done", "failed"}
    /\ now' = now + 1
    /\ cache' = [k \in DOMAIN cache |-> Swept(cache[k], now')]
    /\ graph' = [a \in Thinkers |-> Idle]
    /\ UNCHANGED <<mind, pool, usage, served>>

ThinkingNext ==
    \/ NextTick
    \/ \E a \in Thinkers : \/ GetAdapter(a) \/ Invoke(a) \/ Think(a) \/ Respond(a) \/ Sleep(a)
                         \/ ExecuteTool(a)
                         \/ \E transient \in BOOLEAN : RequestFails(a, transient)

ThinkingSpec == ThinkingInit /\ [][ThinkingNext]_mindVars /\ WF_mindVars(ThinkingNext)

(***************************************************************************)
(* Properties.                                                             *)
(***************************************************************************)
Started == {a \in Thinkers : graph[a].at \notin {"new", "idle"}}
CallIds(message) == [i \in DOMAIN message.calls |-> message.calls[i].id]

\* Whenever the model is asked again, every call it has made is answered, once and in the
\* order of the calls, right behind the message that made it, whatever became of the tool.
CallsAreAnswered ==
    \A a \in Started :
       graph[a].at \in {"think", "asked"} =>
          LET said == graph[a].messages
              answers(i) == {j \in DOMAIN said : j > i /\ \A k \in (i + 1)..j : said[k].role = "tool"}
          IN  /\ \A i \in DOMAIN said : said[i].role = "assistant" =>
                    CallIds(said[i]) = [j \in 1..Cardinality(answers(i)) |-> said[i + j].call]
              /\ graph[a].calls = <<>>

\* A cache gives the answer to the prompt it was asked, no older than its time to live,
\* and holds one entry per prompt and no more than it may, also when two agents have
\* missed the same prompt at the same time.
CacheIsFresh ==
    /\ \A a \in Thinkers : served[a] # <<>> =>
          LET s == served[a][1]
          IN  s.tick - s.entry.at <= mind.ttl /\ s.entry.prompt = mind.prompts[<<a, s.tick>>]
    /\ \A k \in DOMAIN cache :
          /\ Len(cache[k]) <= mind.max
          /\ \A i, j \in DOMAIN cache[k] : cache[k][i].prompt = cache[k][j].prompt => i = j

\* Every call of a tool is answered before the model is asked again (AgentGraph.ts:85-131);
\* a cache of one or more agents answers with what was asked, not too old
\* (ResponseCache.ts:29-93, LLMAdapterPool.ts:41-64).
MindsAreServed == CallsAreAnswered /\ CacheIsFresh

\* Every thought ends, with an action or with an error the tick catches.
ThoughtsEnd ==
    \A a \in Thinkers : graph[a].at = "think" ~> graph[a].at \in {"done", "failed"}
=============================================================================
