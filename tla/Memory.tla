-------------------------------- MODULE Memory --------------------------------
(***************************************************************************)
(* The memory of one agent: BrainMemory over the memory store (the process    *)
(* or Redis), the persistence store and the vector store (Postgres), and the  *)
(* MemoryConsolidator, of which two calls may overlap.                       *)
(*                                                                         *)
(* A store operation that has been started lands, or fails, in its own time.  *)
(* Days are long: none passes while an operation is under way.                *)
(***************************************************************************)
EXTENDS Integers, SequencesExt, FiniteSetsExt, Sifting

CONSTANTS
    Memories,    \* entries, each saved once under an id of its own
    Consolidations, \* calls of consolidate()
    Brains,      \* worlds: [batches: what the agent saves, in order; type, score: of each
                 \* entry, in tenths; strategy; llm; answers: what the model may say of
                 \* importance; threshold, batchSize, retention; fails: whether stores may]
    Unparsable   \* an answer without a JSON array

\* An entry is saved once: its id is a random UUID.
SoundBrain(b) ==
    /\ b.batches \in Seq(Seq(Memories)) /\ b.retention \in Nat /\ b.batchSize \in Nat \ {0}
    /\ \A i, j \in DOMAIN b.batches : i # j => Range(b.batches[i]) \cap Range(b.batches[j]) = {}

ASSUME BrainsAreSound == IsFiniteSet(Memories) /\ \A b \in Brains : SoundBrain(b)

VARIABLES
    brain, day,
    memory,     \* the memory store, oldest first
    rows,       \* memory_entries
    vectors,    \* ids in vector_entries
    knowledge,  \* consolidated_knowledge: set of [why, of: set of ids]
    pending,    \* started operations: set of [op, ids]
    batches,    \* what is still to be saved
    born,       \* entry -> day it was saved on
    job,        \* call -> where it is
    lost,       \* history: entries some operation on which has failed
    low         \* history: the entries each call meant to delete

memoryVars == <<brain, day, memory, rows, vectors, knowledge, pending, batches, born, job, lost, low>>

NoJob == [at |-> "none"]

MemoryInit ==
    /\ brain \in Brains
    /\ day = 0 /\ batches = brain.batches /\ born = <<>>
    /\ memory = <<>> /\ rows = {} /\ vectors = {} /\ knowledge = {} /\ pending = {}
    /\ job = [c \in Consolidations |-> NoJob] /\ low = {}
    /\ lost = {}

(***************************************************************************)
(* saveBatch: the memory store at once, the rows on their way, and the        *)
(* vectors after the embedding.                                            *)
(***************************************************************************)
Starts(ids) == {[op |-> "row", ids |-> ids], [op |-> "embed", ids |-> ids]}

SaveBatch ==
    /\ batches # <<>> /\ pending = {}
    /\ LET batch == Head(batches)
           ids == Range(batch)
       IN  /\ memory' = memory \o batch
           /\ pending' = Starts(ids)
           /\ born' = [m \in DOMAIN born \cup ids |-> IF m \in ids THEN day ELSE born[m]]
    /\ batches' = Tail(batches)
    /\ UNCHANGED <<brain, day, rows, vectors, knowledge, job, lost, low>>

\* allSettled keeps what became of an operation to itself; an embedding that fails
\* rejects the save, which leaves the entries without vectors
Lands(p) ==
    /\ p \in pending
    /\ pending' = (pending \ {p}) \cup (IF p.op = "embed" THEN {[op |-> "vector", ids |-> p.ids]}
                                                          ELSE {})
    /\ rows' = IF p.op = "row" THEN rows \cup p.ids ELSE rows
    /\ vectors' = IF p.op = "vector" THEN vectors \cup p.ids ELSE vectors
    /\ UNCHANGED <<brain, day, memory, knowledge, batches, born, job, lost, low>>

Fails(p) ==
    /\ brain.fails /\ p \in pending
    /\ pending' = pending \ {p} /\ lost' = lost \cup p.ids
    /\ UNCHANGED <<brain, day, memory, rows, vectors, knowledge, batches, born, job, low>>

\* A day passes.  Bound: the days that make the last entry old.
Day ==
    /\ pending = {} /\ \A c \in Consolidations : job[c] = NoJob
    /\ day <= brain.retention + Len(brain.batches) /\ day' = day + 1
    /\ UNCHANGED <<brain, memory, rows, vectors, knowledge, pending, batches, born, job, lost, low>>

(***************************************************************************)
(* consolidate                                                             *)
(***************************************************************************)
Old == {m \in rows : day - born[m] > brain.retention}
Goes(c, next) == job' = [job EXCEPT ![c] = next]

Consolidate(c) ==
    /\ job[c] = NoJob /\ Old # {}
    /\ Goes(c, [at |-> "score", left |-> SetToSeq(Old), promote |-> <<>>, del |-> {}])
    /\ UNCHANGED <<brain, day, memory, rows, vectors, knowledge, pending, batches, born, lost, low>>

Heuristic(ids) == {<<m, brain.score[m]>> : m \in ids}
Borderline(ids) == {m \in ids : brain.score[m] \in 4..7}

\* llmScore: what the answer says of any entry; all of it is heuristic without a JSON array
LlmScore(ids, answer) == IF answer = Unparsable THEN Heuristic(ids) ELSE answer

\* scoreImportance: set of <<entry, score>>, for the answer of the model
Scores(ids, answer) ==
    CASE brain.strategy = "heuristic" \/ ~brain.llm -> Heuristic(ids)
      [] brain.strategy = "llm" /\ brain.llm -> {s \in LlmScore(ids, answer) : s[1] \in ids}
      [] OTHER -> LET asked == Borderline(ids)
                      said == IF asked = {} THEN {} ELSE LlmScore(asked, answer)
                      heard == {s[1] : s \in said}
                  IN  {s \in said : s[1] \in ids} \cup Heuristic(ids \ heard)

\* One batch is scored; the call is rejected when the model is.
ScoreBatch(c) ==
    /\ job[c].at = "score" /\ job[c].left # <<>>
    /\ LET j == job[c]
           n == Min({brain.batchSize, Len(j.left)})
           ids == Range(SubSeq(j.left, 1, n))
       IN  \E answer \in brain.answers :
             LET scores == Scores(ids, answer)
                 high == {s[1] : s \in {t \in scores : t[2] >= brain.threshold}}
                 unfit == {s[1] : s \in {t \in scores : t[2] < brain.threshold}}
             IN  Goes(c, [at |-> "score", left |-> SubSeq(j.left, n + 1, Len(j.left)),
                          promote |-> j.promote \o SetToSeq(high), del |-> j.del \cup unfit])
    /\ UNCHANGED <<brain, day, memory, rows, vectors, knowledge, pending, batches, born, lost, low>>

\* the groups of the entries to delete that are worth a summary
Groups(ids) ==
    {g \in {{m \in ids : brain.type[m] = t} : t \in {brain.type[m] : m \in ids}} :
        Cardinality(g) >= 2}

\* *Fault*: what is to be deleted is not summarised before
DeletesFirst(j) == [at |-> "summarise", del |-> j.del, groups |-> {}]
ThenSummaries(j) ==
    [at |-> "summarise", del |-> j.del, groups |-> IF brain.llm THEN Groups(j.del) ELSE {}]

Promote(c) ==
    /\ job[c].at = "score" /\ job[c].left = <<>>
    /\ LET j == job[c]
       IN  IF j.promote # <<>>
           THEN /\ knowledge' = knowledge \cup {[why |-> "promoted", of |-> {Head(j.promote)}]}
                /\ Goes(c, [j EXCEPT !.promote = Tail(@)])
                /\ UNCHANGED low
           ELSE /\ Goes(c, ThenSummaries(j))
                /\ low' = low \cup {j.del} /\ UNCHANGED knowledge
    /\ UNCHANGED <<brain, day, memory, rows, vectors, pending, batches, born, lost>>

Summarise(c) ==
    /\ job[c].at = "summarise"
    /\ LET j == job[c]
       IN  IF j.groups = {}
           THEN /\ Goes(c, IF j.del = {} THEN NoJob ELSE [at |-> "delete", del |-> j.del])
                /\ UNCHANGED knowledge
           ELSE \E g \in j.groups :
                  /\ knowledge' = knowledge \cup {[why |-> "summary", of |-> g]}
                  /\ Goes(c, [j EXCEPT !.groups = @ \ {g}])
    /\ UNCHANGED <<brain, day, memory, rows, vectors, pending, batches, born, lost, low>>

\* *Fault*: an entry that was embedded in this session stays in the vector store
DropsOlder(ids) == vectors \ (ids \ Range(memory))
Drops(ids) == vectors \ ids

Delete(c) ==
    /\ \/ /\ job[c].at = "delete"
          /\ rows' = rows \ job[c].del
          /\ Goes(c, [at |-> "forget", del |-> job[c].del])
          /\ UNCHANGED vectors
       \/ /\ job[c].at = "forget"
          /\ vectors' = Drops(job[c].del)
          /\ Goes(c, NoJob)
          /\ UNCHANGED rows
    /\ UNCHANGED <<brain, day, memory, knowledge, pending, batches, born, lost, low>>

\* Any await of the call may reject it: the model or a store
RejectCall(c) ==
    /\ brain.fails /\ job[c] # NoJob
    /\ lost' = IF job[c].at = "forget" THEN lost \cup job[c].del ELSE lost
    /\ Goes(c, NoJob)
    /\ UNCHANGED <<brain, day, memory, rows, vectors, knowledge, pending, batches, born, low>>

MemoryNext ==
    \/ SaveBatch \/ Day
    \/ \E p \in pending : Lands(p) \/ Fails(p)
    \/ \E c \in Consolidations : Consolidate(c) \/ ScoreBatch(c) \/ Promote(c) \/ Summarise(c)
                        \/ Delete(c) \/ RejectCall(c)

MemorySpec == MemoryInit /\ [][MemoryNext]_memoryVars

(***************************************************************************)
(* recall: the latest entries, then what the search adds to them.             *)
(***************************************************************************)
Merged(recent, hits) ==
    LET all == recent \o hits
    IN  Sifted(all, {i \in DOMAIN all : \A j \in 1..(i - 1) : all[j] # all[i]})

Recalled(limit, hits) ==
    Merged(Reverse(SubSeq(memory, Max({1, Len(memory) - limit + 1}), Len(memory))), hits)

(***************************************************************************)
(* Properties.                                                             *)
(***************************************************************************)
Persisted == {m \in DOMAIN born : ~\E p \in pending : p.op = "row" /\ m \in p.ids} \ lost
Remembered(m) == \E k \in knowledge : m \in k.of

\* However calls overlap and fail, an entry is gone from the rows only when some call
\* meant to delete it, and then, if a model was there and another of its type went
\* with it, in a summary that had been saved by then.
NothingIsForgotten ==
    \A m \in Persisted \ rows :
       \/ Remembered(m)
       \/ \E gone \in low : /\ m \in gone
                            /\ brain.llm => \A n \in gone \ {m} : brain.type[n] # brain.type[m]

\* When nothing is under way the vectors are those of the rows, apart from the entries
\* a failed operation has hit, and no call of recall gives an entry twice.
StoresAgree ==
    /\ pending = {} /\ (\A c \in Consolidations : job[c] = NoJob) => vectors \ lost = rows \ lost
    /\ \A limit \in 0..2 : \A m, n \in vectors :
          m # n => IsInjective(Recalled(limit, <<m, n>>))

\* However consolidations overlap and fail, an entry is gone only when a call meant to delete
\* it and, with a model and company of its type, after its summary was saved; when nothing is
\* under way the vectors are those of the rows, but for what a failed operation has hit
\* (MemoryConsolidator.ts:49-143, BrainMemory.ts:74-212).
MemoryIsKept == NothingIsForgotten /\ StoresAgree
=============================================================================
