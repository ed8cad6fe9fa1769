---------------------------- MODULE Services_proof ----------------------------
(***************************************************************************)
(* Theorems about what the agents of a world are served with: the model calls of *)
(* the batch executor, the MCP tools of their clients, the signs of the entities *)
(* around them, the caches of the models and the tools they think with, what they  *)
(* remember, the phones they call each other with - for every number of tasks and    *)
(* limit, any agents and servers, any entities and emitters, any models and prompts, *)
(* any entries of a memory, any phones and numbers, whatever fails and whatever is   *)
(* added, removed or stopped meanwhile.                                         *)
(***************************************************************************)
EXTENDS BatchExecutor, Clients, Entities, Thinking, Memory, Phones, FiniteSetTheorems,
        SequenceTheorems, WellFoundedInduction, TLAPS

-----------------------------------------------------------------------------
(***************************************************************************)
(* The batch executor.                                                     *)
(***************************************************************************)
(***************************************************************************)
(* The inductive invariant.  The code never looks at the tasks themselves,   *)
(* only at its three counters: Taken and Counters tie the counters to the     *)
(* tasks, Slots ties the result array to them.                              *)
(***************************************************************************)
\* Tasks are taken in the order of the list.
Taken == \A i \in Tasks : task[i] = "waiting" <=> i > nextIndex

\* While the caller waits: `running` counts the tasks in flight, every task taken
\* is in flight or counted as completed, and no slot is idle.
Counters ==
    promise = "pending" =>
        /\ running = Cardinality(InFlight)
        /\ running + completed = nextIndex
        /\ completed < N
        /\ running = Least(MaxConcurrent, N - completed)

Uncalled == promise = "uncalled" => nextIndex = 0 /\ running = 0 /\ completed = 0

\* A settled task has filled its slot, under execute only if it was fulfilled.
Slots ==
    promise \in {"pending", "resolved"} =>
        \A i \in Tasks : task[i] \in Outcomes =>
            results[i] = task[i] /\ (settled \/ task[i] = "fulfilled")

\* No task is left once the batch has resolved.
NothingLeft == promise = "resolved" => \A i \in Tasks : task[i] \in Outcomes

IInv ==
    /\ TypeOK
    /\ Taken
    /\ Uncalled
    /\ Counters
    /\ Slots
    /\ NothingLeft
    /\ ConcurrencyBound

-----------------------------------------------------------------------------
\* Any set of tasks is finite.
LEMMA TasksFinite ==
    ASSUME NEW S \in SUBSET Tasks
    PROVE  IsFiniteSet(S) /\ Cardinality(S) \in Nat
<1>1. IsFiniteSet(Tasks)
    BY BatchAssumption, FS_Interval DEF Tasks
<1>2. IsFiniteSet(S)
    BY <1>1, FS_Subset
<1>. QED
    BY <1>2, FS_CardinalityType

LEMMA LeastBounds ==
    ASSUME NEW a \in Int, NEW b \in Int
    PROVE  Least(a, b) \in {a, b} /\ Least(a, b) <= a /\ Least(a, b) <= b
BY DEF Least

\* The number of tasks that runNext takes from the list.
LEMMA IntervalCardinality ==
    ASSUME NEW n \in Nat, NEW k \in Nat
    PROVE  /\ IsFiniteSet((n + 1)..(n + k))
           /\ Cardinality((n + 1)..(n + k)) = k
<1> DEFINE lo == n + 1
           hi == n + k
<1>1. lo \in Int /\ hi \in Int
    OBVIOUS
<1>2. hi - lo + 1 = k /\ (lo > hi <=> k = 0)
    OBVIOUS
<1>3. /\ IsFiniteSet(lo..hi)
      /\ Cardinality(lo..hi) = IF lo > hi THEN 0 ELSE hi - lo + 1
  <2>. HIDE DEF lo, hi
  <2>. QED
      BY <1>1, FS_Interval
<1>. QED
    BY <1>2, <1>3

RunningIn(t) == {i \in Tasks : t[i] = "running"}

\* runNext counts right: if `run` tasks of `t` are in flight and the tasks beyond
\* nextIndex wait, then after it as many are in flight as `running` says.
LEMMA RunNextCounts ==
    ASSUME nextIndex \in 0..N,
           NEW run \in Nat, run <= MaxConcurrent,
           NEW t \in [Tasks -> {"waiting", "running"} \cup Outcomes],
           \A i \in Tasks : t[i] = "waiting" <=> i > nextIndex,
           run = Cardinality(RunningIn(t)),
           RunNext(run, t)
    PROVE  /\ Launched(run) \in Nat
           /\ nextIndex' \in nextIndex..N
           /\ task' \in [Tasks -> {"waiting", "running"} \cup Outcomes]
           /\ \A i \in Tasks : task'[i] = "waiting" <=> i > nextIndex'
           /\ running' = Cardinality(InFlight')
<1> DEFINE Before == RunningIn(t)
           After == (nextIndex + 1)..(nextIndex + Launched(run))
<1>1. /\ Launched(run) \in Nat
      /\ nextIndex + Launched(run) <= N
      /\ nextIndex \in Nat /\ N \in Nat
    BY BatchAssumption DEF Launched, Least
<1>2. \A i \in After : i \in Tasks
    BY <1>1 DEF Tasks
<1>3. /\ nextIndex' \in nextIndex..N
      /\ task' \in [Tasks -> {"waiting", "running"} \cup Outcomes]
    BY <1>1 DEF RunNext
<1>4. \A i \in Tasks : task'[i] = "waiting" <=> i > nextIndex'
    BY <1>1 DEF RunNext, Tasks
<1>5. InFlight' = Before \cup After
    BY <1>2 DEF InFlight, RunNext, RunningIn
<1>6. Before \cap After = {}
    BY <1>1, <1>2 DEF Tasks, RunningIn
<1>7. IsFiniteSet(Before) /\ Cardinality(Before) \in Nat
    BY TasksFinite DEF RunningIn
<1>8. IsFiniteSet(After) /\ Cardinality(After) = Launched(run)
    BY <1>1, IntervalCardinality
<1>9. running' = Cardinality(InFlight')
  <2>1. Cardinality(InFlight') =
            Cardinality(Before) + Cardinality(After) - Cardinality(Before \cap After)
      BY <1>5, <1>7, <1>8, FS_Union
  <2>2. Cardinality(Before \cap After) = 0
      BY <1>6, FS_EmptySet
  <2>. QED
      BY <1>1, <1>7, <1>8, <2>1, <2>2 DEF RunNext
<1>. QED
    BY <1>1, <1>3, <1>4, <1>9

LEMMA InitHolds == Init => IInv
<1>. SUFFICES ASSUME Init PROVE IInv
    OBVIOUS
<1>1. InFlight = {}
    BY DEF Init, InFlight
<1>2. TypeOK
    BY BatchAssumption DEF Init, TypeOK
<1>3. Taken
    BY DEF Init, Taken, Tasks
<1>4. ConcurrencyBound
    BY <1>1, BatchAssumption, FS_EmptySet DEF ConcurrencyBound
<1>. QED
    BY <1>2, <1>3, <1>4
    DEF Init, IInv, Uncalled, Counters, Slots, NothingLeft, Outcomes

LEMMA StepHolds == IInv /\ [Next]_vars => IInv'
<1>. SUFFICES ASSUME TypeOK, Taken, Uncalled, Counters, Slots, NothingLeft,
                     ConcurrencyBound, [Next]_vars
              PROVE  IInv'
    BY DEF IInv
<1>. USE DEF TypeOK
<1>1. CASE Call
  <2>1. nextIndex = 0 /\ completed = 0 /\ promise = "uncalled"
      BY <1>1 DEF Call, Uncalled
  <2>2. RunningIn(task) = {}
      BY <2>1 DEF Taken, Tasks, RunningIn
  <2>3. Cardinality(RunningIn(task)) = 0
      BY <2>2, FS_EmptySet
  <2>4. /\ Launched(0) \in Nat
        /\ nextIndex' \in nextIndex..N
        /\ task' \in [Tasks -> {"waiting", "running"} \cup Outcomes]
        /\ \A i \in Tasks : task'[i] = "waiting" <=> i > nextIndex'
        /\ running' = Cardinality(InFlight')
      BY <1>1, <2>3, RunNextCounts, BatchAssumption DEF Call, Taken
  <2>5. /\ nextIndex' = running'
        /\ running' = Least(MaxConcurrent, N)
        /\ running' \in 0..N
      BY <1>1, <2>1, <2>4, BatchAssumption DEF Call, RunNext, Launched, Least
  <2>6. \A i \in Tasks : task'[i] \notin Outcomes
      BY <1>1, <2>1 DEF Call, RunNext, Taken, Outcomes, Tasks
  <2>7. TypeOK' /\ Taken' /\ Uncalled'
      BY <1>1, <2>1, <2>4, <2>5, BatchAssumption DEF Call, Taken, Uncalled
  <2>8. Counters' /\ ConcurrencyBound'
      BY <1>1, <2>1, <2>4, <2>5, BatchAssumption
      DEF Call, Counters, ConcurrencyBound, Least
  <2>9. Slots'
      BY <2>6 DEF Slots
  <2>10. NothingLeft'
      BY <1>1 DEF Call, NothingLeft, Tasks
  <2>. QED
      BY <2>7, <2>8, <2>9, <2>10 DEF IInv
<1>2. CASE \E i \in Tasks, o \in Outcomes : Complete(i, o)
  <2>. PICK i \in Tasks, o \in Outcomes : Complete(i, o)
      BY <1>2
  <2> DEFINE t == [task EXCEPT ![i] = o]
             Rest == RunningIn(t)
  <2>1. /\ promise = "pending" /\ task[i] = "running"
        /\ settled \/ o = "fulfilled"
        /\ results' = [results EXCEPT ![i] = o]
        /\ completed' = completed + 1 /\ settled' = settled
      BY DEF Complete, Record
  <2>2. /\ t \in [Tasks -> {"waiting", "running"} \cup Outcomes]
        /\ \A j \in Tasks : t[j] = "waiting" <=> j > nextIndex
        /\ Rest = InFlight \ {i} /\ i \in InFlight
      BY <2>1 DEF Taken, Outcomes, InFlight, RunningIn
  <2>3. /\ running \in 1..N
        /\ Cardinality(Rest) = running - 1
        /\ running = Cardinality(InFlight)
        /\ running <= MaxConcurrent
        /\ completed < N /\ running + completed = nextIndex
        /\ running = Least(MaxConcurrent, N - completed)
    <3>1. IsFiniteSet(InFlight) /\ Cardinality(Rest) \in Nat
        BY TasksFinite DEF InFlight, RunningIn
    <3>2. Cardinality(Rest) = Cardinality(InFlight) - 1
        BY <2>2, <3>1, FS_RemoveElement
    <3>. QED
        BY <2>1, <3>1, <3>2, BatchAssumption DEF Counters, Least
  <2>4. /\ results' \in [Tasks -> {"empty"} \cup Outcomes]
        /\ completed' \in 0..N /\ settled' \in BOOLEAN
      BY <2>1, <2>3, BatchAssumption
  <2>5. \A j \in Tasks : t[j] \in Outcomes =>
            results'[j] = t[j] /\ (settled' \/ t[j] = "fulfilled")
      BY <2>1 DEF Slots
  <2>6. CASE completed + 1 = N
    <3>1. /\ promise' = "resolved" /\ running' = running - 1
          /\ task' = t /\ nextIndex' = nextIndex
        BY <2>6 DEF Complete
    <3>2. Rest = {} /\ nextIndex = N
      <4>1. running = 1 /\ nextIndex = N
          BY <2>3, <2>6, BatchAssumption
      <4>. QED
          BY <2>3, <4>1, TasksFinite, FS_EmptySet DEF RunningIn
    <3>3. NothingLeft'
        BY <2>2, <3>1, <3>2, BatchAssumption DEF NothingLeft, Tasks, RunningIn
    <3>4. InFlight' = Rest
        BY <3>1 DEF InFlight, RunningIn
    <3>5. ConcurrencyBound'
        BY <2>3, <3>4, BatchAssumption DEF ConcurrencyBound
    <3>6. TypeOK'
        BY <2>2, <2>3, <2>4, <3>1, BatchAssumption
    <3>. QED
        BY <2>2, <2>5, <3>1, <3>3, <3>5, <3>6
        DEF IInv, Taken, Uncalled, Counters, Slots
  <2>7. CASE completed + 1 # N
    <3>1. promise' = "pending" /\ RunNext(running - 1, t)
        BY <2>7 DEF Complete
    <3>2. /\ Launched(running - 1) \in Nat
          /\ nextIndex' \in nextIndex..N
          /\ task' \in [Tasks -> {"waiting", "running"} \cup Outcomes]
          /\ \A j \in Tasks : task'[j] = "waiting" <=> j > nextIndex'
          /\ running' = Cardinality(InFlight')
      <4>1. /\ running - 1 \in Nat /\ running - 1 <= MaxConcurrent
            /\ running - 1 = Cardinality(RunningIn(t))
          BY <2>3, BatchAssumption
      <4>2. nextIndex \in 0..N
          OBVIOUS
      <4>. HIDE DEF t, Rest, TypeOK
      <4>. QED
          BY <2>2, <3>1, <4>1, <4>2, RunNextCounts
    <3>3. /\ nextIndex' = nextIndex + Launched(running - 1)
          /\ running' = running - 1 + Launched(running - 1)
        BY <3>1 DEF RunNext
    <3>4. /\ running' = Least(MaxConcurrent, N - completed')
          /\ running' + completed' = nextIndex'
          /\ completed' < N
        BY <2>1, <2>3, <2>7, <3>3, BatchAssumption DEF Launched, Least
    <3>5. TypeOK'
      <4>1. nextIndex' \in 0..N /\ completed' \in 0..N
          BY <2>4, <3>2, BatchAssumption
      <4>2. N - completed' \in 1..N
          BY <2>1, <2>3, <2>7, BatchAssumption
      <4>3. running' \in 0..N
          BY <3>4, <4>2, BatchAssumption, LeastBounds
      <4>. QED
          BY <2>4, <3>1, <3>2, <4>1, <4>3
    <3>6. Counters' /\ ConcurrencyBound'
      <4>1. N - completed' \in Int
          BY <2>4, BatchAssumption
      <4>2. running' <= MaxConcurrent
          BY <3>4, <4>1, BatchAssumption, LeastBounds
      <4>. QED
          BY <3>2, <3>4, <4>2 DEF Counters, ConcurrencyBound
    <3>7. \A j \in Tasks : task'[j] \in Outcomes => task'[j] = t[j]
        BY <3>1 DEF RunNext, Outcomes
    <3>. QED
        BY <2>5, <3>1, <3>2, <3>5, <3>6, <3>7
        DEF IInv, Taken, Uncalled, Slots, NothingLeft
  <2>. QED
      BY <2>6, <2>7
<1>3. CASE \E i \in Tasks : Reject(i)
  <2>. PICK i \in Tasks : Reject(i)
      BY <1>3
  <2>1. InFlight' \subseteq InFlight
      BY DEF Reject, InFlight
  <2>2. ConcurrencyBound'
      BY <2>1, TasksFinite, FS_Subset, BatchAssumption
      DEF ConcurrencyBound, InFlight
  <2>. QED
      BY <2>2
      DEF IInv, Reject, Taken, Uncalled, Counters, Slots, NothingLeft, Outcomes
<1>4. CASE \E i \in Tasks, o \in Outcomes : Late(i, o)
  <2>. PICK i \in Tasks, o \in Outcomes : Late(i, o)
      BY <1>4
  <2>1. InFlight' \subseteq InFlight
      BY DEF Late, InFlight, Outcomes
  <2>2. ConcurrencyBound'
      BY <2>1, TasksFinite, FS_Subset, BatchAssumption
      DEF ConcurrencyBound, InFlight
  <2>. QED
      BY <2>2
      DEF IInv, Late, Taken, Uncalled, Counters, Slots, NothingLeft, Outcomes
<1>5. CASE UNCHANGED vars
    BY <1>5 DEF IInv, vars, Taken, Uncalled, Counters, Slots, NothingLeft,
                ConcurrencyBound, InFlight
<1>. QED
    BY <1>1, <1>2, <1>3, <1>4, <1>5 DEF Next

THEOREM Invariance == Spec => []IInv
    BY InitHolds, StepHolds, PTL DEF Spec

-----------------------------------------------------------------------------
\* A batch of any size, under any limit, never has more tasks running than the
\* limit allows (the semaphore of execute and executeSettled).
THEOREM BoundHolds == Spec => []ConcurrencyBound
<1>1. IInv => ConcurrencyBound
    BY DEF IInv
<1>. QED
    BY <1>1, Invariance, PTL

\* While the caller waits, as many tasks run as the limit and the list allow:
\* every continuation refills the slot that it frees.
THEOREM NeverIdle == Spec => []NoIdleSlot
<1>1. IInv => NoIdleSlot
    BY DEF IInv, NoIdleSlot, Counters
<1>. QED
    BY <1>1, Invariance, PTL

\* A resolved batch holds, in every slot, the outcome of that slot's task.
THEOREM CompleteWhenResolved == Spec => []ResolvedIsComplete
<1>1. IInv => ResolvedIsComplete
    BY DEF IInv, TypeOK, ResolvedIsComplete, NothingLeft, Slots, Outcomes
<1>. QED
    BY <1>1, Invariance, PTL

\* Limit, use of the slots and completeness of the answer together, as the run checks them.
THEOREM BatchSafety == Spec => []BatchIsSafe
<1>1. ConcurrencyBound /\ NoIdleSlot /\ ResolvedIsComplete => BatchIsSafe
    BY DEF BatchIsSafe
<1>. QED
    BY <1>1, BoundHolds, NeverIdle, CompleteWhenResolved, PTL

\* After the answer no task is launched.
THEOREM NothingAfterSettlement == Spec => NoLaunchAfterSettlement
<1>1. IInv /\ [Next]_vars =>
        ((promise \in {"resolved", "rejected"}) => nextIndex' = nextIndex)
    BY DEF Next, vars, Call, Complete, Reject, Late
<1>. QED
    BY <1>1, Invariance, PTL DEF Spec, NoLaunchAfterSettlement

-----------------------------------------------------------------------------
(***************************************************************************)
(* MCP clients.                                                            *)
(***************************************************************************)
(***************************************************************************)
(* The bootstrap: whose turn it is, and what has been kept so far.            *)
(***************************************************************************)
Of(a) == {<<a, s>> : s \in ToSet(plan.servers[a])}
Answering(a) == {<<a, s>> : s \in ToSet(plan.servers[a]) \ (plan.refuses \cup plan.unlisted)}
Tried(n) == {<<Person, Servers[j]>> :
                j \in {k \in 1..n : Servers[k] \notin plan.refuses \cup plan.unlisted}}

Had(i) == i < boot.agent \/ ~Booting
Connected == {plan.agents[i] : i \in {j \in DOMAIN plan.agents : Had(j)}}

BootInv ==
    /\ SoundPlan(plan)
    /\ boot \in [agent : DOMAIN plan.agents, server : Nat, at : {"connect", "list", "done"},
                 kept : Seq(Of(Person))]
    /\ boot.server \in 1..Len(Servers)
    /\ IF Booting THEN ToSet(boot.kept) = Tried(boot.server - 1) ELSE boot.kept = <<>>
    /\ boot.at = "list" => Client[2] \notin plan.refuses

\* Who has been connected has the tools of the servers that answered.
ToolsInv ==
    /\ DOMAIN tools = Connected
    /\ \A a \in Connected : tools[a] = Answering(a)
    /\ DOMAIN connections \subseteq Connected
    /\ \A a \in DOMAIN connections : /\ connections[a] \in Seq(Of(a))
                                     /\ ToSet(connections[a]) = Answering(a)

(***************************************************************************)
(* Whatever is open is held by the manager or by the connectAgent that runs,   *)
(* or has failed to list its tools.                                          *)
(***************************************************************************)
Stopped == world \in {"disconnecting", "left"}

OpenInv ==
    /\ world \in {"bootstrapping", "running", "disconnecting", "left"}
    /\ DOMAIN open = {"client", "transport"}
    /\ open.client \subseteq open.transport
    /\ \A c \in open.transport : c[2] \notin plan.refuses
    /\ ~Stopped =>
          /\ DOMAIN closing = {}
          /\ boot.at = "list" => Client \in open.client
          /\ ToSet(boot.kept) \subseteq open.client
          /\ \A a \in Connected : /\ Answering(a) # {} => a \in DOMAIN connections
                                  /\ Answering(a) \subseteq open.client
          /\ \A c \in open.transport :
                \/ c[2] \in plan.unlisted
                \/ c[1] \in DOMAIN connections /\ c \in Answering(c[1])
                \/ Booting /\ c \in Of(Person)

\* During a stop: what is left open has been tried, waits for its turn, or was not held.
ClosingInv ==
    /\ DOMAIN closing \subseteq DOMAIN connections
    /\ \A a \in DOMAIN closing :
          /\ closing[a] \in [left : Seq(Of(a)), at : {"client", "transport"}]
          /\ closing[a].at = "transport" =>
                closing[a].left # <<>> /\ Head(closing[a].left) \notin open.client
    /\ Stopped =>
          /\ \A i \in DOMAIN plan.agents : ~Had(i) => Of(plan.agents[i]) \subseteq unheld
          /\ \A a \in DOMAIN connections : a \in DOMAIN closing \/ Answering(a) \subseteq unheld
          /\ \A c \in open.transport :
                \/ c[2] \in plan.unlisted
                \/ c \in broken \cup unheld
                \/ c[1] \in DOMAIN closing /\ c \in ToSet(closing[c[1]].left)
    /\ world = "left" => DOMAIN closing = {}

ClientsInv == BootInv /\ ToolsInv /\ OpenInv /\ ClosingInv

-----------------------------------------------------------------------------
(***************************************************************************)
(* Sequences and the sets of their elements.                                *)
(***************************************************************************)
LEMMA Elements ==
    ASSUME NEW S, NEW s \in Seq(S)
    PROVE  /\ ToSet(s) \subseteq S
           /\ s = <<>> <=> ToSet(s) = {}
           /\ \A e \in S : Append(s, e) \in Seq(S) /\ ToSet(Append(s, e)) = ToSet(s) \cup {e}
           /\ s # <<>> => /\ Head(s) \in ToSet(s) /\ Tail(s) \in Seq(S)
                          /\ ToSet(s) = {Head(s)} \cup ToSet(Tail(s))
<1>1. /\ Len(s) \in Nat /\ DOMAIN s = 1..Len(s) /\ \A i \in 1..Len(s) : s[i] \in S
      /\ s = <<>> <=> Len(s) = 0
    OBVIOUS
<1>2. ToSet(s) \subseteq S
    BY <1>1 DEF ToSet
<1>3. s = <<>> <=> ToSet(s) = {}
  <2>1. Len(s) # 0 => 1 \in DOMAIN s
      BY <1>1
  <2>. QED
      BY <1>1, <2>1 DEF ToSet
<1>4. ASSUME NEW e \in S
      PROVE  Append(s, e) \in Seq(S) /\ ToSet(Append(s, e)) = ToSet(s) \cup {e}
  <2>. DEFINE t == Append(s, e)
  <2>1. /\ t \in Seq(S) /\ DOMAIN t = 1..(Len(s) + 1) /\ t[Len(s) + 1] = e
        /\ \A i \in 1..Len(s) : t[i] = s[i]
      OBVIOUS
  <2>2. /\ Len(s) + 1 \in DOMAIN t /\ \A i \in DOMAIN s : i \in DOMAIN t
        /\ \A i \in DOMAIN t : i \in DOMAIN s \/ i = Len(s) + 1
      BY <1>1, <2>1
  <2>. HIDE DEF t
  <2>3. \A i \in DOMAIN s : t[i] = s[i]
      BY <1>1, <2>1
  <2>4. ToSet(t) = ToSet(s) \cup {e}
      BY <2>1, <2>2, <2>3 DEF ToSet
  <2>. QED
      BY <2>1, <2>4 DEF t
<1>5. ASSUME s # <<>>
      PROVE  /\ Head(s) \in ToSet(s) /\ Tail(s) \in Seq(S)
             /\ ToSet(s) = {Head(s)} \cup ToSet(Tail(s))
  <2>. DEFINE t == Tail(s)
  <2>1. /\ 1 \in DOMAIN s /\ Head(s) = s[1] /\ t \in Seq(S)
        /\ DOMAIN t = 1..(Len(s) - 1) /\ \A i \in 1..(Len(s) - 1) : t[i] = s[i + 1]
      BY <1>1, <1>5
  <2>2. /\ \A i \in DOMAIN s : i = 1 \/ (i - 1 \in DOMAIN t /\ (i - 1) + 1 = i)
        /\ \A i \in DOMAIN t : i + 1 \in DOMAIN s
      BY <1>1, <2>1
  <2>. HIDE DEF t
  <2>3. ToSet(s) \subseteq {Head(s)} \cup ToSet(t)
    <3>. SUFFICES ASSUME NEW i \in DOMAIN s PROVE s[i] = Head(s) \/ s[i] \in ToSet(t)
        BY DEF ToSet
    <3>1. CASE i = 1
        BY <2>1, <3>1
    <3>2. CASE i - 1 \in DOMAIN t /\ (i - 1) + 1 = i
      <4>1. t[i - 1] = s[i]
          BY <2>1, <3>2
      <4>. QED
          BY <3>2, <4>1 DEF ToSet
    <3>. QED
        BY <2>2, <3>1, <3>2
  <2>4. {Head(s)} \cup ToSet(t) \subseteq ToSet(s)
      BY <2>1, <2>2 DEF ToSet
  <2>. QED
      BY <2>1, <2>3, <2>4 DEF t, ToSet
<1>. QED
    BY <1>2, <1>3, <1>4, <1>5

LEMMA NoElements == ToSet(<<>>) = {} /\ \A S : <<>> \in Seq(S)
BY DEF ToSet

-----------------------------------------------------------------------------
(***************************************************************************)
(* Agents and their turns.                                                  *)
(***************************************************************************)
\* Whose turn it is has not been connected; of all others nothing depends on it.
LEMMA EveryTurn ==
    ASSUME BootInv
    PROVE  /\ Len(plan.agents) \in Nat /\ DOMAIN plan.agents = 1..Len(plan.agents)
           /\ boot.agent \in 1..Len(plan.agents) /\ Person = plan.agents[boot.agent]
           /\ Len(Servers) \in Nat /\ DOMAIN Servers = 1..Len(Servers)
           /\ boot.server \in 1..Len(Servers)
           /\ Servers = plan.servers[Person] /\ Client \in Of(Person) /\ Client[1] = Person
           /\ Booting => Person \notin Connected
<1>1. /\ plan.agents \in Seq(Agents) /\ boot.agent \in DOMAIN plan.agents
      /\ \A i, j \in DOMAIN plan.agents : plan.agents[i] = plan.agents[j] => i = j
    BY DEF BootInv, SoundPlan
<1>2. /\ Len(plan.agents) \in Nat /\ DOMAIN plan.agents = 1..Len(plan.agents)
      /\ Person = plan.agents[boot.agent]
    BY <1>1 DEF Person
<1>3. Person \in ToSet(plan.agents)
    BY <1>1, <1>2 DEF ToSet
<1>4. Len(Servers) \in Nat /\ DOMAIN Servers = 1..Len(Servers)
    BY <1>3 DEF BootInv, SoundPlan, Servers
<1>5. boot.server \in 1..Len(Servers)
    BY DEF BootInv
<1>6. Client \in Of(Person) /\ Client[1] = Person
    BY <1>4, <1>5 DEF Client, Of, Servers, ToSet
<1>7. Booting => Person \notin Connected
  <2>1. \A j \in DOMAIN plan.agents : Booting /\ Had(j) => j # boot.agent
      BY <1>1, <1>2 DEF Had
  <2>. QED
      BY <1>1, <1>2, <2>1 DEF Connected
<1>. QED
    BY <1>1, <1>2, <1>4, <1>5, <1>6, <1>7 DEF Servers

LEMMA ClientsStart == ClientsInit => ClientsInv
<1>. SUFFICES ASSUME ClientsInit PROVE ClientsInv
    OBVIOUS
<1>1. /\ boot = [agent |-> 1, server |-> 1, at |-> "connect", kept |-> <<>>]
      /\ open = [client |-> {}, transport |-> {}] /\ connections = <<>> /\ tools = <<>>
      /\ closing = <<>> /\ world = "bootstrapping" /\ SoundPlan(plan)
    BY PlansAreSound DEF ClientsInit
<1>2. DOMAIN connections = {} /\ DOMAIN tools = {} /\ DOMAIN closing = {}
  <2>1. DOMAIN <<>> = {}
      OBVIOUS
  <2>. QED
      BY <1>1, <2>1
<1>3. 1 \in DOMAIN plan.agents
    BY <1>1 DEF SoundPlan
<1>4. Person = plan.agents[1] /\ Person \in ToSet(plan.agents) /\ Servers = plan.servers[Person]
    BY <1>1, <1>3 DEF Person, Servers, ToSet
<1>5. 1 \in 1..Len(Servers)
    BY <1>1, <1>4 DEF SoundPlan
<1>6. Connected = {}
  <2>1. \A j \in DOMAIN plan.agents : ~Had(j)
      BY <1>1 DEF Had, Booting, SoundPlan
  <2>. QED
      BY <2>1 DEF Connected
<1>7. Tried(boot.server - 1) = {}
    BY <1>1 DEF Tried
<1>8. BootInv
    BY <1>1, <1>3, <1>5, <1>7, NoElements DEF BootInv, Booting
<1>9. ToolsInv
    BY <1>2, <1>6 DEF ToolsInv
<1>10. OpenInv
    BY <1>1, <1>2, <1>6, NoElements DEF OpenInv, Stopped
<1>11. ClosingInv
    BY <1>1, <1>2 DEF ClosingInv, Stopped
<1>. QED
    BY <1>8, <1>9, <1>10, <1>11 DEF ClientsInv

-----------------------------------------------------------------------------
(***************************************************************************)
(* The end of a server's turn.                                              *)
(***************************************************************************)
\* Another server of the same agent, or its tools and the next agent.
LEMMA ServerDone ==
    ASSUME ClientsInv, Booting, NEW kept \in Seq(Of(Person)), ToSet(kept) = Tried(boot.server),
           ~Stopped => ToSet(kept) \subseteq open.client, NextServer(kept),
           UNCHANGED <<plan, open, closing, world, unheld, broken>>
    PROVE  ClientsInv'
<1>. USE DEF ClientsInv
<1>0. /\ Len(plan.agents) \in Nat /\ DOMAIN plan.agents = 1..Len(plan.agents)
      /\ boot.agent \in 1..Len(plan.agents) /\ Person = plan.agents[boot.agent]
      /\ Len(Servers) \in Nat /\ DOMAIN Servers = 1..Len(Servers)
      /\ boot.server \in 1..Len(Servers)
      /\ Servers = plan.servers[Person] /\ Person \notin Connected
    BY EveryTurn
<1>1. \A a : Of(a)' = Of(a) /\ Answering(a)' = Answering(a)
    BY DEF Of, Answering
<1>2. SoundPlan(plan)' /\ (Stopped' <=> Stopped)
    BY DEF BootInv, SoundPlan, Stopped
<1>3. boot \in [agent : DOMAIN plan.agents, server : Nat, at : {"connect", "list", "done"},
                kept : Seq(Of(Person))]
    BY DEF BootInv
<1>4. CASE boot.server < Len(Servers)
  <2>1. /\ boot' = [boot EXCEPT !.server = @ + 1, !.at = "connect", !.kept = kept]
        /\ UNCHANGED <<connections, tools>>
      BY <1>4 DEF NextServer
  <2>2. /\ boot'.agent = boot.agent /\ boot'.server = boot.server + 1
        /\ boot'.at = "connect" /\ boot'.kept = kept
      BY <1>3, <2>1
  <2>3. Person' = Person /\ Servers' = Servers /\ Booting'
      BY <2>2 DEF Person, Servers, Booting
  <2>4. (\A i : Had(i)' <=> Had(i)) /\ Connected' = Connected
    <3>1. \A i : Had(i)' <=> Had(i)
        BY <2>2, <2>3 DEF Had
    <3>. QED
        BY <3>1 DEF Connected
  <2>5. BootInv'
    <3>1. boot' \in [agent : DOMAIN plan.agents, server : Nat,
                     at : {"connect", "list", "done"}, kept : Seq(Of(Person))]
      <4>1. boot.server + 1 \in Nat
          BY <1>0
      <4>. QED
          BY <1>3, <2>1, <4>1
    <3>2. boot'.server \in 1..Len(Servers) /\ boot'.server - 1 = boot.server
        BY <1>0, <1>4, <2>2
    <3>4. Tried(boot.server - 1)' = Tried(boot.server)
        BY <2>3, <3>2 DEF Tried
    <3>. QED
        BY <1>1, <1>2, <2>2, <2>3, <3>1, <3>2, <3>4 DEF BootInv
  <2>6. ToolsInv'
      BY <1>1, <2>1, <2>4 DEF ToolsInv
  <2>7. OpenInv'
      BY <1>1, <1>2, <2>1, <2>2, <2>3, <2>4 DEF OpenInv
  <2>8. ClosingInv'
      BY <1>1, <1>2, <2>1, <2>4 DEF ClosingInv
  <2>. QED
      BY <2>5, <2>6, <2>7, <2>8
<1>5. CASE ~(boot.server < Len(Servers))
  <2>1. /\ connections' = IF kept = <<>> THEN connections ELSE Set(connections, Person, kept)
        /\ tools' = Set(tools, Person, ToSet(kept))
        /\ boot' = IF boot.agent < Len(plan.agents)
                   THEN [agent |-> boot.agent + 1, server |-> 1, at |-> "connect", kept |-> <<>>]
                   ELSE [boot EXCEPT !.at = "done", !.kept = <<>>]
      BY <1>5 DEF NextServer
  <2>2. boot.server = Len(Servers)
      BY <1>0, <1>5
  <2>3. ToSet(kept) = Answering(Person)
    <3>1. ToSet(kept) = {<<Person, Servers[j]>> : j \in
              {k \in DOMAIN Servers : Servers[k] \notin plan.refuses \cup plan.unlisted}}
        BY <1>0, <2>2 DEF Tried
    <3>2. Answering(Person) = {<<Person, s>> : s \in {Servers[k] : k \in DOMAIN Servers}
                                                      \ (plan.refuses \cup plan.unlisted)}
        BY <1>0 DEF Answering, ToSet
    <3>. QED
        BY <3>1, <3>2
  <2>4. boot'.kept = <<>> /\ boot'.at # "list"
      BY <1>3, <2>1
  <2>5. \A i \in DOMAIN plan.agents : Had(i)' <=> (Had(i) \/ i = boot.agent)
    <3>1. CASE boot.agent < Len(plan.agents)
      <4>1. boot'.agent = boot.agent + 1 /\ Booting'
          BY <2>1, <3>1 DEF Booting
      <4>. QED
          BY <1>0, <4>1 DEF Had
    <3>2. CASE ~(boot.agent < Len(plan.agents))
      <4>1. boot'.agent = boot.agent /\ ~Booting'
          BY <1>3, <2>1, <3>2 DEF Booting
      <4>. QED
          BY <1>0, <3>2, <4>1 DEF Had
    <3>. QED
        BY <3>1, <3>2
  <2>6. Connected' = Connected \cup {Person}
      BY <1>0, <2>5 DEF Connected
  <2>7. BootInv'
    <3>1. CASE boot.agent < Len(plan.agents)
      <4>1. /\ boot' = [agent |-> boot.agent + 1, server |-> 1, at |-> "connect", kept |-> <<>>]
            /\ Booting' /\ boot.agent + 1 \in DOMAIN plan.agents
          BY <1>0, <2>1, <3>1 DEF Booting
      <4>2. Person' \in ToSet(plan.agents)
          BY <4>1 DEF Person, ToSet
      <4>3. boot'.server \in 1..Len(Servers')
          BY <4>1, <4>2 DEF Servers, BootInv, SoundPlan
      <4>4. Tried(boot.server - 1)' = {}
          BY <4>1 DEF Tried
      <4>. QED
          BY <1>2, <4>1, <4>3, <4>4, NoElements DEF BootInv
    <3>2. CASE ~(boot.agent < Len(plan.agents))
      <4>1. /\ boot' = [boot EXCEPT !.at = "done", !.kept = <<>>] /\ ~Booting'
            /\ boot'.agent = boot.agent /\ boot'.server = boot.server
          BY <1>3, <2>1, <3>2 DEF Booting
      <4>2. Person' = Person /\ Servers' = Servers
          BY <4>1 DEF Person, Servers
      <4>3. boot' \in [agent : DOMAIN plan.agents, server : Nat,
                       at : {"connect", "list", "done"}, kept : Seq(Of(Person))]
          BY <1>3, <4>1, NoElements
      <4>. QED
          BY <1>0, <1>1, <1>2, <2>4, <4>1, <4>2, <4>3 DEF BootInv
    <3>. QED
        BY <3>1, <3>2
  <2>8. kept = <<>> <=> Answering(Person) = {}
      BY <2>3, Elements
  <2>9. /\ DOMAIN connections' = IF kept = <<>> THEN DOMAIN connections
                                 ELSE DOMAIN connections \cup {Person}
        /\ \A a \in DOMAIN connections : connections'[a] = connections[a]
        /\ kept # <<>> => connections'[Person] = kept
        /\ Person \notin DOMAIN connections
      BY <1>0, <2>1 DEF Set, ToolsInv
  <2>10. /\ DOMAIN tools' = DOMAIN tools \cup {Person}
         /\ \A a \in DOMAIN tools : tools'[a] = tools[a]
         /\ tools'[Person] = ToSet(kept)
      BY <1>0, <2>1 DEF Set, ToolsInv
  <2>11. ToolsInv'
      BY <1>1, <2>3, <2>6, <2>9, <2>10 DEF ToolsInv
  <2>12. OpenInv'
    <3>1. ~Stopped => \A c \in open.transport :
              \/ c[2] \in plan.unlisted
              \/ c[1] \in DOMAIN connections' /\ c \in Answering(c[1])
      <4>. SUFFICES ASSUME ~Stopped, NEW c \in open.transport, c \in Of(Person),
                           c[2] \notin plan.unlisted
                    PROVE  c[1] \in DOMAIN connections' /\ c \in Answering(c[1])
          BY <2>9 DEF OpenInv
      <4>1. c[1] = Person /\ c \in Answering(Person)
          BY DEF OpenInv, Of, Answering
      <4>. QED
          BY <2>8, <2>9, <4>1
    <3>2. ~Stopped => \A a \in Connected' : /\ Answering(a) # {} => a \in DOMAIN connections'
                                            /\ Answering(a) \subseteq open.client
        BY <2>3, <2>6, <2>8, <2>9 DEF OpenInv
    <3>. QED
        BY <1>1, <1>2, <2>4, <3>1, <3>2, NoElements DEF OpenInv
  <2>13. ClosingInv'
    <3>1. Stopped => Of(Person) \subseteq unheld
        BY <1>0 DEF ClosingInv, Had
    <3>2. Answering(Person) \subseteq Of(Person)
        BY DEF Answering, Of
    <3>. QED
        BY <1>1, <1>2, <2>5, <2>9, <3>1, <3>2 DEF ClosingInv
  <2>. QED
      BY <2>7, <2>11, <2>12, <2>13
<1>. QED
    BY <1>4, <1>5

-----------------------------------------------------------------------------
(***************************************************************************)
(* The steps.                                                               *)
(***************************************************************************)
\* Trying one more server adds it to those that answered, or not.
LEMMA OneMore ==
    ASSUME BootInv
    PROVE  Tried(boot.server) = Tried(boot.server - 1) \cup
              (IF Client[2] \in plan.refuses \cup plan.unlisted THEN {} ELSE {Client})
<1>1. /\ boot.server \in Nat /\ boot.server >= 1
      /\ \A k : k \in 1..boot.server <=> k \in 1..(boot.server - 1) \/ k = boot.server
    BY EveryTurn
<1>2. Client = <<Person, Servers[boot.server]>> /\ Client[2] = Servers[boot.server]
    BY DEF Client
<1>. QED
    BY <1>1, <1>2 DEF Tried

LEMMA ConnectKeeps == ClientsInv /\ Connect => ClientsInv'
<1>. SUFFICES ASSUME ClientsInv, Connect PROVE ClientsInv'
    OBVIOUS
<1>. USE DEF ClientsInv
<1>0. boot.at = "connect" /\ Booting /\ UNCHANGED <<plan, closing, world, unheld, broken>>
    BY DEF Connect, Booting
<1>1. /\ boot \in [agent : DOMAIN plan.agents, server : Nat, at : {"connect", "list", "done"},
                   kept : Seq(Of(Person))]
      /\ ToSet(boot.kept) = Tried(boot.server - 1)
    BY <1>0 DEF BootInv
<1>2. CASE Client[2] \in plan.refuses
  <2>1. NextServer(boot.kept) /\ UNCHANGED open
      BY <1>2 DEF Connect
  <2>2. boot.kept \in Seq(Of(Person)) /\ ToSet(boot.kept) = Tried(boot.server)
      BY <1>1, <1>2, OneMore
  <2>3. ~Stopped => ToSet(boot.kept) \subseteq open.client
      BY DEF OpenInv
  <2>. QED
      BY <1>0, <2>1, <2>2, <2>3, ServerDone
<1>3. CASE Client[2] \notin plan.refuses
  <2>1. /\ open' = [client |-> open.client \cup {Client},
                    transport |-> open.transport \cup {Client}]
        /\ boot' = [boot EXCEPT !.at = "list"] /\ UNCHANGED <<connections, tools>>
      BY <1>3 DEF Connect
  <2>2. /\ boot'.agent = boot.agent /\ boot'.server = boot.server /\ boot'.kept = boot.kept
        /\ boot'.at = "list" /\ Booting'
      BY <1>1, <2>1 DEF Booting
  <2>3. /\ Person' = Person /\ Servers' = Servers /\ (Stopped' <=> Stopped)
        /\ \A a : Of(a)' = Of(a) /\ Answering(a)' = Answering(a)
      BY <1>0, <2>2 DEF Person, Servers, Stopped, Of, Answering
  <2>4. Client' = Client
      BY <2>2, <2>3 DEF Client
  <2>5. (\A i : Had(i)' <=> Had(i)) /\ Connected' = Connected
    <3>1. \A i : Had(i)' <=> Had(i)
        BY <1>0, <2>2 DEF Had
    <3>. QED
        BY <1>0, <3>1 DEF Connected
  <2>6. Tried(boot.server - 1)' = Tried(boot.server - 1)
      BY <1>0, <2>2, <2>3 DEF Tried
  <2>7. BootInv'
    <3>1. boot' \in [agent : DOMAIN plan.agents, server : Nat,
                     at : {"connect", "list", "done"}, kept : Seq(Of(Person))]
        BY <1>1, <2>1
    <3>2. SoundPlan(plan)' /\ boot'.server \in 1..Len(Servers)
        BY <1>0, <2>2 DEF BootInv, SoundPlan
    <3>. QED
        BY <1>0, <1>1, <1>3, <2>2, <2>3, <2>4, <2>6, <3>1, <3>2 DEF BootInv
  <2>8. ToolsInv'
      BY <1>0, <2>1, <2>3, <2>5 DEF ToolsInv
  <2>9. Client \in Of(Person) /\ Client[1] = Person /\ Person \notin Connected
      BY <1>0, EveryTurn
  <2>10. OpenInv'
    <3>1. /\ DOMAIN open' = {"client", "transport"}
          /\ open'.client = open.client \cup {Client}
          /\ open'.transport = open.transport \cup {Client}
        BY <2>1
    <3>. QED
        BY <1>0, <1>3, <2>1, <2>2, <2>3, <2>4, <2>5, <2>9, <3>1 DEF OpenInv
  <2>11. ClosingInv'
    <3>1. \A a \in DOMAIN closing : closing[a].at = "transport" =>
              Head(closing[a].left) # Client
      <4>. SUFFICES ASSUME NEW a \in DOMAIN closing, closing[a].at = "transport"
                    PROVE  Head(closing[a].left) # Client
          OBVIOUS
      <4>1. closing[a].left \in Seq(Of(a)) /\ closing[a].left # <<>>
          BY DEF ClosingInv
      <4>2. Head(closing[a].left) \in Of(a)
          BY <4>1, Elements
      <4>3. a \in Connected
          BY DEF ClosingInv, ToolsInv
      <4>. QED
          BY <2>9, <4>2, <4>3 DEF Of
    <3>2. Stopped => Client \in unheld
      <4>1. ~Had(boot.agent) /\ boot.agent \in DOMAIN plan.agents
                /\ Person = plan.agents[boot.agent]
          BY <1>0, EveryTurn DEF Had
      <4>. QED
          BY <2>9, <4>1 DEF ClosingInv
    <3>3. /\ open'.client = open.client \cup {Client}
          /\ open'.transport = open.transport \cup {Client}
        BY <2>1
    <3>. QED
        BY <1>0, <2>1, <2>3, <2>5, <3>1, <3>2, <3>3 DEF ClosingInv
  <2>. QED
      BY <2>7, <2>8, <2>10, <2>11
<1>. QED
    BY <1>2, <1>3

LEMMA ListKeeps == ClientsInv /\ List => ClientsInv'
<1>. SUFFICES ASSUME ClientsInv, List PROVE ClientsInv'
    OBVIOUS
<1>. USE DEF ClientsInv
<1>. DEFINE kept == IF Client[2] \in plan.unlisted THEN boot.kept ELSE Append(boot.kept, Client)
<1>0. /\ boot.at = "list" /\ Booting /\ NextServer(kept)
      /\ UNCHANGED <<plan, open, closing, world, unheld, broken>>
    BY DEF List, Booting
<1>1. boot.kept \in Seq(Of(Person)) /\ ToSet(boot.kept) = Tried(boot.server - 1)
    BY <1>0 DEF BootInv
<1>2. Client \in Of(Person) /\ Client[2] \notin plan.refuses
    BY <1>0, EveryTurn DEF BootInv
<1>3. kept \in Seq(Of(Person)) /\ ToSet(kept) = Tried(boot.server)
  <2>1. CASE Client[2] \in plan.unlisted
    <3>1. Tried(boot.server) = Tried(boot.server - 1)
        BY <2>1, OneMore
    <3>. QED
        BY <1>1, <2>1, <3>1
  <2>2. CASE Client[2] \notin plan.unlisted
    <3>1. Tried(boot.server) = Tried(boot.server - 1) \cup {Client}
        BY <1>2, <2>2, OneMore
    <3>2. /\ Append(boot.kept, Client) \in Seq(Of(Person))
          /\ ToSet(Append(boot.kept, Client)) = ToSet(boot.kept) \cup {Client}
        BY <1>1, <1>2, Elements
    <3>. QED
        BY <1>1, <2>2, <3>1, <3>2
  <2>. QED
      BY <2>1, <2>2
<1>4. ~Stopped => ToSet(kept) \subseteq open.client
    BY <1>0, <1>1, <1>2, Elements DEF OpenInv
<1>. HIDE DEF kept
<1>. QED
    BY <1>0, <1>3, <1>4, ServerDone

\* What does not touch the bootstrap leaves what it has done.
LEMMA BootStays ==
    ASSUME ClientsInv, UNCHANGED <<plan, boot, tools>>
    PROVE  /\ BootInv' /\ (Booting' <=> Booting) /\ Person' = Person
           /\ (\A a : Of(a)' = Of(a) /\ Answering(a)' = Answering(a))
           /\ (\A i : Had(i)' <=> Had(i)) /\ Connected' = Connected /\ Client' = Client
<1>1. /\ Person' = Person /\ Servers' = Servers /\ (Booting' <=> Booting)
      /\ \A a : Of(a)' = Of(a) /\ Answering(a)' = Answering(a)
    BY DEF Person, Servers, Of, Answering, Booting
<1>2. Client' = Client /\ \A i : Had(i)' <=> Had(i)
    BY <1>1 DEF Client, Had
<1>3. Connected' = Connected
    BY <1>2 DEF Connected
<1>4. Tried(boot.server - 1)' = Tried(boot.server - 1)
    BY <1>1 DEF Tried
<1>5. SoundPlan(plan)'
    BY DEF ClientsInv, BootInv, SoundPlan
<1>. QED
    BY <1>1, <1>2, <1>3, <1>4, <1>5 DEF ClientsInv, BootInv

LEMMA LaunchKeeps == ClientsInv /\ Launch => ClientsInv'
<1>. SUFFICES ASSUME ClientsInv, Launch PROVE ClientsInv'
    OBVIOUS
<1>. USE DEF ClientsInv
<1>1. /\ world = "bootstrapping" /\ world' = "running"
      /\ UNCHANGED <<plan, boot, open, connections, tools, closing, unheld, broken>>
    BY DEF Launch
<1>2. ~Stopped /\ ~Stopped'
    BY <1>1 DEF Stopped
<1>. QED
    BY <1>1, <1>2, BootStays DEF ToolsInv, OpenInv, ClosingInv

\* disconnectAll takes what the manager holds; whatever else is open is unlisted or
\* belongs to the connectAgent that runs.
LEMMA StopKeeps == ClientsInv /\ Stop => ClientsInv'
<1>. SUFFICES ASSUME ClientsInv, Stop PROVE ClientsInv'
    OBVIOUS
<1>. USE DEF ClientsInv
<1>1. /\ world \in {"bootstrapping", "running"} /\ world' = "disconnecting"
      /\ closing' = [a \in DOMAIN connections |-> [left |-> connections[a], at |-> "client"]]
      /\ unheld' = UNION {{<<a, s>> : s \in ToSet(plan.servers[a])} :
                          a \in {b \in ToSet(plan.agents) : b \notin DOMAIN connections}}
      /\ UNCHANGED <<plan, boot, open, connections, tools, broken>>
    BY DEF Stop
<1>2. ~Stopped /\ Stopped'
    BY <1>1 DEF Stopped
<1>3. \A a \in ToSet(plan.agents) : a \notin DOMAIN connections => Of(a) \subseteq unheld'
    BY <1>1 DEF Of
<1>4. \A i \in DOMAIN plan.agents : ~Had(i) =>
          plan.agents[i] \in ToSet(plan.agents) \ DOMAIN connections
  <2>1. \A i, j \in DOMAIN plan.agents : plan.agents[i] = plan.agents[j] => i = j
      BY DEF BootInv, SoundPlan
  <2>2. \A i \in DOMAIN plan.agents : ~Had(i) => plan.agents[i] \notin Connected
      BY <2>1 DEF Connected
  <2>. QED
      BY <2>2 DEF ToolsInv, ToSet
<1>5. ToolsInv'
    BY <1>1, BootStays DEF ToolsInv
<1>6. OpenInv'
    BY <1>1, <1>2, BootStays DEF OpenInv
<1>7. /\ DOMAIN closing' = DOMAIN connections
      /\ \A a \in DOMAIN connections : closing'[a] = [left |-> connections[a], at |-> "client"]
    BY <1>1
<1>8. \A a \in DOMAIN connections :
          connections[a] \in Seq(Of(a)) /\ ToSet(connections[a]) = Answering(a)
    BY DEF ToolsInv
<1>9. \A c \in open.transport :
          \/ c[2] \in plan.unlisted
          \/ c \in broken' \cup unheld'
          \/ c[1] \in DOMAIN closing' /\ c \in ToSet(closing'[c[1]].left)
  <2>1. Booting => Of(Person) \subseteq unheld'
    <3>1. Booting => ~Had(boot.agent) /\ boot.agent \in DOMAIN plan.agents
              /\ Person = plan.agents[boot.agent]
        BY EveryTurn DEF Had
    <3>. QED
        BY <1>3, <1>4, <3>1
  <2>. QED
      BY <1>2, <1>7, <1>8, <2>1 DEF OpenInv
<1>10. ClosingInv'
    BY <1>1, <1>2, <1>3, <1>4, <1>7, <1>8, <1>9, BootStays DEF ClosingInv
<1>. QED
    BY <1>1, <1>5, <1>6, <1>10, BootStays

\* One client of an agent is closed, or its transport, or neither.
LEMMA CloseKeeps ==
    ASSUME ClientsInv, NEW a \in Agents, CloseClient(a) \/ CloseTransport(a)
    PROVE  ClientsInv'
<1>. USE DEF ClientsInv
<1>. DEFINE left == closing[a].left
            c == Head(left)
<1>0. /\ a \in DOMAIN closing /\ left # <<>>
      /\ UNCHANGED <<plan, boot, connections, tools, world, unheld>>
    BY DEF CloseClient, CloseTransport, Close
<1>1. /\ closing[a] \in [left : Seq(Of(a)), at : {"client", "transport"}]
      /\ left \in Seq(Of(a)) /\ Stopped /\ (Stopped' <=> Stopped)
      /\ closing[a].at = "transport" => c \notin open.client
    BY <1>0 DEF ClosingInv, OpenInv, Stopped
<1>2. Tail(left) \in Seq(Of(a)) /\ ToSet(left) = {c} \cup ToSet(Tail(left)) /\ c[1] = a
  <2>1. c \in Of(a) /\ Tail(left) \in Seq(Of(a)) /\ ToSet(left) = {c} \cup ToSet(Tail(left))
      BY <1>0, <1>1, Elements
  <2>. QED
      BY <2>1 DEF Of
\* The three ways it goes.
<1>3. \/ /\ broken' = broken \cup {c} /\ open' = open
         /\ closing' = [closing EXCEPT ![a] = [left |-> Tail(left), at |-> "client"]]
      \/ /\ broken' = broken /\ closing[a].at = "transport"
         /\ open' = [open EXCEPT !.transport = @ \ {c}]
         /\ closing' = [closing EXCEPT ![a] = [left |-> Tail(left), at |-> "client"]]
      \/ /\ broken' = broken /\ open' = [open EXCEPT !.client = @ \ {c}]
         /\ closing' = [closing EXCEPT ![a] = [left |-> left, at |-> "transport"]]
    BY DEF CloseClient, CloseTransport, Close, AfterFailure
<1>4. DOMAIN open = {"client", "transport"}
    BY DEF OpenInv
<1>5. ToolsInv'
    BY <1>0, BootStays DEF ToolsInv
<1>. HIDE DEF left, c
<1>6. CASE /\ broken' = broken \cup {c} /\ open' = open
           /\ closing' = [closing EXCEPT ![a] = [left |-> Tail(left), at |-> "client"]]
  <2>1. /\ DOMAIN closing' = DOMAIN closing
        /\ closing'[a] = [left |-> Tail(left), at |-> "client"]
        /\ \A b \in DOMAIN closing \ {a} : closing'[b] = closing[b]
      BY <1>0, <1>6
  <2>2. OpenInv'
      BY <1>0, <1>1, <1>6, BootStays DEF OpenInv
  <2>3. ClosingInv'
    <3>1. \A b \in DOMAIN closing' :
              /\ closing'[b] \in [left : Seq(Of(b)), at : {"client", "transport"}]
              /\ closing'[b].at = "transport" =>
                    closing'[b].left # <<>> /\ Head(closing'[b].left) \notin open'.client
        BY <1>2, <1>6, <2>1 DEF ClosingInv
    <3>2. \A d \in open'.transport :
              \/ d[2] \in plan.unlisted
              \/ d \in broken' \cup unheld
              \/ d[1] \in DOMAIN closing' /\ d \in ToSet(closing'[d[1]].left)
        BY <1>1, <1>2, <1>6, <2>1 DEF ClosingInv, left
    <3>. QED
        BY <1>0, <1>1, <2>1, <3>1, <3>2, BootStays DEF ClosingInv
  <2>. QED
      BY <1>0, <1>5, <2>2, <2>3, BootStays
<1>7. CASE /\ broken' = broken /\ closing[a].at = "transport"
           /\ open' = [open EXCEPT !.transport = @ \ {c}]
           /\ closing' = [closing EXCEPT ![a] = [left |-> Tail(left), at |-> "client"]]
  <2>1. /\ DOMAIN closing' = DOMAIN closing
        /\ closing'[a] = [left |-> Tail(left), at |-> "client"]
        /\ \A b \in DOMAIN closing \ {a} : closing'[b] = closing[b]
      BY <1>0, <1>7
  <2>2. /\ DOMAIN open' = {"client", "transport"} /\ open'.client = open.client
        /\ open'.transport = open.transport \ {c} /\ c \notin open.client
      BY <1>1, <1>4, <1>7
  <2>3. OpenInv'
      BY <1>0, <1>1, <2>2, BootStays DEF OpenInv
  <2>4. ClosingInv'
    <3>1. \A b \in DOMAIN closing' :
              /\ closing'[b] \in [left : Seq(Of(b)), at : {"client", "transport"}]
              /\ closing'[b].at = "transport" =>
                    closing'[b].left # <<>> /\ Head(closing'[b].left) \notin open'.client
      <4>1. ASSUME NEW b \in DOMAIN closing \ {a}
            PROVE  /\ closing'[b] \in [left : Seq(Of(b)), at : {"client", "transport"}]
                   /\ closing'[b].at = "transport" =>
                         closing'[b].left # <<>> /\ Head(closing'[b].left) \notin open.client
          BY <2>1 DEF ClosingInv
      <4>2. /\ closing'[a] \in [left : Seq(Of(a)), at : {"client", "transport"}]
            /\ closing'[a].at # "transport"
          BY <1>2, <2>1
      <4>. QED
          BY <2>1, <2>2, <4>1, <4>2
    <3>2. \A d \in open'.transport :
              \/ d[2] \in plan.unlisted
              \/ d \in broken' \cup unheld
              \/ d[1] \in DOMAIN closing' /\ d \in ToSet(closing'[d[1]].left)
        BY <1>1, <1>2, <1>7, <2>1, <2>2 DEF ClosingInv, left
    <3>. QED
        BY <1>0, <1>1, <2>1, <3>1, <3>2, BootStays DEF ClosingInv
  <2>. QED
      BY <1>0, <1>5, <2>3, <2>4, BootStays
<1>8. CASE /\ broken' = broken /\ open' = [open EXCEPT !.client = @ \ {c}]
           /\ closing' = [closing EXCEPT ![a] = [left |-> left, at |-> "transport"]]
  <2>1. /\ DOMAIN closing' = DOMAIN closing
        /\ closing'[a] = [left |-> left, at |-> "transport"]
        /\ \A b \in DOMAIN closing \ {a} : closing'[b] = closing[b]
      BY <1>0, <1>8
  <2>2. /\ DOMAIN open' = {"client", "transport"} /\ open'.client = open.client \ {c}
        /\ open'.transport = open.transport
      BY <1>4, <1>8
  <2>3. OpenInv'
      BY <1>0, <1>1, <2>2, BootStays DEF OpenInv
  <2>4. ClosingInv'
    <3>1. \A b \in DOMAIN closing' :
              /\ closing'[b] \in [left : Seq(Of(b)), at : {"client", "transport"}]
              /\ closing'[b].at = "transport" =>
                    closing'[b].left # <<>> /\ Head(closing'[b].left) \notin open'.client
      <4>1. left \in Seq(Of(a)) /\ left # <<>> /\ Head(left) \notin open'.client
          BY <1>0, <1>1, <2>2 DEF c, left
      <4>. QED
          BY <2>1, <2>2, <4>1 DEF ClosingInv
    <3>2. \A d \in open'.transport :
              \/ d[2] \in plan.unlisted
              \/ d \in broken' \cup unheld
              \/ d[1] \in DOMAIN closing' /\ d \in ToSet(closing'[d[1]].left)
        BY <1>1, <1>8, <2>1, <2>2 DEF ClosingInv, left
    <3>. QED
        BY <1>0, <1>1, <2>1, <3>1, <3>2, BootStays DEF ClosingInv
  <2>. QED
      BY <1>0, <1>5, <2>3, <2>4, BootStays
<1>. QED
    BY <1>3, <1>6, <1>7, <1>8

\* An agent whose clients have been gone through is forgotten.
LEMMA ForgetKeeps ==
    ASSUME ClientsInv, NEW a \in Agents, Forget(a)
    PROVE  ClientsInv'
<1>. USE DEF ClientsInv
<1>1. /\ a \in DOMAIN closing /\ closing[a].left = <<>>
      /\ connections' = Restrict(connections, DOMAIN connections \ {a})
      /\ closing' = Restrict(closing, DOMAIN closing \ {a})
      /\ UNCHANGED <<plan, boot, open, tools, world, unheld, broken>>
    BY DEF Forget
<1>2. /\ DOMAIN connections' = DOMAIN connections \ {a}
      /\ \A b \in DOMAIN connections \ {a} : connections'[b] = connections[b]
      /\ DOMAIN closing' = DOMAIN closing \ {a}
      /\ \A b \in DOMAIN closing \ {a} : closing'[b] = closing[b]
    BY <1>1 DEF Restrict
<1>3. Stopped /\ Stopped' /\ ToSet(closing[a].left) = {}
    BY <1>1, NoElements DEF OpenInv, Stopped
<1>4. ToolsInv'
    BY <1>1, <1>2, BootStays DEF ToolsInv
<1>5. OpenInv'
    BY <1>1, <1>3, BootStays DEF OpenInv
<1>6. ClosingInv'
  <2>1. \A b \in DOMAIN closing' :
            /\ closing'[b] \in [left : Seq(Of(b)), at : {"client", "transport"}]
            /\ closing'[b].at = "transport" =>
                  closing'[b].left # <<>> /\ Head(closing'[b].left) \notin open.client
      BY <1>2 DEF ClosingInv
  <2>2. \A b \in DOMAIN connections' : b \in DOMAIN closing' \/ Answering(b) \subseteq unheld
      BY <1>2, <1>3 DEF ClosingInv
  <2>3. \A d \in open.transport :
            \/ d[2] \in plan.unlisted
            \/ d \in broken \cup unheld
            \/ d[1] \in DOMAIN closing' /\ d \in ToSet(closing'[d[1]].left)
      BY <1>2, <1>3 DEF ClosingInv
  <2>4. DOMAIN closing' \subseteq DOMAIN connections' /\ (world = "left" => DOMAIN closing' = {})
      BY <1>2 DEF ClosingInv
  <2>5. (\A i \in DOMAIN plan.agents : ~Had(i) => Of(plan.agents[i]) \subseteq unheld)'
      BY <1>1, <1>3, BootStays DEF ClosingInv
  <2>6. UNCHANGED <<plan, open, world, unheld, broken>>
      BY <1>1
  <2>7. \A b : Of(b)' = Of(b) /\ Answering(b)' = Answering(b)
      BY <1>1, BootStays
  <2>. HIDE DEF ClientsInv
  <2>. QED
      BY <1>3, <2>1, <2>2, <2>3, <2>4, <2>5, <2>6, <2>7 DEF ClosingInv
<1>. QED
    BY <1>1, <1>4, <1>5, <1>6, BootStays

LEMMA ClientsStep == ClientsInv /\ [ClientsNext]_clientVars => ClientsInv'
<1>. SUFFICES ASSUME ClientsInv, [ClientsNext]_clientVars PROVE ClientsInv'
    OBVIOUS
<1>1. CASE Disconnected
  <2>1. /\ DOMAIN closing = {} /\ world = "disconnecting" /\ world' = "left"
        /\ UNCHANGED <<plan, boot, open, connections, tools, closing, unheld, broken>>
      BY <1>1 DEF Disconnected
  <2>2. Stopped /\ Stopped'
      BY <2>1 DEF Stopped
  <2>. QED
      BY <2>1, <2>2, BootStays DEF ClientsInv, ToolsInv, OpenInv, ClosingInv
<1>2. CASE UNCHANGED clientVars
  <2>1. UNCHANGED <<plan, boot, open, connections, tools, closing, world, unheld, broken>>
      BY <1>2 DEF clientVars
  <2>2. Stopped' <=> Stopped
      BY <2>1 DEF Stopped
  <2>. QED
      BY <2>1, <2>2, BootStays DEF ClientsInv, ToolsInv, OpenInv, ClosingInv
<1>. QED
    BY <1>1, <1>2, ConnectKeeps, ListKeeps, LaunchKeeps, StopKeeps, CloseKeeps, ForgetKeeps
       DEF ClientsNext

\* While the world runs every agent has the tools of exactly the servers that answered and
\* the manager holds their clients; once it has been left, whatever is still open threw when
\* it was closed, could not list its tools, or was not held yet when the stop began -
\* whichever servers fail, and whenever the host stops (McpClientManager.ts:23-88).
THEOREM ClientsStayKept == ClientsSpec => []ClientsAreKept
<1>1. ClientsInit => ClientsInv
    BY ClientsStart
<1>2. ClientsInv => ClientsAreKept
  <2>. SUFFICES ASSUME ClientsInv PROVE ClientsAreKept
      OBVIOUS
  <2>1. ToolsAreServed
    <3>. SUFFICES ASSUME NEW a \in DOMAIN tools
                  PROVE  /\ tools[a] = Answering(a)
                         /\ world \in {"bootstrapping", "running"} /\ tools[a] # {} =>
                               /\ a \in DOMAIN connections /\ ToSet(connections[a]) = tools[a]
                               /\ tools[a] \subseteq open.client
        BY DEF ToolsAreServed, Answering
    <3>1. a \in Connected /\ tools[a] = Answering(a)
        BY DEF ClientsInv, ToolsInv
    <3>. QED
        BY <3>1 DEF ClientsInv, ToolsInv, OpenInv, Stopped
  <2>2. StopCloses
    <3>. SUFFICES ASSUME world = "left"
                  PROVE  /\ \A c \in open.client \cup open.transport :
                               c \in broken \cup unheld \/ c[2] \in plan.unlisted
                         /\ \A a \in DOMAIN connections : ToSet(connections[a]) \subseteq unheld
                         /\ open.client \subseteq open.transport
        BY DEF StopCloses
    <3>1. DOMAIN closing = {} /\ Stopped
        BY DEF ClientsInv, ClosingInv, Stopped
    <3>2. open.client \subseteq open.transport
        BY DEF ClientsInv, OpenInv
    <3>3. \A c \in open.transport : c \in broken \cup unheld \/ c[2] \in plan.unlisted
        BY <3>1 DEF ClientsInv, ClosingInv
    <3>4. \A a \in DOMAIN connections : ToSet(connections[a]) \subseteq unheld
        BY <3>1 DEF ClientsInv, ClosingInv, ToolsInv
    <3>. QED
        BY <3>2, <3>3, <3>4
  <2>. QED
      BY <2>1, <2>2 DEF ClientsAreKept
<1>. QED
    BY <1>1, <1>2, ClientsStep, PTL DEF ClientsSpec

-----------------------------------------------------------------------------
(***************************************************************************)
(* Entities.                                                               *)
(***************************************************************************)
(***************************************************************************)
(* The registry: a stamp is given once, and only to what is there.            *)
(***************************************************************************)
RegistryInv ==
    /\ SoundGround(ground)
    /\ stamp \in Nat
    /\ \A id \in DOMAIN registry : /\ registry[id].stamp \in 1..stamp
                                   /\ DOMAIN registry[id].entity.emitters \subseteq Nat
    /\ \A i, j \in DOMAIN registry : registry[i].stamp = registry[j].stamp => i = j

(***************************************************************************)
(* The walk: it stands at an emitter of an entity that was there, and at none   *)
(* that has been removed before its turn.                                    *)
(***************************************************************************)
WalkInv ==
    /\ tick \in Nat
    /\ before \subseteq 1..stamp /\ gone \subseteq 1..stamp
    /\ \A id \in DOMAIN registry : registry[id].stamp \notin gone
    /\ Walking =>
          /\ DOMAIN walk = {"stamp", "entity", "k"}
          /\ walk.stamp \in 1..stamp /\ walk.stamp \notin gone
          /\ DOMAIN walk.entity.emitters \subseteq Nat /\ walk.k \in Due(walk.entity, tick)
          /\ \A id \in DOMAIN registry :
                registry[id].stamp = walk.stamp => registry[id].entity = walk.entity

\* What has been heard lies behind the walk, and each of it once.
FiredInv ==
    /\ fired \in Seq(Nat \X Nat)
    /\ \A i \in DOMAIN fired :
          /\ fired[i][1] \notin gone
          /\ Walking => \/ fired[i][1] < walk.stamp
                        \/ fired[i][1] = walk.stamp /\ fired[i][2] < walk.k
    /\ \A i, j \in DOMAIN fired : fired[i] = fired[j] => i = j

\* What has not been heard lies ahead of it.
Ahead(s, k) == Walking /\ (walk.stamp < s \/ (walk.stamp = s /\ walk.k <= k))
HasFired(s, k) == \E i \in DOMAIN fired : fired[i] = <<s, k>>

AheadInv ==
    \A id \in DOMAIN registry : registry[id].stamp \in before =>
        \A k \in Due(registry[id].entity, tick) :
            HasFired(registry[id].stamp, k) \/ Ahead(registry[id].stamp, k)

EntitiesInv == RegistryInv /\ WalkInv /\ FiredInv /\ AheadInv /\ IndexesAgree

-----------------------------------------------------------------------------
(***************************************************************************)
(* The next emitter of a walk.                                              *)
(***************************************************************************)
Smaller == {ss \in Nat \X Nat : ss[1] < ss[2]}

LEMMA LeastOf ==
    ASSUME NEW S \in SUBSET Nat, S # {}
    PROVE  \E n \in S : \A m \in S : n <= m
<1>1. IsWellFoundedOn(Smaller, Nat)
    BY NatLessThanWellFounded DEF OpToRel, Smaller
<1>2. PICK n \in S : \A m \in S : ~(<<m, n>> \in Smaller)
    BY <1>1, WFMin
<1>3. \A m \in S : ~(m < n)
    BY <1>2 DEF Smaller
<1>. QED
    BY <1>3

LEMMA MinIs ==
    ASSUME NEW S \in SUBSET Nat, S # {}
    PROVE  Min(S) \in S /\ \A m \in S : Min(S) <= m
<1>1. \E n \in S : \A m \in S : n <= m
    BY LeastOf
<1>. QED
    BY <1>1 DEF Min

\* The first of the entries in the Map behind a stamp that have something to emit.
LEMMA FirstIs ==
    ASSUME RegistryInv, NEW n \in Nat, NEW t,
           NEW f, f = FirstOf({e \in DueAt(t) : e.stamp > n}, t)
    PROVE  \/ /\ f = Over
              /\ \A id \in DOMAIN registry :
                    registry[id].stamp > n => Due(registry[id].entity, t) = {}
           \/ \E id \in DOMAIN registry :
                 /\ registry[id].stamp > n /\ DOMAIN f = {"stamp", "entity", "k"}
                 /\ f.stamp = registry[id].stamp /\ f.entity = registry[id].entity
                 /\ f.k \in Due(f.entity, t) /\ \A k \in Due(f.entity, t) : f.k <= k
                 /\ \A j \in DOMAIN registry :
                       registry[j].stamp > n /\ Due(registry[j].entity, t) # {} =>
                          f.stamp <= registry[j].stamp
<1>. DEFINE E == {e \in DueAt(t) : e.stamp > n}
            T == {e.stamp : e \in E}
<1>1. \A e : e \in E <=> \E id \in DOMAIN registry :
                            /\ e = registry[id] /\ Due(e.entity, t) # {} /\ e.stamp > n
    BY DEF DueAt
<1>2. CASE E = {}
  <2>1. f = Over
      BY <1>2 DEF FirstOf
  <2>. QED
      BY <1>1, <1>2, <2>1
<1>3. CASE E # {}
  <2>. DEFINE first == CHOOSE e \in E : \A g \in E : e.stamp <= g.stamp
  <2>1. first \in E /\ \A g \in E : first.stamp <= g.stamp
    <3>1. T \in SUBSET Nat /\ T # {}
      <4>1. \A e \in E : e.stamp \in Nat
          BY <1>1 DEF RegistryInv
      <4>. QED
          BY <1>3, <4>1
    <3>2. PICK s \in T : \A r \in T : s <= r
        BY <3>1, LeastOf
    <3>3. PICK e \in E : e.stamp = s
        BY <3>2
    <3>4. e \in E /\ \A g \in E : e.stamp <= g.stamp
        BY <3>2, <3>3
    <3>. HIDE DEF E
    <3>. QED
        BY <3>4
  <2>2. f = [stamp |-> first.stamp, entity |-> first.entity, k |-> Min(Due(first.entity, t))]
      BY <1>3 DEF FirstOf
  <2>. HIDE DEF first, E
  <2>3. PICK id \in DOMAIN registry :
            /\ first = registry[id] /\ Due(first.entity, t) # {} /\ first.stamp > n
      BY <1>1, <2>1
  <2>4. Due(first.entity, t) \in SUBSET Nat
      BY <2>3 DEF RegistryInv, Due
  <2>5. /\ Min(Due(first.entity, t)) \in Due(first.entity, t)
        /\ \A k \in Due(first.entity, t) : Min(Due(first.entity, t)) <= k
      BY <2>3, <2>4, MinIs
  <2>6. /\ DOMAIN f = {"stamp", "entity", "k"}
        /\ f.stamp = first.stamp /\ f.entity = first.entity /\ f.k = Min(Due(first.entity, t))
      BY <2>2
  <2>7. \A j \in DOMAIN registry :
            registry[j].stamp > n /\ Due(registry[j].entity, t) # {} => f.stamp <= registry[j].stamp
      BY <1>1, <2>1, <2>6
  <2>. QED
      BY <2>3, <2>5, <2>6, <2>7
<1>. QED
    BY <1>2, <1>3

\* Where the walk w goes: to the next emitter of the entity at hand, over, or to the first
\* emitter of the next entity.
Stays(w, t, f) ==
    /\ DOMAIN f = {"stamp", "entity", "k"} /\ f.stamp = w.stamp /\ f.entity = w.entity
    /\ f.k \in SameEntity(w, t) /\ \A k \in SameEntity(w, t) : f.k <= k

GoesOver(w, t, f) ==
    /\ SameEntity(w, t) = {} /\ f = Over
    /\ \A id \in DOMAIN registry : registry[id].stamp > w.stamp => Due(registry[id].entity, t) = {}

Passes(w, t, f) ==
    /\ SameEntity(w, t) = {}
    /\ \E id \in DOMAIN registry :
          /\ registry[id].stamp > w.stamp /\ DOMAIN f = {"stamp", "entity", "k"}
          /\ f.stamp = registry[id].stamp /\ f.entity = registry[id].entity
          /\ f.k \in Due(f.entity, t) /\ \A k \in Due(f.entity, t) : f.k <= k
          /\ \A j \in DOMAIN registry :
                registry[j].stamp > w.stamp /\ Due(registry[j].entity, t) # {} =>
                   f.stamp <= registry[j].stamp

LEMMA FollowingIs ==
    ASSUME RegistryInv, NEW w, DOMAIN w = {"stamp", "entity", "k"}, w.stamp \in Nat,
           DOMAIN w.entity.emitters \subseteq Nat, NEW t
    PROVE  \/ Stays(w, t, Following(w, t))
           \/ GoesOver(w, t, Following(w, t))
           \/ Passes(w, t, Following(w, t))
<1>1. CASE SameEntity(w, t) # {}
  <2>1. SameEntity(w, t) \in SUBSET Nat
      BY DEF SameEntity, Due
  <2>2. Following(w, t) = [w EXCEPT !.k = Min(SameEntity(w, t))]
      BY <1>1 DEF Following
  <2>3. /\ Min(SameEntity(w, t)) \in SameEntity(w, t)
        /\ \A k \in SameEntity(w, t) : Min(SameEntity(w, t)) <= k
      BY <1>1, <2>1, MinIs
  <2>4. Stays(w, t, Following(w, t))
      BY <2>2, <2>3 DEF Stays
  <2>. QED
      BY <2>4
<1>2. CASE SameEntity(w, t) = {}
  <2>1. Following(w, t) = FirstOf({e \in DueAt(t) : e.stamp > w.stamp}, t)
      BY <1>2 DEF Following
  <2>. QED
      BY <1>2, <2>1, FirstIs DEF GoesOver, Passes
<1>. QED
    BY <1>1, <1>2

-----------------------------------------------------------------------------
(***************************************************************************)
(* The initial state.                                                       *)
(***************************************************************************)
LEMMA EntitiesStart == EntitiesInit => EntitiesInv
<1>. SUFFICES ASSUME EntitiesInit PROVE EntitiesInv
    OBVIOUS
<1>1. /\ SoundGround(ground) /\ tick = 0 /\ walk = Over /\ before = {} /\ fired = <<>> /\ gone = {}
      /\ stamp = Cardinality(DOMAIN ground.at) /\ byKind = KindsOf(registry)
      /\ perceivers = {id \in DOMAIN ground.at : ground.at[id].senses}
    BY GroundsAreSound DEF EntitiesInit
<1>2. /\ DOMAIN registry = DOMAIN ground.at
      /\ \A id \in DOMAIN registry : /\ registry[id].entity = ground.at[id]
                                     /\ registry[id].stamp = ground.at[id].rank
    BY DEF EntitiesInit
<1>3. stamp \in Nat
    BY <1>1, FS_CardinalityType DEF SoundGround
<1>4. RegistryInv
    BY <1>1, <1>2, <1>3 DEF RegistryInv, SoundGround
<1>5. WalkInv
    BY <1>1 DEF WalkInv, Walking
<1>6. FiredInv
  <2>1. DOMAIN <<>> = {} /\ <<>> \in Seq(Nat \X Nat)
      OBVIOUS
  <2>. QED
      BY <1>1, <2>1 DEF FiredInv
<1>7. AheadInv
    BY <1>1 DEF AheadInv
<1>8. IndexesAgree
    BY <1>1, <1>2 DEF IndexesAgree
<1>. QED
    BY <1>4, <1>5, <1>6, <1>7, <1>8 DEF EntitiesInv

-----------------------------------------------------------------------------
(***************************************************************************)
(* Adding and removing.                                                      *)
(***************************************************************************)
LEMMA RemovedFromItsKind ==
    ASSUME NEW id \in DOMAIN registry, byKind = KindsOf(registry)
    PROVE  Unlisted(byKind, id) = KindsOf([j \in DOMAIN registry \ {id} |-> registry[j]])
<1>. DEFINE rest == [j \in DOMAIN registry \ {id} |-> registry[j]]
            kind == registry[id].entity.kind
            left == byKind[kind] \ {id}
<1>1. /\ DOMAIN rest = DOMAIN registry \ {id}
      /\ \A j \in DOMAIN registry \ {id} : rest[j] = registry[j]
    OBVIOUS
<1>2. /\ DOMAIN byKind = {registry[j].entity.kind : j \in DOMAIN registry}
      /\ \A k \in DOMAIN byKind : byKind[k] = {j \in DOMAIN registry : registry[j].entity.kind = k}
    BY DEF KindsOf
<1>. HIDE DEF rest
<1>3. left = {j \in DOMAIN registry \ {id} : registry[j].entity.kind = kind}
    BY <1>2
<1>4. {j \in DOMAIN byKind : j # kind \/ left # {}}
        = {rest[j].entity.kind : j \in DOMAIN rest}
  <2>1. ASSUME NEW k \in DOMAIN byKind, k # kind \/ left # {}
        PROVE  k \in {rest[j].entity.kind : j \in DOMAIN rest}
    <3>1. CASE k # kind
        BY <1>1, <1>2, <2>1, <3>1
    <3>2. CASE k = kind
      <4>1. PICK j \in DOMAIN registry \ {id} : registry[j].entity.kind = kind
          BY <1>3, <2>1, <3>2
      <4>. QED
          BY <1>1, <3>2, <4>1
    <3>. QED
        BY <3>1, <3>2
  <2>2. ASSUME NEW j \in DOMAIN rest
        PROVE  /\ rest[j].entity.kind \in DOMAIN byKind
               /\ rest[j].entity.kind # kind \/ left # {}
      BY <1>1, <1>2, <1>3, <2>2
  <2>. QED
      BY <2>1, <2>2
<1>5. ASSUME NEW k \in DOMAIN byKind
      PROVE  (IF k = kind THEN left ELSE byKind[k])
               = {j \in DOMAIN rest : rest[j].entity.kind = k}
  <2>1. CASE k = kind
      BY <1>1, <1>3, <2>1
  <2>2. CASE k # kind
      BY <1>1, <1>2, <2>2
  <2>. QED
      BY <2>1, <2>2
<1>6. Unlisted(byKind, id) = [k \in {j \in DOMAIN byKind : j # kind \/ left # {}} |->
                                IF k = kind THEN left ELSE byKind[k]]
    BY DEF Unlisted
<1>7. KindsOf(rest) = [k \in {rest[j].entity.kind : j \in DOMAIN rest} |->
                         {j \in DOMAIN rest : rest[j].entity.kind = k}]
    BY DEF KindsOf
<1>. HIDE DEF kind, left
<1>8. [k \in {j \in DOMAIN byKind : j # kind \/ left # {}} |->
         IF k = kind THEN left ELSE byKind[k]]
      = [k \in {rest[j].entity.kind : j \in DOMAIN rest} |->
           {j \in DOMAIN rest : rest[j].entity.kind = k}]
    BY <1>4, <1>5
<1>9. Unlisted(byKind, id) = KindsOf(rest)
    BY <1>6, <1>7, <1>8
<1>. QED
    BY <1>9 DEF rest

LEMMA AddedToItsKind ==
    ASSUME NEW entries, NEW e, NEW kinds, kinds = KindsOf(entries), e.id \notin DOMAIN entries,
           NEW more, DOMAIN more = DOMAIN entries \cup {e.id}, more[e.id].entity = e,
           \A j \in DOMAIN entries : more[j] = entries[j]
    PROVE  Listed(kinds, e) = KindsOf(more)
<1>1. /\ DOMAIN kinds = {entries[j].entity.kind : j \in DOMAIN entries}
      /\ \A k \in DOMAIN kinds : kinds[k] = {j \in DOMAIN entries : entries[j].entity.kind = k}
    BY DEF KindsOf
<1>2. DOMAIN kinds \cup {e.kind} = {more[j].entity.kind : j \in DOMAIN more}
    BY <1>1
<1>3. ASSUME NEW k \in DOMAIN kinds \cup {e.kind}
      PROVE  (IF k \in DOMAIN kinds THEN kinds[k] ELSE {}) \cup (IF k = e.kind THEN {e.id} ELSE {})
               = {j \in DOMAIN more : more[j].entity.kind = k}
  <2>1. (IF k \in DOMAIN kinds THEN kinds[k] ELSE {})
           = {j \in DOMAIN entries : more[j].entity.kind = k}
      BY <1>1
  <2>2. (IF k = e.kind THEN {e.id} ELSE {}) = {j \in {e.id} : more[j].entity.kind = k}
      OBVIOUS
  <2>. QED
      BY <2>1, <2>2
<1>4. [k \in DOMAIN kinds \cup {e.kind} |->
         (IF k \in DOMAIN kinds THEN kinds[k] ELSE {}) \cup (IF k = e.kind THEN {e.id} ELSE {})]
      = [k \in {more[j].entity.kind : j \in DOMAIN more} |->
           {j \in DOMAIN more : more[j].entity.kind = k}]
    BY <1>2, <1>3
<1>. QED
    BY <1>4 DEF Listed, KindsOf

LEMMA InvRemoveEntity ==
    ASSUME EntitiesInv, NEW id \in DOMAIN registry, RemoveEntity(id)
    PROVE  EntitiesInv'
<1>1. /\ RegistryInv /\ WalkInv /\ FiredInv /\ AheadInv /\ IndexesAgree
    BY DEF EntitiesInv
<1>2. /\ DOMAIN registry' = DOMAIN registry \ {id}
      /\ \A j \in DOMAIN registry \ {id} : registry'[j] = registry[j]
      /\ registry' = [j \in DOMAIN registry \ {id} |-> registry[j]]
    BY DEF RemoveEntity
<1>3. /\ gone' = gone \cup Missed(id) /\ perceivers' = perceivers \ {id}
      /\ byKind' = Unlisted(byKind, id)
      /\ UNCHANGED <<ground, stamp, tick, walk, before, fired>>
    BY DEF RemoveEntity, tickVars
<1>4. Missed(id) \subseteq 1..stamp /\ \A s \in Missed(id) : Walking /\ s > walk.stamp
                                                             /\ s = registry[id].stamp
    BY <1>1 DEF Missed, RegistryInv
<1>5. (Walking <=> Walking') /\ \A e : Due(e, tick)' = Due(e, tick)
    BY <1>3 DEF Walking, Due
<1>6. RegistryInv'
    BY <1>1, <1>2, <1>3 DEF RegistryInv
<1>7. WalkInv'
  <2>1. \A j \in DOMAIN registry' : registry'[j].stamp \notin gone'
      BY <1>1, <1>2, <1>3, <1>4 DEF WalkInv, RegistryInv
  <2>2. Walking => walk.stamp \notin gone'
      BY <1>1, <1>3, <1>4 DEF WalkInv
  <2>3. gone' \subseteq 1..stamp
      BY <1>1, <1>3, <1>4 DEF WalkInv
  <2>4. \A j \in DOMAIN registry' : Walking /\ registry'[j].stamp = walk.stamp
                                       => registry'[j].entity = walk.entity
      BY <1>1, <1>2 DEF WalkInv
  <2>. QED
      BY <1>1, <1>3, <1>5, <2>1, <2>2, <2>3, <2>4 DEF WalkInv, Due
<1>8. FiredInv'
  <2>1. \A i \in DOMAIN fired : fired[i][1] \notin gone'
    <3>1. SUFFICES ASSUME NEW i \in DOMAIN fired, fired[i][1] \in Missed(id) PROVE FALSE
        BY <1>1, <1>3 DEF FiredInv
    <3>2. Walking /\ fired[i][1] > walk.stamp
        BY <1>4, <3>1
    <3>3. fired[i][1] \in Nat /\ walk.stamp \in Nat
        BY <1>1, <3>2 DEF FiredInv, WalkInv
    <3>4. fired[i][1] < walk.stamp \/ fired[i][1] = walk.stamp
        BY <1>1, <3>2 DEF FiredInv
    <3>. QED
        BY <3>2, <3>3, <3>4
  <2>. QED
      BY <1>1, <1>3, <1>5, <2>1 DEF FiredInv
<1>9. AheadInv'
    BY <1>1, <1>2, <1>3, <1>5 DEF AheadInv, HasFired, Ahead
<1>10. IndexesAgree'
  <2>1. byKind' = KindsOf(registry')
      BY <1>1, <1>2, <1>3, RemovedFromItsKind DEF IndexesAgree
  <2>. QED
      BY <1>1, <1>2, <1>3, <2>1 DEF IndexesAgree, KindsOf
<1>. QED
    BY <1>6, <1>7, <1>8, <1>9, <1>10 DEF EntitiesInv

LEMMA InvAdd ==
    ASSUME EntitiesInv, NEW e \in ground.adds, Add(e)
    PROVE  EntitiesInv'
<1>. DEFINE missed == IF e.id \in DOMAIN registry THEN Missed(e.id) ELSE {}
<1>1. /\ RegistryInv /\ WalkInv /\ FiredInv /\ AheadInv /\ IndexesAgree
    BY DEF EntitiesInv
<1>2. /\ DOMAIN registry' = DOMAIN registry \cup {e.id}
      /\ registry'[e.id].entity = e /\ registry'[e.id].stamp = stamp + 1
      /\ \A j \in DOMAIN registry : j # e.id => registry'[j] = registry[j]
    BY DEF Add
<1>3. /\ gone' = gone \cup missed /\ stamp' = stamp + 1
      /\ perceivers' = (IF e.senses THEN perceivers \cup {e.id} ELSE perceivers)
      /\ UNCHANGED <<ground, tick, walk, before, fired>>
    BY DEF Add, tickVars
<1>4. missed \subseteq 1..stamp /\ \A s \in missed : /\ Walking /\ s > walk.stamp
                                                     /\ e.id \in DOMAIN registry
                                                     /\ s = registry[e.id].stamp
    BY <1>1 DEF Missed, RegistryInv
<1>. HIDE DEF missed
<1>5. (Walking <=> Walking') /\ \A f : Due(f, tick)' = Due(f, tick)
    BY <1>3 DEF Walking, Due
<1>6. /\ stamp \in Nat /\ stamp + 1 \notin 1..stamp
      /\ \A s \in 1..stamp : s \in 1..(stamp + 1)
    BY <1>1 DEF RegistryInv
<1>7. RegistryInv'
  <2>1. SoundGround(ground)' /\ stamp' \in Nat
      BY <1>1, <1>3, <1>6 DEF RegistryInv, SoundGround
  <2>2. DOMAIN e.emitters \subseteq Nat
      BY <1>1 DEF RegistryInv, SoundGround
  <2>3. \A j \in DOMAIN registry' : /\ registry'[j].stamp \in 1..stamp'
                                    /\ DOMAIN registry'[j].entity.emitters \subseteq Nat
      BY <1>1, <1>2, <1>3, <1>6, <2>2 DEF RegistryInv
  <2>4. \A i, j \in DOMAIN registry' : registry'[i].stamp = registry'[j].stamp => i = j
      BY <1>1, <1>2, <1>6 DEF RegistryInv
  <2>. QED
      BY <2>1, <2>3, <2>4 DEF RegistryInv
<1>8. WalkInv'
  <2>1. \A j \in DOMAIN registry' : registry'[j].stamp \notin gone'
    <3>1. stamp + 1 \notin gone'
        BY <1>1, <1>3, <1>4, <1>6 DEF WalkInv
    <3>2. \A j \in DOMAIN registry : j # e.id => registry[j].stamp \notin gone'
        BY <1>1, <1>3, <1>4 DEF WalkInv, RegistryInv
    <3>. QED
        BY <1>2, <3>1, <3>2
  <2>2. Walking => walk.stamp \notin gone'
      BY <1>1, <1>3, <1>4 DEF WalkInv
  <2>3. gone' \subseteq 1..stamp' /\ before' \subseteq 1..stamp'
      BY <1>1, <1>3, <1>4, <1>6 DEF WalkInv
  <2>4. \A j \in DOMAIN registry' : Walking /\ registry'[j].stamp = walk.stamp
                                       => registry'[j].entity = walk.entity
    <3>1. Walking => stamp + 1 # walk.stamp
        BY <1>1, <1>6 DEF WalkInv
    <3>. QED
        BY <1>1, <1>2, <3>1 DEF WalkInv
  <2>5. Walking => walk.stamp \in 1..stamp'
      BY <1>1, <1>3, <1>6 DEF WalkInv
  <2>. QED
      BY <1>1, <1>3, <1>5, <2>1, <2>2, <2>3, <2>4, <2>5 DEF WalkInv, Due
<1>9. FiredInv'
  <2>1. \A i \in DOMAIN fired : fired[i][1] \notin gone'
    <3>1. SUFFICES ASSUME NEW i \in DOMAIN fired, fired[i][1] \in missed PROVE FALSE
        BY <1>1, <1>3 DEF FiredInv
    <3>2. Walking /\ fired[i][1] > walk.stamp
        BY <1>4, <3>1
    <3>3. fired[i][1] \in Nat /\ walk.stamp \in Nat
        BY <1>1, <3>2 DEF FiredInv, WalkInv
    <3>4. fired[i][1] < walk.stamp \/ fired[i][1] = walk.stamp
        BY <1>1, <3>2 DEF FiredInv
    <3>. QED
        BY <3>2, <3>3, <3>4
  <2>. QED
      BY <1>1, <1>3, <1>5, <2>1 DEF FiredInv
<1>10. AheadInv'
  <2>1. stamp + 1 \notin before
      BY <1>1, <1>6 DEF WalkInv
  <2>2. \A j \in DOMAIN registry' : registry'[j].stamp \in before =>
            j \in DOMAIN registry /\ registry'[j] = registry[j]
      BY <1>2, <2>1
  <2>. QED
      BY <1>1, <1>3, <1>5, <2>2 DEF AheadInv, HasFired, Ahead
<1>11. IndexesAgree'
  <2>1. byKind' = KindsOf(registry')
    <3>. DEFINE rest == [j \in DOMAIN registry \ {e.id} |-> registry[j]]
    <3>1. e.id \notin DOMAIN rest /\ DOMAIN registry' = DOMAIN rest \cup {e.id}
          /\ \A j \in DOMAIN rest : registry'[j] = rest[j]
        BY <1>2
    <3>2. CASE e.id \in DOMAIN registry
      <4>1. Unlisted(byKind, e.id) = KindsOf(rest)
          BY <1>1, <3>2, RemovedFromItsKind DEF IndexesAgree
      <4>2. byKind' = Listed(Unlisted(byKind, e.id), e)
          BY <3>2 DEF Add
      <4>. HIDE DEF rest
      <4>. QED
          BY <1>2, <3>1, <4>1, <4>2, AddedToItsKind
    <3>3. CASE e.id \notin DOMAIN registry
      <4>1. byKind' = Listed(byKind, e)
          BY <3>3 DEF Add
      <4>2. byKind = KindsOf(registry)
          BY <1>1 DEF IndexesAgree
      <4>3. \A j \in DOMAIN registry : registry'[j] = registry[j]
          BY <1>2, <3>3
      <4>. HIDE DEF rest
      <4>4. ASSUME NEW more, more = registry' PROVE Listed(byKind, e) = KindsOf(more)
        <5>1. /\ DOMAIN more = DOMAIN registry \cup {e.id} /\ more[e.id].entity = e
              /\ \A j \in DOMAIN registry : more[j] = registry[j]
            BY <1>2, <4>3, <4>4
        <5>. QED
            BY <3>3, <4>2, <5>1, AddedToItsKind
      <4>. QED
          BY <4>1, <4>4
    <3>. QED
        BY <3>2, <3>3
  <2>2. perceivers' \subseteq DOMAIN registry'
      BY <1>1, <1>2, <1>3 DEF IndexesAgree
  <2>3. \A j \in DOMAIN registry' : registry'[j].entity.senses => j \in perceivers'
      BY <1>1, <1>2, <1>3 DEF IndexesAgree
  <2>. QED
      BY <2>1, <2>2, <2>3 DEF IndexesAgree, KindsOf
<1>. QED
    BY <1>7, <1>8, <1>9, <1>10, <1>11 DEF EntitiesInv

-----------------------------------------------------------------------------
(***************************************************************************)
(* The walk.                                                                *)
(***************************************************************************)
LEMMA NothingIsDue == \A t : SameEntity(Over, t) = {}
<1>1. DOMAIN <<>> = {}
    OBVIOUS
<1>. QED
    BY <1>1 DEF SameEntity, Due, Over, Nothing

LEMMA InvNewTick == EntitiesInv /\ NewTick => EntitiesInv'
<1>. SUFFICES ASSUME EntitiesInv, NewTick PROVE EntitiesInv'
    OBVIOUS
<1>. DEFINE t == tick + 1
            w == Following(Over, t)
<1>1. /\ RegistryInv /\ WalkInv /\ IndexesAgree
    BY DEF EntitiesInv
<1>2. /\ tick' = t /\ walk' = w /\ fired' = <<>> /\ gone' = {}
      /\ before' = {registry[id].stamp : id \in DOMAIN registry}
      /\ UNCHANGED <<ground, registry, byKind, perceivers, stamp>>
    BY DEF NewTick, registryVars
<1>3. /\ DOMAIN Over = {"stamp", "entity", "k"} /\ Over.stamp = 0 /\ Over.stamp \in Nat
      /\ DOMAIN Over.entity.emitters \subseteq Nat
    BY DEF Over, Nothing
<1>4. t \in Nat
    BY <1>1 DEF WalkInv
<1>5. \/ GoesOver(Over, t, w) \/ Passes(Over, t, w)
  <2>1. ~Stays(Over, t, w)
      BY NothingIsDue DEF Stays
  <2>. QED
      BY <1>1, <1>3, <2>1, FollowingIs
<1>. HIDE DEF t, w
<1>6. RegistryInv' /\ IndexesAgree'
    BY <1>1, <1>2 DEF RegistryInv, IndexesAgree, SoundGround, KindsOf
<1>7. FiredInv'
  <2>1. DOMAIN <<>> = {} /\ <<>> \in Seq(Nat \X Nat)
      OBVIOUS
  <2>. QED
      BY <1>2, <2>1 DEF FiredInv
<1>8. before' \subseteq 1..stamp
    BY <1>1, <1>2 DEF RegistryInv
<1>9. \A id \in DOMAIN registry : registry[id].stamp > 0 /\ registry[id].stamp \in Nat
    BY <1>1 DEF RegistryInv
<1>10. CASE GoesOver(Over, t, w)
  <2>1. ~Walking'
      BY <1>2, <1>10 DEF Walking, GoesOver
  <2>2. WalkInv'
      BY <1>1, <1>2, <1>4, <1>8, <2>1 DEF WalkInv
  <2>3. AheadInv'
    <3>1. \A id \in DOMAIN registry : Due(registry[id].entity, t) = {}
        BY <1>3, <1>9, <1>10 DEF GoesOver
    <3>. QED
        BY <1>2, <3>1 DEF AheadInv, Due
  <2>. QED
      BY <1>6, <1>7, <2>2, <2>3 DEF EntitiesInv
<1>11. CASE Passes(Over, t, w)
  <2>1. PICK id \in DOMAIN registry :
            /\ DOMAIN w = {"stamp", "entity", "k"}
            /\ w.stamp = registry[id].stamp /\ w.entity = registry[id].entity
            /\ w.k \in Due(w.entity, t) /\ \A k \in Due(w.entity, t) : w.k <= k
            /\ \A j \in DOMAIN registry :
                  registry[j].stamp > 0 /\ Due(registry[j].entity, t) # {} =>
                     w.stamp <= registry[j].stamp
      BY <1>3, <1>11 DEF Passes
  <2>2. Walking'
      BY <1>2, <1>3, <1>9, <2>1 DEF Walking
  <2>3. w.stamp \in 1..stamp /\ DOMAIN w.entity.emitters \subseteq Nat
      BY <1>1, <2>1 DEF RegistryInv
  <2>4. \A j \in DOMAIN registry : registry[j].stamp = w.stamp => registry[j].entity = w.entity
      BY <1>1, <2>1 DEF RegistryInv
  <2>5. WalkInv'
      BY <1>2, <1>4, <1>8, <2>1, <2>2, <2>3, <2>4 DEF WalkInv, Due
  <2>6. \A j \in DOMAIN registry : \A k \in Due(registry[j].entity, t) :
            w.stamp < registry[j].stamp \/ (w.stamp = registry[j].stamp /\ w.k <= k)
    <3>. TAKE j \in DOMAIN registry
    <3>. TAKE k \in Due(registry[j].entity, t)
    <3>1. w.stamp <= registry[j].stamp /\ registry[j].stamp \in Nat /\ w.stamp \in Nat
        BY <1>9, <2>1, <2>3
    <3>2. CASE w.stamp = registry[j].stamp
        BY <2>1, <2>4, <3>2
    <3>. QED
        BY <3>1, <3>2
  <2>7. AheadInv'
      BY <1>2, <2>2, <2>6 DEF AheadInv, Ahead, Due
  <2>. QED
      BY <1>6, <1>7, <2>5, <2>7 DEF EntitiesInv
<1>. QED
    BY <1>5, <1>10, <1>11

LEMMA InvEmit == EntitiesInv /\ Emit => EntitiesInv'
<1>. SUFFICES ASSUME EntitiesInv, Emit PROVE EntitiesInv'
    OBVIOUS
<1>. DEFINE w == Following(walk, tick)
            heard == <<walk.stamp, walk.k>>
<1>1. /\ RegistryInv /\ WalkInv /\ FiredInv /\ AheadInv /\ IndexesAgree /\ Walking
    BY DEF EntitiesInv, Emit
<1>2. /\ walk' = w /\ fired' = Append(fired, heard)
      /\ UNCHANGED <<ground, registry, byKind, perceivers, stamp, tick, before, gone>>
    BY DEF Emit, registryVars
<1>3. /\ DOMAIN walk = {"stamp", "entity", "k"} /\ walk.stamp \in 1..stamp /\ stamp \in Nat
      /\ walk.stamp \in Nat /\ walk.stamp > 0 /\ walk.stamp \notin gone
      /\ DOMAIN walk.entity.emitters \subseteq Nat /\ walk.k \in Due(walk.entity, tick)
      /\ walk.k \in Nat
    BY <1>1 DEF WalkInv, RegistryInv, Due
<1>4. \A id \in DOMAIN registry : registry[id].stamp = walk.stamp => registry[id].entity = walk.entity
    BY <1>1 DEF WalkInv
<1>5. \/ Stays(walk, tick, w) \/ GoesOver(walk, tick, w) \/ Passes(walk, tick, w)
    BY <1>1, <1>3, FollowingIs
<1>. HIDE DEF w
<1>6. RegistryInv' /\ IndexesAgree'
    BY <1>1, <1>2 DEF RegistryInv, IndexesAgree, SoundGround, KindsOf
<1>7. \A id \in DOMAIN registry : registry[id].stamp \in Nat
    BY <1>1 DEF RegistryInv
<1>8. heard \in Nat \X Nat
    BY <1>3
<1>9. /\ fired \in Seq(Nat \X Nat) /\ DOMAIN fired' = 1..(Len(fired) + 1)
      /\ fired' \in Seq(Nat \X Nat)
      /\ DOMAIN fired = 1..Len(fired) /\ fired'[Len(fired) + 1] = heard
      /\ \A i \in DOMAIN fired : fired'[i] = fired[i] /\ fired[i] \in Nat \X Nat
      /\ \A i \in DOMAIN fired' : i \in DOMAIN fired \/ i = Len(fired) + 1
    BY <1>1, <1>2, <1>8 DEF FiredInv
<1>10. \A i \in DOMAIN fired : \/ fired[i][1] < walk.stamp
                               \/ fired[i][1] = walk.stamp /\ fired[i][2] < walk.k
    BY <1>1 DEF FiredInv
<1>11. \A i \in DOMAIN fired' : fired'[i][1] <= walk.stamp
                                /\ (fired'[i][1] = walk.stamp => fired'[i][2] <= walk.k)
                                /\ fired'[i][1] \in Nat /\ fired'[i][2] \in Nat
                                /\ fired'[i][1] \notin gone
  <2>1. /\ heard[1] = walk.stamp /\ heard[2] = walk.k
      OBVIOUS
  <2>. HIDE DEF heard
  <2>2. ASSUME NEW i \in DOMAIN fired
        PROVE  /\ fired[i][1] <= walk.stamp
               /\ fired[i][1] = walk.stamp => fired[i][2] <= walk.k
               /\ fired[i][1] \in Nat /\ fired[i][2] \in Nat
               /\ fired[i][1] \notin gone
    <3>1. fired[i][1] \in Nat /\ fired[i][2] \in Nat
        BY <1>9
    <3>2. fired[i][1] \notin gone
        BY <1>1 DEF FiredInv
    <3>. QED
        BY <1>3, <1>10, <3>1, <3>2
  <2>3. /\ heard[1] <= walk.stamp /\ heard[2] <= walk.k
        /\ heard[1] \in Nat /\ heard[2] \in Nat /\ heard[1] \notin gone
      BY <1>3, <2>1
  <2>. QED
      BY <1>9, <2>2, <2>3
<1>13. \A i, j \in DOMAIN fired' : fired'[i] = fired'[j] => i = j
  <2>1. \A i \in DOMAIN fired : fired[i] # heard
    <3>1. SUFFICES ASSUME NEW i \in DOMAIN fired, fired[i] = heard PROVE FALSE
        OBVIOUS
    <3>2. fired[i][1] = walk.stamp /\ fired[i][2] = walk.k
        BY <3>1
    <3>. QED
        BY <1>3, <1>10, <3>2
  <2>. QED
      BY <1>1, <1>9, <2>1 DEF FiredInv
<1>14. \A s, k : HasFired(s, k) => HasFired(s, k)'
  <2>1. \A i \in DOMAIN fired : i \in DOMAIN fired'
      BY <1>9
  <2>. QED
      BY <1>9, <2>1 DEF HasFired
<1>15. \A s, k : s = walk.stamp /\ k = walk.k => HasFired(s, k)'
  <2>1. Len(fired) + 1 \in DOMAIN fired'
      BY <1>9
  <2>. QED
      BY <1>9, <2>1 DEF HasFired
<1>16. \A s : \A k \in Due(walk.entity, tick) :
           s = walk.stamp /\ walk.k <= k => HasFired(s, k)' \/ k \in SameEntity(walk, tick)
  <2>1. \A k \in Due(walk.entity, tick) : k \in Nat
      BY <1>3 DEF Due
  <2>. QED
      BY <1>3, <1>15, <2>1 DEF SameEntity
<1>17. before \subseteq 1..stamp /\ gone \subseteq 1..stamp /\ tick \in Nat
       /\ \A id \in DOMAIN registry : registry[id].stamp \notin gone
    BY <1>1 DEF WalkInv
<1>18. CASE Stays(walk, tick, w)
  <2>1. /\ DOMAIN w = {"stamp", "entity", "k"} /\ w.stamp = walk.stamp /\ w.entity = walk.entity
        /\ w.k \in Due(walk.entity, tick) /\ w.k > walk.k /\ w.k \in Nat
        /\ \A k \in SameEntity(walk, tick) : w.k <= k
      BY <1>3, <1>18 DEF Stays, SameEntity, Due
  <2>2. Walking'
      BY <1>2, <1>3, <2>1 DEF Walking, Over
  <2>3. WalkInv'
      BY <1>2, <1>3, <1>4, <1>17, <2>1, <2>2 DEF WalkInv, Due
  <2>4. \A i \in DOMAIN fired' : \/ fired'[i][1] < w.stamp
                                 \/ fired'[i][1] = w.stamp /\ fired'[i][2] < w.k
      BY <1>3, <1>11, <2>1
  <2>5. FiredInv'
      BY <1>2, <1>9, <1>11, <1>13, <2>4 DEF FiredInv
  <2>6. AheadInv'
    <3>1. SUFFICES ASSUME NEW id \in DOMAIN registry, registry[id].stamp \in before,
                          NEW k \in Due(registry[id].entity, tick)
                   PROVE  \/ HasFired(registry[id].stamp, k)'
                          \/ w.stamp < registry[id].stamp
                          \/ w.stamp = registry[id].stamp /\ w.k <= k
        BY <1>2, <2>2 DEF AheadInv, Due, Ahead, HasFired
    <3>. DEFINE s == registry[id].stamp
    <3>2. HasFired(s, k) \/ Ahead(s, k)
        BY <1>1, <3>1 DEF AheadInv
    <3>3. CASE HasFired(s, k)
        BY <1>2, <1>14, <3>3 DEF HasFired
    <3>4. CASE s = walk.stamp /\ walk.k <= k
        BY <1>2, <1>4, <1>16, <2>1, <3>4 DEF HasFired
    <3>. QED
        BY <2>1, <3>2, <3>3, <3>4 DEF Ahead
  <2>. QED
      BY <1>6, <2>3, <2>5, <2>6 DEF EntitiesInv
<1>19. CASE GoesOver(walk, tick, w)
  <2>1. ~Walking'
      BY <1>2, <1>19 DEF GoesOver, Walking
  <2>2. WalkInv'
      BY <1>2, <1>17, <2>1 DEF WalkInv
  <2>3. FiredInv'
      BY <1>2, <1>9, <1>11, <1>13, <2>1 DEF FiredInv
  <2>4. AheadInv'
    <3>1. SUFFICES ASSUME NEW id \in DOMAIN registry, registry[id].stamp \in before,
                          NEW k \in Due(registry[id].entity, tick)
                   PROVE  HasFired(registry[id].stamp, k)'
        BY <1>2 DEF AheadInv, Due, HasFired
    <3>. DEFINE s == registry[id].stamp
    <3>2. HasFired(s, k) \/ Ahead(s, k)
        BY <1>1, <3>1 DEF AheadInv
    <3>3. CASE HasFired(s, k)
        BY <1>2, <1>14, <3>3 DEF HasFired
    <3>4. CASE s = walk.stamp /\ walk.k <= k
      <4>1. SameEntity(walk, tick) = {}
          BY <1>19 DEF GoesOver
      <4>. QED
          BY <1>2, <1>4, <1>16, <3>4, <4>1 DEF HasFired
    <3>5. CASE walk.stamp < s
        BY <1>19, <3>1, <3>5 DEF GoesOver
    <3>. QED
        BY <3>2, <3>3, <3>4, <3>5 DEF Ahead
  <2>. QED
      BY <1>6, <2>2, <2>3, <2>4 DEF EntitiesInv
<1>20. CASE Passes(walk, tick, w)
  <2>1. PICK id \in DOMAIN registry :
            /\ registry[id].stamp > walk.stamp /\ DOMAIN w = {"stamp", "entity", "k"}
            /\ w.stamp = registry[id].stamp /\ w.entity = registry[id].entity
            /\ w.k \in Due(w.entity, tick) /\ \A k \in Due(w.entity, tick) : w.k <= k
            /\ \A j \in DOMAIN registry :
                  registry[j].stamp > walk.stamp /\ Due(registry[j].entity, tick) # {} =>
                     w.stamp <= registry[j].stamp
      BY <1>20 DEF Passes
  <2>2. w.stamp \in 1..stamp /\ DOMAIN w.entity.emitters \subseteq Nat /\ w.stamp \notin gone
      BY <1>1, <1>17, <2>1 DEF RegistryInv
  <2>3. Walking'
      BY <1>2, <1>3, <2>1, <2>2 DEF Walking, Over
  <2>4. \A j \in DOMAIN registry : registry[j].stamp = w.stamp => registry[j].entity = w.entity
      BY <1>1, <2>1 DEF RegistryInv
  <2>5. WalkInv'
      BY <1>2, <1>17, <2>1, <2>2, <2>3, <2>4 DEF WalkInv, Due
  <2>6. \A i \in DOMAIN fired' : fired'[i][1] < w.stamp
      BY <1>3, <1>7, <1>11, <2>1
  <2>7. FiredInv'
      BY <1>2, <1>9, <1>11, <1>13, <2>6 DEF FiredInv
  <2>8. AheadInv'
    <3>1. SUFFICES ASSUME NEW j \in DOMAIN registry, registry[j].stamp \in before,
                          NEW k \in Due(registry[j].entity, tick)
                   PROVE  \/ HasFired(registry[j].stamp, k)'
                          \/ w.stamp < registry[j].stamp
                          \/ w.stamp = registry[j].stamp /\ w.k <= k
        BY <1>2, <2>3 DEF AheadInv, Due, Ahead, HasFired
    <3>. DEFINE s == registry[j].stamp
    <3>2. HasFired(s, k) \/ Ahead(s, k)
        BY <1>1, <3>1 DEF AheadInv
    <3>3. CASE HasFired(s, k)
        BY <1>2, <1>14, <3>3 DEF HasFired
    <3>4. CASE s = walk.stamp /\ walk.k <= k
      <4>1. SameEntity(walk, tick) = {}
          BY <1>20 DEF Passes
      <4>. QED
          BY <1>2, <1>4, <1>16, <3>4, <4>1 DEF HasFired
    <3>5. CASE walk.stamp < s
      <4>1. w.stamp <= s /\ w.stamp \in Nat /\ s \in Nat
          BY <1>7, <2>1, <3>1, <3>5
      <4>2. CASE s = w.stamp
          BY <2>1, <2>4, <3>1, <4>2
      <4>. QED
          BY <4>1, <4>2
    <3>. QED
        BY <3>2, <3>3, <3>4, <3>5 DEF Ahead
  <2>. QED
      BY <1>6, <2>5, <2>7, <2>8 DEF EntitiesInv
<1>. QED
    BY <1>5, <1>18, <1>19, <1>20

-----------------------------------------------------------------------------
(***************************************************************************)
(* Every step, and the theorem.                                              *)
(***************************************************************************)
LEMMA InvAgents == EntitiesInv /\ (Perceive \/ Tell) => EntitiesInv'
<1>. SUFFICES ASSUME EntitiesInv, Perceive \/ Tell PROVE EntitiesInv'
    OBVIOUS
<1>1. UNCHANGED <<ground, registry, byKind, perceivers, stamp, tick, walk, before, fired, gone>>
    BY DEF Perceive, Tell, registryVars
<1>. QED
    BY <1>1 DEF EntitiesInv, RegistryInv, SoundGround, WalkInv, Walking, Due, FiredInv, AheadInv, Ahead,
                HasFired, IndexesAgree, KindsOf

LEMMA InvNext == EntitiesInv /\ [EntitiesNext]_entityVars => EntitiesInv'
<1>. SUFFICES ASSUME EntitiesInv, [EntitiesNext]_entityVars PROVE EntitiesInv'
    OBVIOUS
<1>1. CASE NewTick
    BY <1>1, InvNewTick
<1>2. CASE Emit
    BY <1>2, InvEmit
<1>3. CASE Perceive \/ Tell
    BY <1>3, InvAgents
<1>4. ASSUME NEW e \in ground.adds, Add(e) PROVE EntitiesInv'
    BY <1>4, InvAdd
<1>5. ASSUME NEW id \in DOMAIN registry, RemoveEntity(id) PROVE EntitiesInv'
    BY <1>5, InvRemoveEntity
<1>6. CASE UNCHANGED entityVars
  <2>1. UNCHANGED <<ground, registry, byKind, perceivers, stamp, tick, walk, before, fired, gone>>
      BY <1>6 DEF entityVars, registryVars, tickVars
  <2>. QED
      BY <2>1 DEF EntitiesInv, RegistryInv, SoundGround, WalkInv, Walking, Due, FiredInv, AheadInv, Ahead,
                  HasFired, IndexesAgree, KindsOf
<1>. QED
    BY <1>1, <1>2, <1>3, <1>4, <1>5, <1>6 DEF EntitiesNext

LEMMA InvIsEnough == EntitiesInv => EntitiesAreHeard
<1>. SUFFICES ASSUME EntitiesInv PROVE EntitiesAreHeard
    OBVIOUS
<1>1. IndexesAgree
    BY DEF EntitiesInv
<1>2. WalkIsExact
  <2>1. ~Walking => \A s, k : ~Ahead(s, k)
      BY DEF Ahead
  <2>. QED
      BY <2>1 DEF EntitiesInv, FiredInv, AheadInv, HasFired, WalkIsExact
<1>. QED
    BY <1>1, <1>2 DEF EntitiesAreHeard

\* emitEntityStimuli (TickOrchestrator.ts:260-287) walks a Map that addEntity and removeEntity
\* change while it awaits the plugins: with any entities, each emitter that is due and stays is
\* heard once in the tick, and what was removed before its turn is silent; the indexes by kind
\* and of perceivers hold what the registry holds (InMemoryEntityRegistry.ts:13-35).  What is
\* there from the start has a place of its own in the Map.
THEOREM EmittersAreHeard == EntitiesSpec => []EntitiesAreHeard
<1>1. EntitiesInit => EntitiesInv
    BY EntitiesStart
<1>2. EntitiesInv /\ [EntitiesNext]_entityVars => EntitiesInv'
    BY InvNext
<1>3. EntitiesInv => EntitiesAreHeard
    BY InvIsEnough
<1>. QED
    BY <1>1, <1>2, <1>3, PTL DEF EntitiesSpec

-----------------------------------------------------------------------------
(***************************************************************************)
(* Minds: sequences that lose some of their elements.                      *)
(***************************************************************************)
\* The places that stay are counted in their order.
LEMMA NthIs ==
    ASSUME NEW m \in Nat, NEW places \in SUBSET (1..m)
    PROVE  /\ Cardinality(places) \in Nat /\ Cardinality(places) <= m
           /\ \A n \in 1..Cardinality(places) : Nth(places, n) \in places
           /\ \A n, k \in 1..Cardinality(places) : n < k => Nth(places, n) < Nth(places, k)
<1>. DEFINE card == Cardinality(places)
            upto(i) == {j \in places : j <= i}
            rank == [i \in places |-> Cardinality(upto(i))]
            ranks == {rank[i] : i \in places}
<1>1. IsFiniteSet(1..m) /\ Cardinality(1..m) = m
    BY FS_Interval
<1>2. IsFiniteSet(places) /\ card \in Nat /\ card <= m
    BY <1>1, FS_Subset, FS_CardinalityType
<1>3. ASSUME NEW i \in places
      PROVE  IsFiniteSet(upto(i)) /\ Cardinality(upto(i)) \in 1..card
  <2>1. IsFiniteSet(upto(i)) /\ Cardinality(upto(i)) \in Nat /\ Cardinality(upto(i)) <= card
      BY <1>2, FS_Subset, FS_CardinalityType
  <2>2. i \in upto(i)
      OBVIOUS
  <2>3. Cardinality(upto(i)) # 0
      BY <2>1, <2>2, FS_EmptySet
  <2>. QED
      BY <1>2, <2>1, <2>3
<1>4. ASSUME NEW i \in places, NEW k \in places, i < k
      PROVE  Cardinality(upto(i)) < Cardinality(upto(k))
  <2>1. i \in Nat /\ k \in Nat /\ \A j \in places : j \in Nat
      OBVIOUS
  <2>2. \A j \in places : j <= i => j <= k
      BY <1>4, <2>1
  <2>3. k <= k /\ ~(k <= i)
      BY <1>4, <2>1
  <2>5. k \in upto(k) /\ k \notin upto(i)
      BY <2>3
  <2>6. upto(i) \subseteq upto(k)
      BY <2>2
  <2>. HIDE DEF upto
  <2>4. Cardinality(upto(i)) <= Cardinality(upto(k)) /\ Cardinality(upto(i)) # Cardinality(upto(k))
      BY <1>3, <2>5, <2>6, FS_Subset
  <2>. QED
      BY <1>2, <1>3, <2>4
<1>5. ASSUME NEW i \in places, NEW k \in places, rank[i] = rank[k] PROVE i = k
    BY <1>2, <1>3, <1>4, <1>5
<1>6. ranks = 1..card
  <2>1. rank \in Bijection(places, ranks)
    <3>1. rank \in [places -> ranks]
        OBVIOUS
    <3>2. IsInjective(rank)
        BY <1>5 DEF IsInjective
    <3>. QED
        BY <3>1, <3>2 DEF Bijection, Injection, Surjection
  <2>2. IsFiniteSet(ranks) /\ Cardinality(ranks) = card
      BY <1>2, <2>1, FS_Bijection DEF ExistsBijection
  <2>3. ranks \subseteq 1..card /\ IsFiniteSet(1..card) /\ Cardinality(1..card) = card
    <3>1. \A b \in Nat : IsFiniteSet(1..b) /\ Cardinality(1..b) = b
      <4>1. \A b \in Int : IsFiniteSet(1..b) /\ Cardinality(1..b) = IF 1 > b THEN 0 ELSE b - 1 + 1
          BY FS_Interval
      <4>. QED
          BY <4>1
    <3>2. ranks \subseteq 1..card
        BY <1>3
    <3>. HIDE DEF card, ranks
    <3>. QED
        BY <1>2, <3>1, <3>2
  <2>. HIDE DEF ranks
  <2>. QED
      BY <2>2, <2>3, FS_Subset
<1>7. ASSUME NEW n \in 1..card PROVE Nth(places, n) \in places /\ rank[Nth(places, n)] = n
  <2>1. \E i \in places : Cardinality({j \in places : j <= i}) = n
      BY <1>6
  <2>2. Nth(places, n) \in places /\ Cardinality({j \in places : j <= Nth(places, n)}) = n
      BY <2>1 DEF Nth
  <2>. QED
      BY <2>2
<1>8. ASSUME NEW n \in 1..card, NEW k \in 1..card, n < k PROVE Nth(places, n) < Nth(places, k)
  <2>. DEFINE x == Nth(places, n)
              y == Nth(places, k)
  <2>1. x \in places /\ y \in places /\ rank[x] = n /\ rank[y] = k
      BY <1>7
  <2>. HIDE DEF x, y
  <2>2. ~(y < x) /\ x # y
      BY <1>2, <1>3, <1>4, <1>8, <2>1
  <2>3. x \in Nat /\ y \in Nat
      BY <2>1
  <2>4. x < y
      BY <2>2, <2>3
  <2>. QED
      BY <2>4 DEF x, y
<1>. QED
    BY <1>2, <1>7, <1>8

LEMMA SiftedIs ==
    ASSUME NEW S, NEW s \in Seq(S), NEW places \in SUBSET (DOMAIN s)
    PROVE  /\ Sifted(s, places) \in Seq(S) /\ Len(Sifted(s, places)) <= Len(s)
           /\ \E at \in [1..Len(Sifted(s, places)) -> places] :
                 /\ \A n \in 1..Len(Sifted(s, places)) : Sifted(s, places)[n] = s[at[n]]
                 /\ \A n, k \in 1..Len(Sifted(s, places)) : n < k => at[n] < at[k]
<1>. DEFINE card == Cardinality(places)
            at == [n \in 1..card |-> Nth(places, n)]
<1>1. Len(s) \in Nat /\ DOMAIN s = 1..Len(s) /\ \A i \in 1..Len(s) : s[i] \in S
    BY LenProperties, ElementOfSeq
<1>2. /\ card \in Nat /\ card <= Len(s) /\ \A n \in 1..card : Nth(places, n) \in places
      /\ \A n, k \in 1..card : n < k => Nth(places, n) < Nth(places, k)
    BY <1>1, NthIs
<1>3. Sifted(s, places) = [n \in 1..card |-> s[Nth(places, n)]]
    BY DEF Sifted
<1>. HIDE DEF card
<1>4. Sifted(s, places) \in [1..card -> S]
    BY <1>1, <1>2, <1>3
<1>5. Sifted(s, places) \in Seq(S) /\ Len(Sifted(s, places)) = card
    BY <1>2, <1>4, SeqDef
<1>6. at \in [1..card -> places]
    BY <1>2
<1>7. /\ \A n \in 1..card : Sifted(s, places)[n] = s[at[n]]
      /\ \A n, k \in 1..card : n < k => at[n] < at[k]
    BY <1>2, <1>3
<1>. QED
    BY <1>2, <1>5, <1>6, <1>7

\* A sequence without one of its elements.
LEMMA WithoutOneIs ==
    ASSUME NEW S, NEW m \in Seq(S), NEW i \in 1..Len(m)
    PROVE  /\ RemoveAt(m, i) \in Seq(S) /\ Len(RemoveAt(m, i)) = Len(m) - 1
           /\ \A j \in 1..(Len(m) - 1) : RemoveAt(m, i)[j] = IF j < i THEN m[j] ELSE m[j + 1]
<1>. DEFINE n == Len(m)
            p == SubSeq(m, 1, i - 1)
            q == SubSeq(m, i + 1, n)
<1>1. n \in Nat /\ i \in 1..n /\ \A j \in 1..n : m[j] \in S
    BY LenProperties, ElementOfSeq
<1>2. RemoveAt(m, i) = p \o q
    BY DEF RemoveAt
<1>. HIDE DEF n
<1>3. p \in Seq(S) /\ Len(p) = i - 1 /\ \A j \in 1..(i - 1) : p[j] = m[j]
  <2>. DEFINE b == i - 1
  <2>1. 1 \in Int /\ b \in Int /\ \A j \in 1..b : m[j] \in S
      BY <1>1
  <2>. HIDE DEF b
  <2>2. /\ SubSeq(m, 1, b) \in Seq(S)
        /\ Len(SubSeq(m, 1, b)) = IF 1 <= b THEN b - 1 + 1 ELSE 0
        /\ \A j \in 1..(b - 1 + 1) : SubSeq(m, 1, b)[j] = m[1 + j - 1]
      BY <2>1, SubSeqProperties
  <2>3. Len(SubSeq(m, 1, b)) = b /\ \A j \in 1..b : SubSeq(m, 1, b)[j] = m[j]
      BY <1>1, <2>2 DEF b
  <2>. QED
      BY <2>2, <2>3 DEF b
<1>4. q \in Seq(S) /\ Len(q) = n - i /\ \A j \in 1..(n - i) : q[j] = m[i + j]
  <2>. DEFINE a == i + 1
  <2>1. a \in Int /\ n \in Int /\ \A j \in a..n : m[j] \in S
      BY <1>1
  <2>. HIDE DEF a
  <2>2. /\ SubSeq(m, a, n) \in Seq(S)
        /\ Len(SubSeq(m, a, n)) = IF a <= n THEN n - a + 1 ELSE 0
        /\ \A j \in 1..(n - a + 1) : SubSeq(m, a, n)[j] = m[a + j - 1]
      BY <2>1, SubSeqProperties
  <2>3. Len(SubSeq(m, a, n)) = n - i /\ \A j \in 1..(n - i) : SubSeq(m, a, n)[j] = m[i + j]
      BY <1>1, <2>2 DEF a
  <2>. QED
      BY <2>2, <2>3 DEF a
<1>. HIDE DEF p, q
<1>5. /\ p \o q \in Seq(S) /\ Len(p \o q) = Len(p) + Len(q)
      /\ \A j \in 1..(Len(p) + Len(q)) : (p \o q)[j] = IF j <= Len(p) THEN p[j] ELSE q[j - Len(p)]
    BY <1>3, <1>4, ConcatProperties
<1>6. Len(p) + Len(q) = n - 1
    BY <1>1, <1>3, <1>4
<1>7. ASSUME NEW j \in 1..(n - 1)
      PROVE  (p \o q)[j] = IF j < i THEN m[j] ELSE m[j + 1]
  <2>1. CASE j < i
    <3>1. j \in 1..(i - 1) /\ j <= Len(p)
        BY <1>1, <1>3, <2>1
    <3>2. (p \o q)[j] = p[j] /\ p[j] = m[j]
        BY <1>3, <1>5, <1>6, <3>1
    <3>. QED
        BY <2>1, <3>2
  <2>2. CASE ~(j < i)
    <3>1. ~(j <= Len(p)) /\ j - Len(p) \in 1..(n - i) /\ i + (j - Len(p)) = j + 1
        BY <1>1, <1>3, <2>2
    <3>2. (p \o q)[j] = q[j - Len(p)] /\ q[j - Len(p)] = m[i + (j - Len(p))]
        BY <1>4, <1>5, <1>6, <3>1
    <3>. QED
        BY <2>2, <3>1, <3>2
  <2>. QED
      BY <2>1, <2>2
<1>. QED
    BY <1>2, <1>5, <1>6, <1>7 DEF n

-----------------------------------------------------------------------------
(***************************************************************************)
(* Minds: the caches.                                                      *)
(***************************************************************************)
Prompts == {m.prompts[<<a, t>>] : m \in Minds, a \in Thinkers, t \in Nat}
Kept == [prompt : Prompts, at : Int]
Single(entries) == \A i, j \in DOMAIN entries : entries[i].prompt = entries[j].prompt => i = j
Sound(entries) == entries \in Seq(Kept) /\ Len(entries) <= mind.max /\ Single(entries)

LEMMA EntriesAre ==
    ASSUME NEW s \in Seq(Kept)
    PROVE  /\ Len(s) \in Nat /\ DOMAIN s = 1..Len(s)
           /\ \A i \in 1..Len(s) : s[i] \in Kept /\ s[i].prompt \in Prompts /\ s[i].at \in Int
<1>1. Len(s) \in Nat /\ DOMAIN s = 1..Len(s) /\ \A i \in 1..Len(s) : s[i] \in Kept
    BY LenProperties, ElementOfSeq
<1>. QED
    BY <1>1 DEF Kept

LEMMA EntryIs ==
    ASSUME NEW s \in Seq(Kept), NEW p, Holds(s, p)
    PROVE  /\ Where(s, p) \in 1..Len(s) /\ Entry(s, p) = s[Where(s, p)]
           /\ Entry(s, p) \in Kept /\ Entry(s, p).prompt = p /\ Entry(s, p).at \in Int
<1>1. DOMAIN s = 1..Len(s) /\ \A i \in 1..Len(s) : s[i] \in Kept /\ s[i].at \in Int
    BY EntriesAre
<1>2. Where(s, p) \in Lookup(s, p)
    BY DEF Where, Holds
<1>. QED
    BY <1>1, <1>2 DEF Entry, Lookup

LEMMA OthersAre ==
    ASSUME NEW s \in Seq(Kept), NEW p, Holds(s, p), Single(s)
    PROVE  /\ Others(s, p) \in Seq(Kept) /\ Len(Others(s, p)) = Len(s) - 1 /\ Single(Others(s, p))
           /\ \A i \in DOMAIN Others(s, p) : Others(s, p)[i].prompt # p
<1>. DEFINE w == Where(s, p)
            o == Others(s, p)
<1>1. w \in 1..Len(s) /\ s[w].prompt = p /\ Len(s) \in Nat /\ DOMAIN s = 1..Len(s)
    BY EntryIs, EntriesAre
<1>2. o = RemoveAt(s, w)
    BY DEF Others
<1>. HIDE DEF w, o
<1>3. /\ o \in Seq(Kept) /\ Len(o) = Len(s) - 1
      /\ \A j \in 1..(Len(s) - 1) : o[j] = IF j < w THEN s[j] ELSE s[j + 1]
    BY <1>1, <1>2, WithoutOneIs
<1>4. DOMAIN o = 1..(Len(s) - 1)
    BY <1>3, EntriesAre
<1>5. \A j \in 1..(Len(s) - 1) : /\ (IF j < w THEN j ELSE j + 1) \in 1..Len(s)
                                /\ (IF j < w THEN j ELSE j + 1) # w
                                /\ o[j] = s[IF j < w THEN j ELSE j + 1]
    BY <1>1, <1>3
<1>6. ASSUME NEW i \in DOMAIN o PROVE o[i].prompt # p
  <2>. DEFINE k == IF i < w THEN i ELSE i + 1
  <2>1. k \in 1..Len(s) /\ k # w /\ o[i] = s[k]
      BY <1>4, <1>5
  <2>. HIDE DEF k
  <2>. QED
      BY <1>1, <2>1 DEF Single
<1>7. ASSUME NEW i \in DOMAIN o, NEW j \in DOMAIN o, o[i].prompt = o[j].prompt PROVE i = j
  <2>. DEFINE k == IF i < w THEN i ELSE i + 1
              l == IF j < w THEN j ELSE j + 1
  <2>1. k \in 1..Len(s) /\ o[i] = s[k] /\ l \in 1..Len(s) /\ o[j] = s[l]
      BY <1>4, <1>5
  <2>2. k = l => i = j
      BY <1>1, <1>4
  <2>. HIDE DEF k, l
  <2>3. k = l
      BY <1>1, <1>7, <2>1 DEF Single
  <2>. QED
      BY <2>2, <2>3
<1>. QED
    BY <1>3, <1>6, <1>7 DEF o, Single

\* An entry of another prompt at the end.
LEMMA OneEntryMore ==
    ASSUME NEW s \in Seq(Kept), Single(s), NEW e \in Kept, \A i \in DOMAIN s : s[i].prompt # e.prompt
    PROVE  Append(s, e) \in Seq(Kept) /\ Len(Append(s, e)) = Len(s) + 1 /\ Single(Append(s, e))
<1>1. /\ Append(s, e) \in Seq(Kept) /\ Len(Append(s, e)) = Len(s) + 1
      /\ \A i \in 1..Len(s) : Append(s, e)[i] = s[i]
      /\ Append(s, e)[Len(s) + 1] = e
    BY AppendProperties
<1>2. Len(s) \in Nat /\ DOMAIN s = 1..Len(s)
    BY EntriesAre
<1>3. DOMAIN Append(s, e) = 1..(Len(s) + 1)
    BY <1>1, EntriesAre
<1>4. \A i \in 1..(Len(s) + 1) : i = Len(s) + 1 \/ i \in 1..Len(s)
    BY <1>2
<1>5. Single(Append(s, e))
    BY <1>1, <1>2, <1>3, <1>4 DEF Single
<1>. QED
    BY <1>1, <1>5

LEMMA TouchedIsSound ==
    ASSUME NEW s, Sound(s), NEW p, mind.max \in Nat
    PROVE  Sound(Touched(s, p))
<1>1. s \in Seq(Kept) /\ Single(s) /\ Len(s) <= mind.max /\ Len(s) \in Nat
    BY EntriesAre DEF Sound
<1>2. CASE ~Holds(s, p)
    BY <1>2 DEF Touched
<1>3. CASE Holds(s, p)
  <2>1. /\ Others(s, p) \in Seq(Kept) /\ Len(Others(s, p)) = Len(s) - 1 /\ Single(Others(s, p))
        /\ \A i \in DOMAIN Others(s, p) : Others(s, p)[i].prompt # p
      BY <1>1, <1>3, OthersAre
  <2>2. Entry(s, p) \in Kept /\ Entry(s, p).prompt = p
      BY <1>1, <1>3, EntryIs
  <2>. DEFINE o == Others(s, p)
              e == Entry(s, p)
  <2>. HIDE DEF o, e
  <2>3. Append(o, e) \in Seq(Kept) /\ Len(Append(o, e)) = Len(o) + 1 /\ Single(Append(o, e))
      BY <2>1, <2>2, OneEntryMore DEF o, e
  <2>4. Touched(s, p) = Append(o, e) \/ Touched(s, p) = o
      BY <1>3 DEF Touched, o, e
  <2>5. Len(o) = Len(s) - 1 /\ o \in Seq(Kept) /\ Single(o)
      BY <2>1 DEF o
  <2>6. Len(Append(o, e)) <= mind.max /\ Len(o) <= mind.max
      BY <1>1, <2>3, <2>5
  <2>. QED
      BY <2>3, <2>4, <2>5, <2>6 DEF Sound
<1>. QED
    BY <1>2, <1>3

LEMMA StoredIsSound ==
    ASSUME NEW s, Sound(s), NEW e \in Kept, mind.max \in Nat \ {0}
    PROVE  Sound(Stored(s, e))
<1>. DEFINE room == IF Len(s) >= mind.max THEN Tail(s) ELSE s
            new == [i \in DOMAIN room |-> IF room[i].prompt = e.prompt THEN e ELSE room[i]]
<1>1. /\ s \in Seq(Kept) /\ Single(s) /\ Len(s) <= mind.max /\ Len(s) \in Nat
      /\ DOMAIN s = 1..Len(s)
    BY EntriesAre DEF Sound
<1>2. room \in Seq(Kept) /\ Single(room) /\ Len(room) \in Nat /\ Len(room) + 1 <= mind.max
  <2>1. CASE Len(s) >= mind.max
    <3>1. s # <<>>
        BY <1>1, <2>1, EmptySeq
    <3>2. /\ Tail(s) \in Seq(Kept) /\ Len(Tail(s)) = Len(s) - 1
          /\ \A i \in 1..Len(Tail(s)) : Tail(s)[i] = s[i + 1]
        BY <1>1, <3>1, HeadTailProperties
    <3>3. DOMAIN Tail(s) = 1..(Len(s) - 1)
        BY <3>2, EntriesAre
    <3>4. \A i \in 1..(Len(s) - 1) : i + 1 \in 1..Len(s) /\ Tail(s)[i] = s[i + 1]
        BY <1>1, <3>2
    <3>5. ASSUME NEW i \in 1..(Len(s) - 1), NEW j \in 1..(Len(s) - 1), Tail(s)[i].prompt = Tail(s)[j].prompt
          PROVE  i = j
      <4>1. i + 1 = j + 1
          BY <1>1, <3>4, <3>5 DEF Single
      <4>. QED
          BY <4>1
    <3>6. Single(Tail(s))
        BY <3>3, <3>5 DEF Single
    <3>. QED
        BY <1>1, <2>1, <3>1, <3>2, <3>6, EmptySeq
  <2>2. CASE ~(Len(s) >= mind.max)
      BY <1>1, <2>2
  <2>. QED
      BY <2>1, <2>2
<1>3. Stored(s, e) = IF Holds(room, e.prompt) THEN new ELSE Append(room, e)
    BY DEF Stored
<1>. HIDE DEF room
<1>4. DOMAIN room = 1..Len(room) /\ \A i \in 1..Len(room) : room[i] \in Kept
    BY <1>2, EntriesAre
<1>5. CASE Holds(room, e.prompt)
  <2>1. new \in [1..Len(room) -> Kept]
      BY <1>4
  <2>2. new \in Seq(Kept) /\ Len(new) = Len(room) /\ DOMAIN new = 1..Len(room)
      BY <1>2, <2>1, SeqDef
  <2>3. \A i \in 1..Len(room) : new[i].prompt = room[i].prompt
      BY <1>4
  <2>. HIDE DEF new
  <2>4. Single(new)
      BY <1>2, <1>4, <2>2, <2>3 DEF Single
  <2>. QED
      BY <1>1, <1>2, <1>3, <1>5, <2>2, <2>4 DEF Sound
<1>6. CASE ~Holds(room, e.prompt)
  <2>1. \A i \in DOMAIN room : room[i].prompt # e.prompt
      BY <1>6 DEF Holds, Lookup
  <2>2. Append(room, e) \in Seq(Kept) /\ Len(Append(room, e)) = Len(room) + 1 /\ Single(Append(room, e))
      BY <1>2, <2>1, OneEntryMore
  <2>. QED
      BY <1>2, <1>3, <1>6, <2>2 DEF Sound
<1>. QED
    BY <1>5, <1>6

LEMMA SweptIsSound ==
    ASSUME NEW s, Sound(s), NEW t, mind.max \in Nat
    PROVE  Sound(Swept(s, t))
<1>. DEFINE fresh == {i \in DOMAIN s : ~Expired(s[i], t)}
            r == Sifted(s, fresh)
<1>1. s \in Seq(Kept) /\ Single(s) /\ Len(s) <= mind.max /\ Len(s) \in Nat
    BY EntriesAre DEF Sound
<1>2. fresh \in SUBSET DOMAIN s
    OBVIOUS
<1>. HIDE DEF fresh
<1>3. /\ r \in Seq(Kept) /\ Len(r) <= Len(s)
      /\ \E at \in [1..Len(r) -> fresh] : /\ \A n \in 1..Len(r) : r[n] = s[at[n]]
                                         /\ \A n, k \in 1..Len(r) : n < k => at[n] < at[k]
    BY <1>1, <1>2, SiftedIs
<1>. HIDE DEF r
<1>4. Len(r) \in Nat /\ DOMAIN r = 1..Len(r) /\ DOMAIN s = 1..Len(s)
    BY <1>1, <1>3, EntriesAre
<1>5. Single(r)
  <2>1. PICK at \in [1..Len(r) -> fresh] : /\ \A n \in 1..Len(r) : r[n] = s[at[n]]
                                          /\ \A n, k \in 1..Len(r) : n < k => at[n] < at[k]
      BY <1>3
  <2>2. \A n \in 1..Len(r) : at[n] \in 1..Len(s) /\ at[n] \in DOMAIN s
      BY <1>2, <1>4
  <2>3. \A n, k \in 1..Len(r) : r[n].prompt = r[k].prompt => at[n] = at[k]
      BY <1>1, <2>1, <2>2 DEF Single
  <2>4. \A n, k \in 1..Len(r) : at[n] = at[k] => n = k
    <3>1. \A n, k \in 1..Len(r) : n < k \/ k < n \/ n = k
        BY <1>4
    <3>2. \A n, k \in 1..Len(r) : n < k => at[n] # at[k]
        BY <2>1, <2>2
    <3>. QED
        BY <3>1, <3>2
  <2>. QED
      BY <1>4, <2>3, <2>4 DEF Single
<1>6. Swept(s, t) = r \/ Swept(s, t) = s
    BY DEF Swept, r, fresh
<1>7. Len(r) <= mind.max
    BY <1>1, <1>3, <1>4
<1>. QED
    BY <1>3, <1>5, <1>6, <1>7 DEF Sound

-----------------------------------------------------------------------------
(***************************************************************************)
(* Minds: the messages of a thought.                                       *)
(***************************************************************************)
Calls == UNION {UNION {Range(r) : r \in m.replies} : m \in Minds}
Message == [role : {"assistant"}, calls : Seq(Calls)]
           \cup [role : {"tool"}, call : {c.id : c \in Calls}]
Thought == [at : {"think", "asked", "sleep", "tools", "done", "failed"}, loops : Int, attempt : Int,
            messages : Seq(Message), calls : Seq(Calls), results : Int]

\* Message i asked for calls: n of them are answered right behind it, and, if nothing else
\* has been said since, those undone are still to come.
AnswersOf(said, i, n, undone) ==
    /\ \A j \in 1..n : said[i + j].role = "tool" /\ said[i + j].call = said[i].calls[j].id
    /\ i + n < Len(said) => said[i + n + 1].role = "assistant" /\ Len(said[i].calls) = n
    /\ i + n = Len(said) => /\ Len(said[i].calls) = n + Len(undone)
                            /\ \A j \in 1..Len(undone) : said[i].calls[n + j] = undone[j]
InOrder(said, undone) ==
    \A i \in 1..Len(said) :
       said[i].role = "assistant" => \E n \in 0..(Len(said) - i) : AnswersOf(said, i, n, undone)

LEMMA MessagesAre ==
    ASSUME NEW said \in Seq(Message)
    PROVE  /\ Len(said) \in Nat /\ DOMAIN said = 1..Len(said)
           /\ \A i \in 1..Len(said) : /\ said[i].role \in {"assistant", "tool"}
                                      /\ said[i].role = "assistant" =>
                                            /\ said[i].calls \in Seq(Calls) /\ Len(said[i].calls) \in Nat
                                            /\ DOMAIN said[i].calls = 1..Len(said[i].calls)
<1>1. Len(said) \in Nat /\ DOMAIN said = 1..Len(said) /\ \A i \in 1..Len(said) : said[i] \in Message
    BY LenProperties, ElementOfSeq
<1>2. \A x \in Message : x.role \in {"assistant", "tool"} /\ (x.role = "assistant" => x.calls \in Seq(Calls))
    BY DEF Message
<1>3. \A c \in Seq(Calls) : Len(c) \in Nat /\ DOMAIN c = 1..Len(c)
    BY LenProperties
<1>. QED
    BY <1>1, <1>2, <1>3

\* The model asks for calls when nothing is undone.
LEMMA AskedInOrder ==
    ASSUME NEW said \in Seq(Message), InOrder(said, <<>>), NEW reply \in Seq(Calls)
    PROVE  LET x == [role |-> "assistant", calls |-> reply]
           IN  Append(said, x) \in Seq(Message) /\ InOrder(Append(said, x), reply)
<1>. DEFINE x == [role |-> "assistant", calls |-> reply]
            new == Append(said, x)
            l == Len(said)
<1>1. x \in Message /\ x.role = "assistant" /\ x.calls = reply
    BY DEF Message
<1>. HIDE DEF x
<1>2. /\ new \in Seq(Message) /\ Len(new) = l + 1 /\ \A i \in 1..l : new[i] = said[i]
      /\ new[l + 1] = x
    BY <1>1, AppendProperties
<1>3. l \in Nat /\ Len(reply) \in Nat
    BY LenProperties
<1>. HIDE DEF new
<1>4. ASSUME NEW i \in 1..Len(new), new[i].role = "assistant"
      PROVE  \E n \in 0..(Len(new) - i) : AnswersOf(new, i, n, reply)
  <2>1. CASE i = l + 1
    <3>1. AnswersOf(new, i, 0, reply)
        BY <1>1, <1>2, <1>3, <2>1 DEF AnswersOf
    <3>. QED
        BY <1>2, <1>3, <2>1, <3>1
  <2>2. CASE i # l + 1
    <3>1. i \in 1..l /\ said[i].role = "assistant" /\ new[i] = said[i]
        BY <1>2, <1>3, <1>4, <2>2
    <3>2. PICK n \in 0..(l - i) : AnswersOf(said, i, n, <<>>)
        BY <3>1 DEF InOrder
    <3>3. \A j \in 1..n : i + j \in 1..l
        BY <1>3, <3>1
    <3>4. i + n = l => Len(said[i].calls) = n
      <4>1. Len(<<>>) = 0 /\ Len(said[i].calls) \in Nat
          BY <3>1, MessagesAre
      <4>. QED
          BY <3>2, <4>1 DEF AnswersOf
    <3>5. i + n # l => i + n + 1 \in 1..l /\ i + n < l
        BY <1>3, <3>1, <3>2
    <3>6. i + n < Len(new) /\ i + n # Len(new)
        BY <1>2, <1>3, <3>1, <3>2
    <3>7. Len(said[i].calls) = n /\ new[i + n + 1].role = "assistant"
      <4>1. CASE i + n = l
          BY <1>1, <1>2, <3>4, <4>1
      <4>2. CASE i + n # l
          BY <1>2, <3>2, <3>5, <4>2 DEF AnswersOf
      <4>. QED
          BY <4>1, <4>2
    <3>8. \A j \in 1..n : new[i + j].role = "tool" /\ new[i + j].call = new[i].calls[j].id
        BY <1>2, <3>1, <3>2, <3>3 DEF AnswersOf
    <3>9. AnswersOf(new, i, n, reply)
        BY <3>1, <3>6, <3>7, <3>8 DEF AnswersOf
    <3>10. n \in 0..(Len(new) - i)
        BY <1>2, <1>3, <3>1
    <3>. QED
        BY <3>9, <3>10
  <2>. QED
      BY <2>1, <2>2
<1>5. InOrder(new, reply)
    BY <1>4 DEF InOrder
<1>. QED
    BY <1>2, <1>5 DEF new, x

\* The first of the undone calls is answered.
LEMMA AnsweredInOrder ==
    ASSUME NEW said \in Seq(Message), NEW undone \in Seq(Calls), undone # <<>>, InOrder(said, undone)
    PROVE  LET x == [role |-> "tool", call |-> Head(undone).id]
           IN  Append(said, x) \in Seq(Message) /\ InOrder(Append(said, x), Tail(undone))
<1>. DEFINE x == [role |-> "tool", call |-> Head(undone).id]
            new == Append(said, x)
            l == Len(said)
            rest == Tail(undone)
<1>1. /\ Head(undone) \in Calls /\ rest \in Seq(Calls) /\ Len(rest) = Len(undone) - 1
      /\ \A i \in 1..Len(rest) : rest[i] = undone[i + 1]
    BY HeadTailProperties
<1>2. Len(undone) \in Nat /\ Len(undone) # 0 /\ Head(undone) = undone[1]
    BY EmptySeq
<1>3. x \in Message /\ x.role = "tool" /\ x.call = undone[1].id
    BY <1>1, <1>2 DEF Message
<1>. HIDE DEF x, rest
<1>4. /\ new \in Seq(Message) /\ Len(new) = l + 1 /\ \A i \in 1..l : new[i] = said[i]
      /\ new[l + 1] = x
    BY <1>3, AppendProperties
<1>5. l \in Nat
    BY LenProperties
<1>. HIDE DEF new
<1>6. ASSUME NEW i \in 1..Len(new), new[i].role = "assistant"
      PROVE  \E n \in 0..(Len(new) - i) : AnswersOf(new, i, n, rest)
  <2>1. i \in 1..l /\ said[i].role = "assistant" /\ new[i] = said[i]
    <3>1. i # l + 1
        BY <1>3, <1>4, <1>6
    <3>. QED
        BY <1>4, <1>5, <1>6, <3>1
  <2>2. PICK n \in 0..(l - i) : AnswersOf(said, i, n, undone)
      BY <2>1 DEF InOrder
  <2>3. \A j \in 1..n : i + j \in 1..l
      BY <1>5, <2>1
  <2>0. n \in Nat /\ i \in Nat /\ l \in Nat /\ i >= 1 /\ i + n <= l
      BY <1>5, <2>1, <2>2
  <2>. HIDE DEF l
  <2>4. CASE i + n = l
    <3>1. /\ Len(said[i].calls) = n + Len(undone)
          /\ \A j \in 1..Len(undone) : said[i].calls[n + j] = undone[j]
        BY <2>2, <2>4 DEF AnswersOf, l
    <3>2. 1 \in 1..Len(undone)
        BY <1>2
    <3>3. said[i].calls[n + 1] = undone[1]
        BY <3>1, <3>2
    <3>4. new[i + (n + 1)] = x
      <4>1. i + (n + 1) = l + 1
          BY <2>0, <2>4
      <4>. QED
          BY <1>4, <4>1
    <3>5. \A j \in 1..n : new[i + j].role = "tool" /\ new[i + j].call = new[i].calls[j].id
        BY <1>4, <2>1, <2>2, <2>3 DEF AnswersOf
    <3>6. \A j \in 1..(n + 1) : new[i + j].role = "tool" /\ new[i + j].call = new[i].calls[j].id
      <4>1. new[i + (n + 1)].role = "tool" /\ new[i + (n + 1)].call = new[i].calls[n + 1].id
          BY <1>3, <2>1, <3>3, <3>4
      <4>2. \A j \in 1..(n + 1) : j = n + 1 \/ j \in 1..n
          OBVIOUS
      <4>. QED
          BY <3>5, <4>1, <4>2
    <3>7. i + (n + 1) = Len(new)
      <4>1. Len(new) = l + 1
          BY <1>4
      <4>. QED
          BY <2>0, <2>4, <4>1
    <3>8. Len(new[i].calls) = (n + 1) + Len(rest)
        BY <1>1, <1>2, <2>1, <3>1
    <3>9. \A j \in 1..Len(rest) : new[i].calls[(n + 1) + j] = rest[j]
      <4>1. \A j \in 1..Len(rest) : j + 1 \in 1..Len(undone) /\ n + (j + 1) = (n + 1) + j
          BY <1>1, <1>2
      <4>. QED
          BY <1>1, <2>1, <3>1, <4>1
    <3>10. AnswersOf(new, i, n + 1, rest)
        BY <3>6, <3>7, <3>8, <3>9 DEF AnswersOf
    <3>11. n + 1 \in 0..(Len(new) - i)
        BY <2>0, <3>7
    <3>. QED
        BY <3>10, <3>11
  <2>5. CASE i + n # l
    <3>1. i + n < l /\ i + n + 1 \in 1..l /\ i + n < Len(new) /\ i + n # Len(new)
        BY <1>4, <2>0, <2>5
    <3>2. said[i + n + 1].role = "assistant" /\ Len(said[i].calls) = n
        BY <2>2, <3>1 DEF AnswersOf, l
    <3>3. new[i + n + 1] = said[i + n + 1]
        BY <1>4, <3>1
    <3>4. \A j \in 1..n : new[i + j].role = "tool" /\ new[i + j].call = new[i].calls[j].id
        BY <1>4, <2>1, <2>2, <2>3 DEF AnswersOf
    <3>5. AnswersOf(new, i, n, rest)
        BY <2>1, <3>1, <3>2, <3>3, <3>4 DEF AnswersOf
    <3>6. n \in 0..(Len(new) - i)
        BY <1>4, <1>5, <2>1
    <3>. QED
        BY <3>5, <3>6
  <2>. QED
      BY <2>4, <2>5
<1>7. InOrder(new, rest)
    BY <1>6 DEF InOrder
<1>. QED
    BY <1>4, <1>7 DEF new, x, rest

\* When nothing is undone every message has its answers right behind it.
LEMMA AllInOrder ==
    ASSUME NEW said \in Seq(Message), InOrder(said, <<>>), NEW i \in DOMAIN said, said[i].role = "assistant"
    PROVE  LET answers == {j \in DOMAIN said : j > i /\ \A k \in (i + 1)..j : said[k].role = "tool"}
           IN  CallIds(said[i]) = [j \in 1..Cardinality(answers) |-> said[i + j].call]
<1>. DEFINE answers == {j \in DOMAIN said : j > i /\ \A k \in (i + 1)..j : said[k].role = "tool"}
            l == Len(said)
<1>1. /\ l \in Nat /\ DOMAIN said = 1..l /\ i \in 1..l
      /\ DOMAIN said[i].calls = 1..Len(said[i].calls) /\ Len(said[i].calls) \in Nat
    BY MessagesAre
<1>2. PICK n \in 0..(l - i) : AnswersOf(said, i, n, <<>>)
    BY <1>1 DEF InOrder
<1>3. Len(said[i].calls) = n
  <2>1. Len(<<>>) = 0
      OBVIOUS
  <2>2. i + n < l \/ i + n = l
      BY <1>1, <1>2
  <2>. QED
      BY <1>1, <1>2, <2>1, <2>2 DEF AnswersOf
<1>4. answers = (i + 1)..(i + n)
  <2>1. ASSUME NEW j \in (i + 1)..(i + n) PROVE j \in answers
    <3>1. j \in 1..l /\ j > i
        BY <1>1, <1>2
    <3>2. ASSUME NEW k \in (i + 1)..j PROVE said[k].role = "tool"
      <4>1. k - i \in 1..n /\ i + (k - i) = k
          BY <1>1, <1>2
      <4>. QED
          BY <1>2, <4>1 DEF AnswersOf
    <3>. QED
        BY <1>1, <3>1, <3>2
  <2>2. ASSUME NEW j \in answers PROVE j \in (i + 1)..(i + n)
    <3>1. j \in 1..l /\ j > i /\ \A k \in (i + 1)..j : said[k].role = "tool"
        BY <1>1
    <3>2. SUFFICES ASSUME j > i + n PROVE FALSE
        BY <1>1, <1>2, <3>1
    <3>3. i + n < l /\ i + n + 1 \in (i + 1)..j
        BY <1>1, <1>2, <3>1, <3>2
    <3>4. said[i + n + 1].role = "assistant"
        BY <1>2, <3>3 DEF AnswersOf
    <3>. QED
        BY <3>1, <3>3, <3>4
  <2>. HIDE DEF answers
  <2>. QED
      BY <2>1, <2>2
<1>. HIDE DEF answers
<1>5. Cardinality(answers) = n
  <2>. DEFINE b == i + 1
              c == i + n
  <2>1. b \in Int /\ c \in Int /\ answers = b..c /\ (IF b > c THEN 0 ELSE c - b + 1) = n
      BY <1>1, <1>2, <1>4
  <2>. HIDE DEF b, c
  <2>. QED
      BY <2>1, FS_Interval
<1>6. \A j \in 1..n : said[i].calls[j].id = said[i + j].call
    BY <1>2 DEF AnswersOf
<1>7. CallIds(said[i]) = [j \in 1..n |-> said[i + j].call]
    BY <1>1, <1>3, <1>6 DEF CallIds
<1>. QED
    BY <1>5, <1>7 DEF answers

-----------------------------------------------------------------------------
(***************************************************************************)
(* Minds: the inductive invariant.                                         *)
(***************************************************************************)
New == [at |-> "new"]
Fits(g) == /\ g.at \in {"think", "asked", "sleep", "tools"} => InOrder(g.messages, g.calls)
           /\ g.at \in {"think", "asked", "sleep"} => g.calls = <<>>

GraphInv == /\ graph \in [Thinkers -> {Idle, New} \cup Thought]
            /\ \A a \in Thinkers : graph[a] \in Thought => Fits(graph[a])

\* Who has been bootstrapped has an adapter, and each adapter its cache.
KeysInv == /\ DOMAIN pool = DOMAIN cache
           /\ \A a \in Thinkers : graph[a].at # "new" => Adapter(a) \in DOMAIN cache
CachesInv == cache = [k \in DOMAIN cache |-> cache[k]] /\ \A k \in DOMAIN cache : Sound(cache[k])
ServedInv ==
    /\ served = [a \in Thinkers |-> served[a]]
    /\ \A a \in Thinkers : served[a] # <<>> =>
          LET s == served[a][1]
          IN  s.tick - s.entry.at <= mind.ttl /\ s.entry.prompt = mind.prompts[<<a, s.tick>>]
MindInv == mind \in Minds /\ now \in Nat /\ GraphInv /\ KeysInv /\ CachesInv /\ ServedInv

LEMMA MindIs ==
    ASSUME mind \in Minds
    PROVE  /\ mind.max \in Nat \ {0} /\ mind.ttl \in Int /\ mind.cached \in BOOLEAN
           /\ \A reply \in mind.replies : reply \in Seq(Calls)
<1>1. ASSUME NEW reply \in mind.replies PROVE reply \in Seq(Calls)
  <2>1. reply \in Seq(Range(reply)) /\ Range(reply) \subseteq Calls
      BY <1>1, MindsAreSound DEF Calls
  <2>. QED
      BY <2>1, SeqMonotonic
<1>. QED
    BY <1>1, MindsAreSound

LEMMA ThoughtIs ==
    ASSUME GraphInv, NEW a \in Thinkers, graph[a].at \notin {"new", "idle"}
    PROVE  graph[a] \in Thought /\ Fits(graph[a])
BY DEF GraphInv, Idle, New

\* An agent goes on thinking.
LEMMA ThoughtGoesOn ==
    ASSUME MindInv, NEW a \in Thinkers, NEW g \in Thought, Fits(g), graph[a].at # "new",
           graph' = [graph EXCEPT ![a] = g], DOMAIN cache' = DOMAIN cache, UNCHANGED <<mind, pool>>
    PROVE  GraphInv' /\ KeysInv'
<1>1. /\ graph \in [Thinkers -> {Idle, New} \cup Thought]
      /\ \A b \in Thinkers : graph[b] \in Thought => Fits(graph[b])
    BY DEF MindInv, GraphInv
<1>2. /\ graph' \in [Thinkers -> {Idle, New} \cup Thought] /\ graph'[a] = g
      /\ \A b \in Thinkers : b # a => graph'[b] = graph[b]
    BY <1>1
<1>3. GraphInv'
    BY <1>1, <1>2 DEF GraphInv
<1>4. \A b \in Thinkers : graph'[b].at # "new" => Adapter(b) \in DOMAIN cache
    BY <1>2 DEF MindInv, KeysInv
<1>. QED
    BY <1>3, <1>4 DEF MindInv, KeysInv, Adapter

LEMMA HeardIs ==
    ASSUME NEW g \in Thought, g.calls = <<>>, InOrder(g.messages, g.calls), NEW reply \in Seq(Calls)
    PROVE  Heard(g, reply) \in Thought /\ Fits(Heard(g, reply))
<1>. DEFINE x == [role |-> "assistant", calls |-> reply]
            said == Append(g.messages, x)
            loops == g.loops + 1
            none == 0
            after == [g EXCEPT !.messages = said, !.calls = reply, !.loops = loops, !.attempt = none]
            to == Continues(after, reply = <<>>)
<1>1. /\ loops \in Int /\ none \in Int /\ g.messages \in Seq(Message) /\ g.loops \in Int /\ g.results \in Int
      /\ g.at \in {"think", "asked", "sleep", "tools", "done", "failed"}
    BY DEF Thought
<1>2. said \in Seq(Message) /\ InOrder(said, reply)
    BY <1>1, AskedInOrder
<1>3. Heard(g, reply) = [after EXCEPT !.at = to]
    BY DEF Heard
<1>4. to \in {"tools", "done"}
    BY DEF Continues
<1>. HIDE DEF said, loops, none, to
<1>5. /\ after \in Thought /\ after.messages = said /\ after.calls = reply
  <2>. DEFINE g1 == [g EXCEPT !.messages = said]
              g2 == [g1 EXCEPT !.calls = reply]
              g3 == [g2 EXCEPT !.loops = loops]
  <2>1. after = [g3 EXCEPT !.attempt = none]
      OBVIOUS
  <2>2. said \in Seq(Message)
      BY <1>2
  <2>3. g1 \in Thought /\ g1.messages = said
      BY <2>2 DEF Thought
  <2>. HIDE DEF g1
  <2>4. g2 \in Thought /\ g2.messages = said /\ g2.calls = reply
      BY <2>3 DEF Thought
  <2>. HIDE DEF g2
  <2>5. g3 \in Thought /\ g3.messages = said /\ g3.calls = reply
      BY <1>1, <2>4 DEF Thought
  <2>. HIDE DEF g3
  <2>6. [g3 EXCEPT !.attempt = none] \in Thought
        /\ [g3 EXCEPT !.attempt = none].messages = said /\ [g3 EXCEPT !.attempt = none].calls = reply
      BY <1>1, <2>5 DEF Thought
  <2>. HIDE DEF after
  <2>. QED
      BY <2>1, <2>6
<1>. HIDE DEF after
<1>6. /\ [after EXCEPT !.at = to] \in Thought /\ [after EXCEPT !.at = to].at = to
      /\ [after EXCEPT !.at = to].messages = said /\ [after EXCEPT !.at = to].calls = reply
    BY <1>4, <1>5 DEF Thought
<1>. QED
    BY <1>2, <1>3, <1>4, <1>6 DEF Fits

LEMMA ExecutedIs ==
    ASSUME NEW a \in Thinkers, NEW g \in Thought, g.at = "tools", g.calls # <<>>, Fits(g)
    PROVE  Executed(a, g) \in Thought /\ Fits(Executed(a, g))
<1>. DEFINE x == [role |-> "tool", call |-> Head(g.calls).id]
            said == Append(g.messages, x)
            rest == Tail(g.calls)
            count == g.results + 1
<1>1. g.messages \in Seq(Message) /\ g.calls \in Seq(Calls) /\ count \in Int
    BY DEF Thought
<1>2. said \in Seq(Message) /\ InOrder(said, rest)
    BY <1>1, AnsweredInOrder DEF Fits
<1>3. rest \in Seq(Calls)
    BY <1>1, HeadTailProperties
<1>4. Executed(a, g) = [g EXCEPT !.calls = rest, !.results = count, !.messages = said]
    BY DEF Executed
<1>. HIDE DEF said, rest, count
<1>5. /\ Executed(a, g) \in Thought /\ Executed(a, g).at = "tools"
      /\ Executed(a, g).messages = said /\ Executed(a, g).calls = rest
    BY <1>1, <1>2, <1>3, <1>4 DEF Thought
<1>. QED
    BY <1>2, <1>5 DEF Fits

LEMMA MindsStart == ThinkingInit => MindInv
<1>. SUFFICES ASSUME ThinkingInit PROVE MindInv
    OBVIOUS
<1>1. \A a \in Thinkers : graph[a] = New /\ New \notin Thought /\ New.at = "new"
    BY DEF ThinkingInit, New, Thought
<1>2. GraphInv
    BY <1>1 DEF ThinkingInit, GraphInv, New
<1>3. DOMAIN cache = {} /\ DOMAIN pool = {} /\ cache = [k \in DOMAIN cache |-> cache[k]]
    BY DEF ThinkingInit
<1>4. KeysInv /\ CachesInv
    BY <1>1, <1>3 DEF KeysInv, CachesInv
<1>5. ServedInv
    BY DEF ThinkingInit, ServedInv
<1>6. mind \in Minds /\ now \in Nat
    BY DEF ThinkingInit
<1>. QED
    BY <1>2, <1>4, <1>5, <1>6 DEF MindInv

\* A thought at another place of its graph.
LEMMA PlacedIs ==
    ASSUME NEW g \in Thought, NEW to \in {"think", "asked", "sleep", "tools", "done", "failed"},
           InOrder(g.messages, g.calls), to = "tools" \/ g.calls = <<>>
    PROVE  LET h == [g EXCEPT !.at = to] IN h \in Thought /\ Fits(h) /\ h.at = to
<1>. DEFINE h == [g EXCEPT !.at = to]
<1>1. h \in Thought /\ h.at = to /\ h.messages = g.messages /\ h.calls = g.calls
    BY DEF Thought
<1>. QED
    BY <1>1 DEF Fits

\* Nothing but a thought changes, and what has been counted.
LEMMA OnlyThinks ==
    ASSUME MindInv, NEW a \in Thinkers, NEW g \in Thought, Fits(g), graph[a].at # "new",
           graph' = [graph EXCEPT ![a] = g], UNCHANGED <<mind, now, pool, cache, served>>
    PROVE  MindInv'
<1>1. GraphInv' /\ KeysInv'
    BY ThoughtGoesOn
<1>2. CachesInv'
    BY DEF MindInv, CachesInv, Sound
<1>3. ServedInv'
    BY DEF MindInv, ServedInv
<1>. QED
    BY <1>1, <1>2, <1>3 DEF MindInv

\* A cache is another sound one.
LEMMA OneCache ==
    ASSUME MindInv, NEW k \in DOMAIN cache, NEW c, Sound(c), cache' = [cache EXCEPT ![k] = c],
           UNCHANGED mind
    PROVE  CachesInv' /\ DOMAIN cache' = DOMAIN cache
<1>1. /\ DOMAIN cache' = DOMAIN cache /\ cache'[k] = c
      /\ \A l \in DOMAIN cache : l # k => cache'[l] = cache[l]
    OBVIOUS
<1>2. cache' = [l \in DOMAIN cache' |-> cache'[l]]
    BY <1>1
<1>3. \A l \in DOMAIN cache : Sound(cache'[l])
    BY <1>1 DEF MindInv, CachesInv
<1>4. CachesInv'
    BY <1>1, <1>2, <1>3 DEF CachesInv, Sound
<1>. QED
    BY <1>1, <1>4

LEMMA PromptIs ==
    ASSUME MindInv, NEW a \in Thinkers
    PROVE  Prompt(a) \in Prompts
BY DEF MindInv, Prompt, Prompts

-----------------------------------------------------------------------------
(***************************************************************************)
(* Minds: its steps.                                                       *)
(***************************************************************************)
LEMMA GetAdapterKeeps ==
    ASSUME MindInv, NEW a \in Thinkers, GetAdapter(a)
    PROVE  MindInv'
<1>. DEFINE key == Adapter(a)
<1>1. /\ graph \in [Thinkers -> {Idle, New} \cup Thought] /\ graph' = [graph EXCEPT ![a] = Idle]
      /\ UNCHANGED <<mind, now, served>>
      /\ IF key \in DOMAIN pool THEN UNCHANGED <<pool, cache>>
         ELSE pool' = Put(pool, key, mind.llm[a]) /\ cache' = Put(cache, key, <<>>)
    BY DEF MindInv, GraphInv, GetAdapter, Adapter
<1>2. Idle \notin Thought /\ Idle.at = "idle"
    BY DEF Idle, Thought
<1>3. GraphInv'
    BY <1>1, <1>2 DEF MindInv, GraphInv
<1>. HIDE DEF key
<1>4. DOMAIN pool = DOMAIN cache /\ \A b \in Thinkers : graph[b].at # "new" => Adapter(b) \in DOMAIN cache
    BY DEF MindInv, KeysInv
<1>5. /\ DOMAIN cache' = DOMAIN cache \cup {key} /\ DOMAIN pool' = DOMAIN cache \cup {key}
      /\ cache' = [k \in DOMAIN cache' |-> cache'[k]]
      /\ \A k \in DOMAIN cache' : cache'[k] = <<>> \/ (k \in DOMAIN cache /\ cache'[k] = cache[k])
  <2>1. cache = [k \in DOMAIN cache |-> cache[k]]
      BY DEF MindInv, CachesInv
  <2>2. CASE key \in DOMAIN pool
      BY <1>1, <1>4, <2>1, <2>2
  <2>3. CASE key \notin DOMAIN pool
    <3>1. /\ pool' = [k \in DOMAIN pool \cup {key} |-> IF k = key THEN mind.llm[a] ELSE pool[k]]
          /\ cache' = [k \in DOMAIN cache \cup {key} |-> IF k = key THEN <<>> ELSE cache[k]]
        BY <1>1, <2>3 DEF Put
    <3>2. DOMAIN pool' = DOMAIN cache \cup {key}
        BY <1>4, <3>1
    <3>3. DOMAIN cache' = DOMAIN cache \cup {key} /\ cache' = [k \in DOMAIN cache' |-> cache'[k]]
        BY <3>1
    <3>4. \A k \in DOMAIN cache \cup {key} : cache'[k] = IF k = key THEN <<>> ELSE cache[k]
        BY <3>1
    <3>5. DOMAIN cache' = DOMAIN cache \cup {key}
        BY <3>1
    <3>6. \A k \in DOMAIN cache' : cache'[k] = <<>> \/ (k \in DOMAIN cache /\ cache'[k] = cache[k])
        BY <3>4, <3>5
    <3>. QED
        BY <3>2, <3>3, <3>6
  <2>. QED
      BY <2>2, <2>3
<1>6. KeysInv'
  <2>1. \A b \in Thinkers : Adapter(b)' = Adapter(b)
      BY <1>1 DEF Adapter
  <2>2. \A b \in Thinkers : b # a => graph'[b] = graph[b]
      BY <1>1
  <2>3. \A b \in Thinkers : graph'[b].at # "new" => Adapter(b) \in DOMAIN cache'
      BY <1>4, <1>5, <2>2 DEF key
  <2>. QED
      BY <1>5, <2>1, <2>3 DEF KeysInv
<1>7. CachesInv'
  <2>1. Sound(<<>>)
    <3>1. mind.max \in Nat \ {0}
        BY MindIs DEF MindInv
    <3>2. <<>> \in Seq(Kept) /\ Len(<<>>) = 0
        OBVIOUS
    <3>3. DOMAIN <<>> = {}
        OBVIOUS
    <3>. QED
        BY <3>1, <3>2, <3>3 DEF Sound, Single
  <2>2. \A k \in DOMAIN cache' : Sound(cache'[k])
      BY <1>5, <2>1 DEF MindInv, CachesInv
  <2>. QED
      BY <1>1, <1>5, <2>2 DEF CachesInv, Sound
<1>8. ServedInv'
    BY <1>1 DEF MindInv, ServedInv
<1>. QED
    BY <1>1, <1>3, <1>6, <1>7, <1>8 DEF MindInv

LEMMA InvokeKeeps ==
    ASSUME MindInv, NEW a \in Thinkers, Invoke(a)
    PROVE  MindInv'
<1>1. Fresh \in Thought
  <2>1. <<>> \in Seq(Message) /\ <<>> \in Seq(Calls)
      OBVIOUS
  <2>. QED
      BY <2>1 DEF Fresh, Thought
<1>2. Fits(Fresh)
  <2>1. Len(<<>>) = 0
      OBVIOUS
  <2>2. InOrder(<<>>, <<>>)
      BY <2>1 DEF InOrder
  <2>. QED
      BY <2>2 DEF Fits, Fresh
<1>3. graph[a].at # "new"
    BY DEF Invoke, Idle
<1>. QED
    BY <1>1, <1>2, <1>3, OnlyThinks DEF Invoke

LEMMA ThinkKeeps ==
    ASSUME MindInv, NEW a \in Thinkers, Think(a)
    PROVE  MindInv'
<1>. DEFINE g == graph[a]
            held == cache[Adapter(a)]
            p == Prompt(a)
<1>1. g \in Thought /\ Fits(g) /\ g.at = "think" /\ InOrder(g.messages, g.calls) /\ g.calls = <<>>
    BY ThoughtIs DEF MindInv, Think, Fits
<1>2. UNCHANGED <<mind, now, pool>> /\ graph \in [Thinkers -> {Idle, New} \cup Thought]
    BY DEF Think, MindInv, GraphInv
<1>3. Adapter(a) \in DOMAIN cache /\ Sound(held)
    BY <1>1 DEF MindInv, KeysInv, CachesInv
<1>4. CASE g.loops >= Iterations
  <2>1. graph' = [graph EXCEPT ![a] = [g EXCEPT !.at = "done"]] /\ UNCHANGED <<cache, served>>
      BY <1>4 DEF Think
  <2>2. [g EXCEPT !.at = "done"] \in Thought /\ Fits([g EXCEPT !.at = "done"])
      BY <1>1, PlacedIs
  <2>. QED
      BY <1>1, <1>2, <2>1, <2>2, OnlyThinks
<1>5. CASE ~(g.loops >= Iterations)
  <2>1. /\ cache' = IF Cacheable(a) THEN [cache EXCEPT ![Adapter(a)] = Touched(held, p)] ELSE cache
        /\ IF Cacheable(a) /\ Hits(held, p)
           THEN /\ graph' = [graph EXCEPT ![a] = Heard(g, <<>>)]
                /\ served' = [served EXCEPT ![a] = <<[entry |-> Entry(held, p), tick |-> now]>>]
           ELSE /\ graph' = [graph EXCEPT ![a] = [g EXCEPT !.at = "asked"]]
                /\ served' = served
      BY <1>5 DEF Think
  <2>2. CachesInv' /\ DOMAIN cache' = DOMAIN cache
    <3>1. CASE Cacheable(a)
      <4>1. Sound(Touched(held, p))
          BY <1>3, TouchedIsSound, MindIs DEF MindInv
      <4>. QED
          BY <1>2, <1>3, <2>1, <3>1, <4>1, OneCache
    <3>2. CASE ~Cacheable(a)
        BY <1>2, <2>1, <3>2 DEF MindInv, CachesInv, Sound
    <3>. QED
        BY <3>1, <3>2
  <2>3. CASE Cacheable(a) /\ Hits(held, p)
    <3>1. Heard(g, <<>>) \in Thought /\ Fits(Heard(g, <<>>))
      <4>1. <<>> \in Seq(Calls)
          OBVIOUS
      <4>. HIDE DEF g
      <4>. QED
          BY <1>1, <4>1, HeardIs
    <3>2. GraphInv' /\ KeysInv'
        BY <1>1, <1>2, <2>1, <2>2, <2>3, <3>1, ThoughtGoesOn
    <3>3. ServedInv'
      <4>. DEFINE e == Entry(held, p)
                  new == <<[entry |-> e, tick |-> now]>>
      <4>1. e.prompt = p /\ e.at \in Int /\ now \in Int /\ mind.ttl \in Int /\ ~(now - e.at > mind.ttl)
          BY <1>3, <2>3, EntryIs, MindIs DEF MindInv, Sound, Hits, Expired
      <4>2. new[1].tick = now /\ new[1].entry = e
          OBVIOUS
      <4>3. served' = [served EXCEPT ![a] = new] /\ p = mind.prompts[<<a, now>>]
          BY <2>1, <2>3 DEF Prompt
      <4>. HIDE DEF e, new, p
      <4>4. now - e.at <= mind.ttl
          BY <4>1
      <4>5. ServedInv
          BY DEF MindInv
      <4>. QED
          BY <1>2, <4>1, <4>2, <4>3, <4>4, <4>5 DEF ServedInv
    <3>. QED
        BY <1>2, <2>2, <3>2, <3>3 DEF MindInv
  <2>4. CASE ~(Cacheable(a) /\ Hits(held, p))
    <3>1. [g EXCEPT !.at = "asked"] \in Thought /\ Fits([g EXCEPT !.at = "asked"])
        BY <1>1, PlacedIs
    <3>2. GraphInv' /\ KeysInv'
        BY <1>1, <1>2, <2>1, <2>2, <2>4, <3>1, ThoughtGoesOn
    <3>3. ServedInv'
        BY <1>2, <2>1, <2>4 DEF MindInv, ServedInv
    <3>. QED
        BY <1>2, <2>2, <3>2, <3>3 DEF MindInv
  <2>. QED
      BY <2>3, <2>4
<1>. QED
    BY <1>4, <1>5

LEMMA RespondKeeps ==
    ASSUME MindInv, NEW a \in Thinkers, Respond(a)
    PROVE  MindInv'
<1>. DEFINE g == graph[a]
            held == cache[Adapter(a)]
            e == [prompt |-> Prompt(a), at |-> now]
<1>1. g \in Thought /\ g.at = "asked" /\ InOrder(g.messages, g.calls) /\ g.calls = <<>>
    BY ThoughtIs DEF MindInv, Respond, Fits
<1>2. Adapter(a) \in DOMAIN cache /\ Sound(held)
    BY <1>1 DEF MindInv, KeysInv, CachesInv
<1>3. PICK reply \in mind.replies :
         /\ graph' = [graph EXCEPT ![a] = Heard(g, reply)]
         /\ cache' = IF Cacheable(a) THEN [cache EXCEPT ![Adapter(a)] = Stored(held, e)] ELSE cache
    BY <1>2 DEF Respond
<1>4. UNCHANGED <<mind, now, pool, served>>
    BY DEF Respond
<1>5. reply \in Seq(Calls)
    BY MindIs DEF MindInv
<1>6. Heard(g, reply) \in Thought /\ Fits(Heard(g, reply))
  <2>. HIDE DEF g
  <2>. QED
      BY <1>1, <1>5, HeardIs
<1>7. CachesInv' /\ DOMAIN cache' = DOMAIN cache
  <2>1. CASE Cacheable(a)
    <3>1. e \in Kept
        BY PromptIs DEF MindInv, Kept
    <3>2. Sound(Stored(held, e))
        BY <1>2, <3>1, StoredIsSound, MindIs DEF MindInv
    <3>. QED
        BY <1>2, <1>3, <1>4, <2>1, <3>2, OneCache
  <2>2. CASE ~Cacheable(a)
      BY <1>3, <1>4, <2>2 DEF MindInv, CachesInv, Sound
  <2>. QED
      BY <2>1, <2>2
<1>8. GraphInv' /\ KeysInv'
    BY <1>1, <1>3, <1>4, <1>6, <1>7, ThoughtGoesOn
<1>9. ServedInv'
    BY <1>4 DEF MindInv, ServedInv
<1>. QED
    BY <1>4, <1>7, <1>8, <1>9 DEF MindInv

LEMMA RequestFailsKeeps ==
    ASSUME MindInv, NEW a \in Thinkers, NEW transient \in BOOLEAN, RequestFails(a, transient)
    PROVE  MindInv'
<1>. DEFINE g == graph[a]
            sleeps == [g EXCEPT !.at = "sleep"]
            attempt == sleeps.attempt + 1
            again == [sleeps EXCEPT !.attempt = attempt]
            ended == [g EXCEPT !.at = "failed"]
<1>1. g \in Thought /\ g.at = "asked" /\ InOrder(g.messages, g.calls) /\ g.calls = <<>>
    BY ThoughtIs DEF MindInv, RequestFails, Fits
<1>2. graph' = [graph EXCEPT ![a] = again] \/ graph' = [graph EXCEPT ![a] = ended]
    BY DEF RequestFails, NextAttempt
<1>3. UNCHANGED <<mind, now, pool, cache, served>>
    BY DEF RequestFails
<1>4. sleeps \in Thought /\ Fits(sleeps) /\ sleeps.at = "sleep" /\ ended \in Thought /\ Fits(ended)
    BY <1>1, PlacedIs
<1>5. attempt \in Int
    BY <1>4 DEF Thought
<1>. HIDE DEF sleeps, attempt
<1>6. /\ again \in Thought /\ again.at = sleeps.at /\ again.messages = sleeps.messages
      /\ again.calls = sleeps.calls
    BY <1>4, <1>5 DEF Thought
<1>7. Fits(again)
    BY <1>4, <1>6 DEF Fits
<1>. QED
    BY <1>1, <1>2, <1>3, <1>4, <1>6, <1>7, OnlyThinks

LEMMA SleepKeeps ==
    ASSUME MindInv, NEW a \in Thinkers, Sleep(a)
    PROVE  MindInv'
<1>. DEFINE g == graph[a]
<1>1. g \in Thought /\ g.at = "sleep" /\ InOrder(g.messages, g.calls) /\ g.calls = <<>>
    BY ThoughtIs DEF MindInv, Sleep, Fits
<1>2. [g EXCEPT !.at = "asked"] \in Thought /\ Fits([g EXCEPT !.at = "asked"])
    BY <1>1, PlacedIs
<1>3. /\ graph' = [graph EXCEPT ![a] = [g EXCEPT !.at = "asked"]]
      /\ UNCHANGED <<mind, now, pool, cache, served>>
    BY DEF Sleep
<1>. QED
    BY <1>1, <1>2, <1>3, OnlyThinks

LEMMA ExecuteToolKeeps ==
    ASSUME MindInv, NEW a \in Thinkers, ExecuteTool(a)
    PROVE  MindInv'
<1>. DEFINE g == graph[a]
            h == IF g.calls = <<>> THEN [g EXCEPT !.at = "think"] ELSE Executed(a, g)
<1>1. g \in Thought /\ g.at = "tools" /\ Fits(g) /\ InOrder(g.messages, g.calls)
    BY ThoughtIs DEF MindInv, ExecuteTool, Fits
<1>2. h \in Thought /\ Fits(h)
  <2>1. CASE g.calls = <<>>
    <3>1. [g EXCEPT !.at = "think"] \in Thought /\ Fits([g EXCEPT !.at = "think"])
        BY <1>1, <2>1, PlacedIs
    <3>. QED
        BY <2>1, <3>1
  <2>2. CASE g.calls # <<>>
    <3>1. Executed(a, g) \in Thought /\ Fits(Executed(a, g))
      <4>. HIDE DEF g
      <4>. QED
          BY <1>1, <2>2, ExecutedIs
    <3>. QED
        BY <2>2, <3>1
  <2>. QED
      BY <2>1, <2>2
<1>3. graph' = [graph EXCEPT ![a] = h] /\ UNCHANGED <<mind, now, pool, cache, served>>
    BY DEF ExecuteTool
<1>. HIDE DEF h
<1>. QED
    BY <1>1, <1>2, <1>3, OnlyThinks

LEMMA NextTickKeeps ==
    ASSUME MindInv, NextTick
    PROVE  MindInv'
<1>. DEFINE later == now + 1
<1>1. /\ now' = later /\ later \in Nat /\ graph' = [a \in Thinkers |-> Idle]
      /\ cache' = [k \in DOMAIN cache |-> Swept(cache[k], later)]
      /\ UNCHANGED <<mind, pool, served>>
    BY DEF NextTick, MindInv
<1>2. \A a \in Thinkers : graph[a].at # "new"
    BY DEF NextTick
<1>. HIDE DEF later
<1>3. Idle \notin Thought
    BY DEF Idle, Thought
<1>4. GraphInv'
    BY <1>1, <1>3 DEF GraphInv
<1>5. DOMAIN cache' = DOMAIN cache /\ cache' = [k \in DOMAIN cache' |-> cache'[k]]
    BY <1>1
<1>6. KeysInv'
    BY <1>1, <1>2, <1>5 DEF MindInv, KeysInv, Adapter
<1>7. \A k \in DOMAIN cache : Sound(cache'[k])
  <2>1. mind.max \in Nat /\ \A k \in DOMAIN cache : Sound(cache[k])
      BY MindIs DEF MindInv, CachesInv
  <2>2. \A k \in DOMAIN cache : Sound(Swept(cache[k], later))
      BY <2>1, SweptIsSound
  <2>. QED
      BY <1>1, <2>2
<1>8. CachesInv'
    BY <1>1, <1>5, <1>7 DEF CachesInv, Sound
<1>9. ServedInv'
    BY <1>1 DEF MindInv, ServedInv
<1>. QED
    BY <1>1, <1>4, <1>6, <1>8, <1>9 DEF MindInv

LEMMA MindsGoOn == MindInv /\ [ThinkingNext]_mindVars => MindInv'
<1>. SUFFICES ASSUME MindInv, [ThinkingNext]_mindVars PROVE MindInv'
    OBVIOUS
<1>1. CASE NextTick
    BY <1>1, NextTickKeeps
<1>2. ASSUME NEW a \in Thinkers,
             \/ GetAdapter(a) \/ Invoke(a) \/ Think(a) \/ Respond(a) \/ Sleep(a) \/ ExecuteTool(a)
             \/ \E transient \in BOOLEAN : RequestFails(a, transient)
      PROVE  MindInv'
    BY <1>2, GetAdapterKeeps, InvokeKeeps, ThinkKeeps, RespondKeeps, SleepKeeps, ExecuteToolKeeps,
       RequestFailsKeeps
<1>3. CASE UNCHANGED mindVars
  <2>1. UNCHANGED <<mind, now, pool, cache, graph, served>>
      BY <1>3 DEF mindVars
  <2>. QED
      BY <2>1 DEF MindInv, GraphInv, KeysInv, CachesInv, ServedInv, Sound, Adapter
<1>. QED
    BY <1>1, <1>2, <1>3 DEF ThinkingNext

LEMMA MindsServe == MindInv => MindsAreServed
<1>. SUFFICES ASSUME MindInv PROVE MindsAreServed
    OBVIOUS
<1>1. ASSUME NEW a \in Started, graph[a].at \in {"think", "asked"}
      PROVE  LET said == graph[a].messages
                 answers(i) == {j \in DOMAIN said : j > i /\ \A k \in (i + 1)..j : said[k].role = "tool"}
             IN  /\ \A i \in DOMAIN said : said[i].role = "assistant" =>
                       CallIds(said[i]) = [j \in 1..Cardinality(answers(i)) |-> said[i + j].call]
                 /\ graph[a].calls = <<>>
  <2>1. graph[a] \in Thought /\ Fits(graph[a]) /\ graph[a].at \in {"think", "asked"}
      BY <1>1, ThoughtIs DEF MindInv, Started
  <2>2. graph[a].messages \in Seq(Message) /\ InOrder(graph[a].messages, <<>>) /\ graph[a].calls = <<>>
      BY <2>1 DEF Thought, Fits
  <2>. QED
      BY <2>2, AllInOrder
<1>2. CallsAreAnswered
    BY <1>1 DEF CallsAreAnswered
<1>3. CacheIsFresh
    BY DEF MindInv, ServedInv, CachesInv, Sound, Single, CacheIsFresh
<1>. QED
    BY <1>2, <1>3 DEF MindsAreServed

\* Every call of a tool is answered before the model is asked again, and an answer out of a
\* response cache is to what was asked and not too old, whatever the agents, the models, the
\* sizes of the caches and how their requests interleave.
THEOREM MindsStayServed == ThinkingSpec => []MindsAreServed
<1>1. ThinkingInit => MindInv
    BY MindsStart
<1>2. MindInv /\ [ThinkingNext]_mindVars => MindInv'
    BY MindsGoOn
<1>3. MindInv => MindsAreServed
    BY MindsServe
<1>. QED
    BY <1>1, <1>2, <1>3, PTL DEF ThinkingSpec

-----------------------------------------------------------------------------
(***************************************************************************)
(* Memory: what is saved, on its way, read by a call and deleted.             *)
(***************************************************************************)
Underway(op, m) == \E p \in pending : p.op = op /\ m \in p.ids
Forgetting(m) == \E c \in Consolidations : job[c].at = "forget" /\ m \in job[c].del
Operations == [op : {"row", "embed", "vector"}, ids : SUBSET Memories]
Scoring == [at : {"score"}, left : Seq(Memories), promote : Seq(Memories), del : SUBSET Memories]
Summarising == [at : {"summarise"}, del : SUBSET Memories, groups : SUBSET SUBSET Memories]
Deleting == [at : {"delete", "forget"}, del : SUBSET Memories]

\* Types, and the entries that are still to be saved are new.
EntriesAreNew ==
    /\ brain \in Brains /\ day \in Nat
    /\ memory \in Seq(Memories) /\ vectors \subseteq Memories /\ rows \subseteq DOMAIN born
    /\ DOMAIN born \subseteq Memories /\ \A m \in DOMAIN born : born[m] \in 0..day
    /\ pending \subseteq Operations
    /\ batches \in Seq(Seq(Memories))
    /\ \A i \in DOMAIN batches : Range(batches[i]) \cap DOMAIN born = {}
    /\ \A i, j \in DOMAIN batches : i # j => Range(batches[i]) \cap Range(batches[j]) = {}
    /\ job \in [Consolidations -> {NoJob} \cup Scoring \cup Summarising \cup Deleting]

\* What is under way concerns entries of today, what a call has read those of days before.
Aged(ids) == ids \subseteq DOMAIN born /\ \A m \in ids : born[m] < day
CallsReadThePast ==
    /\ \A p \in pending : p.ids \subseteq DOMAIN born /\ \A m \in p.ids : born[m] = day
    /\ \A c \in Consolidations :
          /\ job[c] # NoJob => Aged(job[c].del)
          /\ job[c].at = "score" => Aged(Range(job[c].left))

\* Before a call deletes, what it deletes is known to have been meant, and is summarised.
SummarisedFirst ==
    \A c \in Consolidations :
       /\ job[c].at \in {"summarise", "delete", "forget"} => job[c].del \in low
       /\ (job[c].at = "summarise" /\ brain.llm) =>
             \A g \in Groups(job[c].del) : g \in job[c].groups \/ \E k \in knowledge : k.of = g
       /\ (job[c].at \in {"delete", "forget"} /\ brain.llm) =>
             \A g \in Groups(job[c].del) : \E k \in knowledge : k.of = g
       /\ job[c].at = "forget" => job[c].del \cap rows = {}

\* Rows and vectors differ by what is under way.
StoresFollow ==
    \A m \in Memories \ lost :
       /\ m \in rows \/ Underway("row", m) => m \in vectors \/ Underway("embed", m) \/ Underway("vector", m)
       /\ m \in vectors \/ Underway("embed", m) \/ Underway("vector", m) => m \in rows \/ Underway("row", m) \/ Forgetting(m)

MemInv == EntriesAreNew /\ CallsReadThePast /\ SummarisedFirst /\ StoresFollow /\ NothingIsForgotten

LEMMA BrainIs ==
    ASSUME brain \in Brains
    PROVE  /\ brain.batches \in Seq(Seq(Memories)) /\ brain.retention \in Nat
           /\ brain.batchSize \in Nat \ {0} /\ IsFiniteSet(Memories)
           /\ \A i, j \in DOMAIN brain.batches :
                 i # j => Range(brain.batches[i]) \cap Range(brain.batches[j]) = {}
    BY BrainsAreSound DEF SoundBrain

\* A call is in one of the shapes of its stage.
LEMMA StagesAre ==
    ASSUME EntriesAreNew, NEW c \in Consolidations
    PROVE  /\ job[c].at = "score" => job[c] \in Scoring
           /\ job[c].at = "summarise" => job[c] \in Summarising
           /\ job[c].at \in {"delete", "forget"} => job[c] \in Deleting
           /\ job[c] = NoJob \/ job[c] \in Scoring \/ job[c] \in Summarising \/ job[c] \in Deleting
           /\ job[c] # NoJob => job[c].del \subseteq Memories
           /\ NoJob.at = "none" /\ job[c].at \in {"none", "score", "summarise", "delete", "forget"}
           /\ job[c].at = "none" <=> job[c] = NoJob
    BY DEF EntriesAreNew, NoJob, Scoring, Summarising, Deleting

\* The entries of a set, once each, in some order.
LEMMA ListedIs ==
    ASSUME NEW S, IsFiniteSet(S)
    PROVE  SetToSeq(S) \in Seq(S) /\ Range(SetToSeq(S)) \subseteq S
<1>. DEFINE n == Cardinality(S)
<1>1. n \in Nat /\ \E f : f \in Bijection(1..n, S)
    BY FS_CardinalityType DEF ExistsBijection
<1>2. PICK f : f \in Bijection(1..n, S)
    BY <1>1
<1>3. f \in [1..n -> S] /\ IsInjective(f)
    BY <1>2 DEF Bijection, Injection, IsInjective
<1>. HIDE DEF n
<1>4. SetToSeq(S) \in [1..n -> S]
    BY <1>3 DEF SetToSeq, n
<1>. QED
    BY <1>1, <1>4, SeqDef DEF Range

\* What a search adds is new: nothing is there twice.
LEMMA OnceIs ==
    ASSUME NEW recent \in Seq(Memories), NEW hits \in Seq(Memories)
    PROVE  IsInjective(Merged(recent, hits))
<1>. DEFINE all == recent \o hits
            firsts == {i \in DOMAIN all : \A j \in 1..(i - 1) : all[j] # all[i]}
            kept == Sifted(all, firsts)
<1>1. all \in Seq(Memories)
    BY ConcatProperties
<1>2. DOMAIN all = 1..Len(all) /\ Len(all) \in Nat
    BY <1>1, LenProperties
<1>3. \A i \in firsts : \A j \in 1..(i - 1) : all[j] # all[i]
    OBVIOUS
<1>4. firsts \subseteq 1..Len(all)
    BY <1>2
<1>. HIDE DEF all, firsts
<1>5. /\ kept \in Seq(Memories)
      /\ \E at \in [1..Len(kept) -> firsts] :
            /\ \A n \in 1..Len(kept) : kept[n] = all[at[n]]
            /\ \A n, k \in 1..Len(kept) : n < k => at[n] < at[k]
    BY <1>1, <1>2, <1>4, SiftedIs
<1>. HIDE DEF kept
<1>6. PICK at \in [1..Len(kept) -> firsts] :
            /\ \A n \in 1..Len(kept) : kept[n] = all[at[n]]
            /\ \A n, k \in 1..Len(kept) : n < k => at[n] < at[k]
    BY <1>5
<1>7. DOMAIN kept = 1..Len(kept) /\ Len(kept) \in Nat
    BY <1>5, LenProperties
<1>8. ASSUME NEW n \in 1..Len(kept), NEW k \in 1..Len(kept), n < k PROVE kept[n] # kept[k]
  <2>1. at[n] \in 1..Len(all) /\ at[k] \in firsts /\ at[k] \in 1..Len(all) /\ at[n] < at[k]
      BY <1>4, <1>6, <1>8
  <2>2. at[n] \in 1..(at[k] - 1)
      BY <1>2, <2>1
  <2>. QED
      BY <1>3, <1>6, <2>1, <2>2
<1>9. \A n, k \in DOMAIN kept : n # k => kept[n] # kept[k]
    BY <1>7, <1>8
<1>. QED
    BY <1>9 DEF IsInjective, Merged, kept, all, firsts

LEMMA MaxOfTwo == \A a, b \in Int : Max({a, b}) = IF a <= b THEN b ELSE a
    BY DEF Max

LEMMA MinOfTwo == \A a, b \in Int : Min({a, b}) = IF a <= b THEN a ELSE b
    BY DEF Min

LEMMA RecallsOnce ==
    ASSUME memory \in Seq(Memories), vectors \subseteq Memories,
           NEW limit \in 0..2, NEW m \in vectors, NEW n \in vectors
    PROVE  IsInjective(Recalled(limit, <<m, n>>))
<1>. DEFINE from == Max({1, Len(memory) - limit + 1})
            latest == SubSeq(memory, from, Len(memory))
            recent == Reverse(latest)
<1>1. Len(memory) \in Nat /\ \A i \in 1..Len(memory) : memory[i] \in Memories
    BY LenProperties, ElementOfSeq
<1>2. from \in Int /\ 1 <= from
    BY <1>1, MaxOfTwo
<1>. HIDE DEF from
<1>3. latest \in Seq(Memories)
  <2>1. \A i \in from..Len(memory) : memory[i] \in Memories
      BY <1>1, <1>2
  <2>. QED
      BY <1>1, <1>2, <2>1, SubSeqProperties
<1>. HIDE DEF latest
<1>4. Len(latest) \in Nat /\ \A i \in 1..Len(latest) : latest[i] \in Memories
    BY <1>3, LenProperties, ElementOfSeq
<1>5. recent \in [1..Len(latest) -> Memories]
    BY <1>4 DEF Reverse
<1>6. recent \in Seq(Memories)
    BY <1>4, <1>5, SeqDef
<1>7. <<m, n>> \in Seq(Memories)
    OBVIOUS
<1>. HIDE DEF recent
<1>8. IsInjective(Merged(recent, <<m, n>>))
    BY <1>6, <1>7, OnceIs
<1>. QED
    BY <1>8 DEF Recalled, recent, latest, from

LEMMA MemoryStarts == MemoryInit => MemInv
<1>. SUFFICES ASSUME MemoryInit PROVE MemInv
    OBVIOUS
<1>1. /\ brain.batches \in Seq(Seq(Memories))
      /\ \A i, j \in DOMAIN brain.batches :
            i # j => Range(brain.batches[i]) \cap Range(brain.batches[j]) = {}
    BY BrainIs DEF MemoryInit
<1>2. \A c \in Consolidations : job[c] = NoJob /\ job[c].at = "none"
    BY DEF MemoryInit, NoJob
<1>3. DOMAIN born = {}
    BY DEF MemoryInit
<1>4. EntriesAreNew
  <2>1. job \in [Consolidations -> {NoJob}]
      BY DEF MemoryInit
  <2>2. job \in [Consolidations -> {NoJob} \cup Scoring \cup Summarising \cup Deleting]
      BY <2>1
  <2>3. memory \in Seq(Memories) /\ batches = brain.batches
      BY DEF MemoryInit
  <2>. QED
      BY <1>1, <1>3, <2>2, <2>3 DEF MemoryInit, EntriesAreNew
<1>. QED
    BY <1>2, <1>3, <1>4 DEF MemoryInit, MemInv, CallsReadThePast, SummarisedFirst, StoresFollow,
       Underway, NothingIsForgotten, Persisted
LEMMA SaveBatchKeeps == MemInv /\ SaveBatch => MemInv'
<1>. SUFFICES ASSUME MemInv, SaveBatch PROVE MemInv'
    OBVIOUS
<1>. USE DEF MemInv
<1>. DEFINE batch == Head(batches)
            ids == Range(batch)
<1>1. /\ batches \in Seq(Seq(Memories)) /\ batches # <<>> /\ pending = {}
      /\ memory' = memory \o batch /\ pending' = Starts(ids)
      /\ born' = [m \in DOMAIN born \cup ids |-> IF m \in ids THEN day ELSE born[m]]
      /\ batches' = Tail(batches)
      /\ UNCHANGED <<brain, day, rows, vectors, knowledge, job, lost, low>>
    BY DEF SaveBatch, EntriesAreNew
<1>2. /\ batch \in Seq(Memories) /\ batch = batches[1] /\ 1 \in DOMAIN batches
      /\ batches' \in Seq(Seq(Memories))
      /\ \A i \in DOMAIN batches' : i + 1 \in DOMAIN batches /\ i + 1 # 1 /\ batches'[i] = batches[i + 1]
  <2>1. Len(batches) \in Nat /\ DOMAIN batches = 1..Len(batches)
      BY <1>1, LenProperties
  <2>2. /\ Head(batches) \in Seq(Memories) /\ Tail(batches) \in Seq(Seq(Memories))
        /\ Len(Tail(batches)) = Len(batches) - 1
        /\ \A i \in 1..Len(Tail(batches)) : Tail(batches)[i] = batches[i + 1]
      BY <1>1, HeadTailProperties
  <2>3. batches[1] = Head(batches) /\ Len(batches) # 0
      BY <1>1, EmptySeq
  <2>4. DOMAIN Tail(batches) = 1..(Len(batches) - 1)
      BY <2>2, LenProperties
  <2>. QED
      BY <1>1, <2>1, <2>2, <2>3, <2>4
<1>3. ids \subseteq Memories
  <2>1. DOMAIN batch = 1..Len(batch) /\ \A i \in 1..Len(batch) : batch[i] \in Memories
      BY <1>2, LenProperties, ElementOfSeq
  <2>. QED
      BY <2>1 DEF Range
<1>4. ids \cap DOMAIN born = {} /\ \A i \in DOMAIN batches' : Range(batches'[i]) \cap ids = {}
    BY <1>2 DEF EntriesAreNew
<1>5. /\ DOMAIN born' = DOMAIN born \cup ids
      /\ \A m \in ids : born'[m] = day
      /\ \A m \in DOMAIN born : born'[m] = born[m]
    BY <1>1, <1>4
<1>6. \A p \in pending' : p.ids = ids /\ p.op \in {"row", "embed"}
    BY <1>1 DEF Starts
<1>. HIDE DEF ids
<1>7. EntriesAreNew'
  <2>1. memory' \in Seq(Memories)
      BY <1>1, <1>2, ConcatProperties DEF EntriesAreNew
  <2>2. DOMAIN born' \subseteq Memories /\ rows \subseteq DOMAIN born'
      BY <1>3, <1>5 DEF EntriesAreNew
  <2>3. \A m \in DOMAIN born' : born'[m] \in 0..day
      BY <1>5 DEF EntriesAreNew
  <2>4. pending' \subseteq Operations
      BY <1>1, <1>3 DEF Starts, Operations
  <2>5. \A i \in DOMAIN batches' : Range(batches'[i]) \cap DOMAIN born' = {}
      BY <1>2, <1>4, <1>5 DEF EntriesAreNew
  <2>6. \A i, j \in DOMAIN batches' : i # j => Range(batches'[i]) \cap Range(batches'[j]) = {}
    <3>1. ASSUME NEW i \in DOMAIN batches', NEW j \in DOMAIN batches', i # j
          PROVE  Range(batches'[i]) \cap Range(batches'[j]) = {}
      <4>1. DOMAIN batches' \subseteq Nat
          BY <1>2, LenProperties
      <4>2. i + 1 # j + 1
          BY <3>1, <4>1
      <4>. QED
          BY <1>2, <4>2 DEF EntriesAreNew
    <3>. QED
        BY <3>1
  <2>. QED
      BY <1>1, <1>2, <2>1, <2>2, <2>3, <2>4, <2>5, <2>6 DEF EntriesAreNew
<1>8. CallsReadThePast'
  <2>1. ASSUME NEW old, Aged(old) PROVE Aged(old)'
      BY <1>1, <1>5, <2>1 DEF Aged
  <2>. QED
      BY <1>1, <1>5, <1>6, <2>1 DEF CallsReadThePast
<1>9. SummarisedFirst'
  <2>1. \A old : Groups(old)' = Groups(old)
      BY <1>1 DEF Groups
  <2>. QED
      BY <1>1, <2>1 DEF SummarisedFirst
<1>10. StoresFollow'
  <2>1. \A op, m : ~Underway(op, m)
      BY <1>1 DEF Underway
  <2>2. ASSUME NEW m, m \notin ids, NEW op PROVE ~Underway(op, m)'
      BY <1>6, <2>2 DEF Underway
  <2>3. ASSUME NEW m \in ids PROVE Underway("row", m)' /\ Underway("embed", m)'
      BY <1>1, <2>3 DEF Underway, Starts
  <2>4. \A m : Forgetting(m)' <=> Forgetting(m)
      BY <1>1 DEF Forgetting
  <2>. QED
      BY <1>1, <2>1, <2>2, <2>3, <2>4 DEF StoresFollow
<1>11. NothingIsForgotten'
  <2>1. ASSUME NEW m \in Persisted' PROVE m \in Persisted
    <3>1. m \notin ids
        BY <1>1 DEF Persisted, Starts
    <3>. QED
        BY <1>1, <1>5, <3>1 DEF Persisted
  <2>2. Persisted' \ rows' \subseteq Persisted \ rows
      BY <1>1, <2>1
  <2>3. brain' = brain /\ low' = low /\ knowledge' = knowledge
      BY <1>1
  <2>. QED
      BY <2>2, <2>3 DEF NothingIsForgotten, Remembered
<1>. QED
    BY <1>7, <1>8, <1>9, <1>10, <1>11

LEMMA LandsKeeps == MemInv /\ (\E p \in pending : Lands(p)) => MemInv'
<1>. SUFFICES ASSUME MemInv, NEW p \in pending, Lands(p) PROVE MemInv'
    OBVIOUS
<1>. USE DEF MemInv
<1>1. UNCHANGED <<brain, day, memory, knowledge, batches, born, job, lost, low>>
    BY DEF Lands
<1>2. /\ p.op \in {"row", "embed", "vector"} /\ p.ids \subseteq DOMAIN born
      /\ p.ids \subseteq Memories /\ \A m \in p.ids : born[m] = day
    BY DEF EntriesAreNew, CallsReadThePast, Operations
<1>. DEFINE next == [op |-> "vector", ids |-> p.ids]
<1>3. /\ pending' = (pending \ {p}) \cup (IF p.op = "embed" THEN {next} ELSE {})
      /\ rows' = IF p.op = "row" THEN rows \cup p.ids ELSE rows
      /\ vectors' = IF p.op = "vector" THEN vectors \cup p.ids ELSE vectors
    BY DEF Lands
<1>4. next \in Operations /\ next.ids = p.ids /\ next.op = "vector"
    BY <1>2 DEF Operations
<1>. HIDE DEF next
<1>5. EntriesAreNew'
    BY <1>1, <1>2, <1>3, <1>4 DEF EntriesAreNew
<1>6. CallsReadThePast'
    BY <1>1, <1>2, <1>3, <1>4 DEF CallsReadThePast, Aged
<1>7. ASSUME NEW c \in Consolidations, job[c].at = "forget" PROVE job[c].del \cap p.ids = {}
  <2>1. Aged(job[c].del)
      BY <1>7, StagesAre DEF CallsReadThePast
  <2>2. \A m \in job[c].del : born[m] \in 0..day /\ born[m] < day
      BY <2>1 DEF Aged, EntriesAreNew
  <2>3. day \in Nat
      BY DEF EntriesAreNew
  <2>. QED
      BY <1>2, <2>2, <2>3
<1>8. SummarisedFirst'
  <2>1. \A ids : Groups(ids)' = Groups(ids)
      BY <1>1 DEF Groups
  <2>2. \A c \in Consolidations : job[c].at = "forget" => job[c].del \cap rows' = {}
      BY <1>3, <1>7 DEF SummarisedFirst
  <2>. QED
      BY <1>1, <2>1, <2>2 DEF SummarisedFirst
<1>9. /\ \A m : Underway("row", m)' => Underway("row", m)
      /\ \A m : Underway("row", m) => Underway("row", m)' \/ m \in rows'
      /\ \A m : Underway("embed", m) \/ Underway("vector", m)
             => Underway("embed", m)' \/ Underway("vector", m)' \/ m \in vectors'
      /\ \A m : Underway("embed", m)' \/ Underway("vector", m)'
             => Underway("embed", m) \/ Underway("vector", m)
      /\ \A m \in rows' \ rows : Underway("row", m)
      /\ \A m \in vectors' \ vectors : Underway("vector", m)
    BY <1>2, <1>3, <1>4 DEF Underway
<1>10. rows \subseteq rows' /\ vectors \subseteq vectors'
    BY <1>3
<1>11. StoresFollow'
  <2>4. \A m : Forgetting(m)' <=> Forgetting(m)
      BY <1>1 DEF Forgetting
  <2>. QED
      BY <1>1, <1>9, <1>10, <2>4 DEF StoresFollow
<1>12. NothingIsForgotten'
  <2>1. ASSUME NEW m \in Persisted' \ rows' PROVE m \in Persisted \ rows
    <3>1. m \in DOMAIN born /\ m \notin lost /\ m \notin rows' /\ ~Underway("row", m)'
        BY <1>1 DEF Persisted, Underway
    <3>2. ~Underway("row", m)
        BY <1>9, <3>1
    <3>. QED
        BY <1>10, <3>1, <3>2 DEF Persisted, Underway
  <2>. QED
      BY <1>1, <2>1 DEF NothingIsForgotten, Remembered
<1>. QED
    BY <1>5, <1>6, <1>8, <1>11, <1>12

LEMMA FailsKeeps == MemInv /\ (\E p \in pending : Fails(p)) => MemInv'
<1>. SUFFICES ASSUME MemInv, NEW p \in pending, Fails(p) PROVE MemInv'
    OBVIOUS
<1>. USE DEF MemInv
<1>1. /\ pending' = pending \ {p} /\ lost' = lost \cup p.ids
      /\ UNCHANGED <<brain, day, memory, rows, vectors, knowledge, batches, born, job, low>>
    BY DEF Fails
<1>2. EntriesAreNew'
    BY <1>1 DEF EntriesAreNew
<1>3. CallsReadThePast'
    BY <1>1 DEF CallsReadThePast, Aged
<1>4. SummarisedFirst'
  <2>1. \A old : Groups(old)' = Groups(old)
      BY <1>1 DEF Groups
  <2>. QED
      BY <1>1, <2>1 DEF SummarisedFirst
<1>5. ASSUME NEW m, m \notin lost', NEW op PROVE Underway(op, m)' <=> Underway(op, m)
    BY <1>1, <1>5 DEF Underway
<1>6. StoresFollow'
  <2>1. \A m : Forgetting(m)' <=> Forgetting(m)
      BY <1>1 DEF Forgetting
  <2>. QED
      BY <1>1, <1>5, <2>1 DEF StoresFollow
<1>7. NothingIsForgotten'
  <2>1. ASSUME NEW m \in Persisted' PROVE m \in Persisted
      BY <1>1, <1>5, <2>1 DEF Persisted, Underway
  <2>. QED
      BY <1>1, <2>1 DEF NothingIsForgotten, Remembered
<1>. QED
    BY <1>2, <1>3, <1>4, <1>6, <1>7

LEMMA DayKeeps == MemInv /\ Day => MemInv'
<1>. SUFFICES ASSUME MemInv, Day PROVE MemInv'
    OBVIOUS
<1>. USE DEF MemInv
<1>1. /\ pending = {} /\ \A c \in Consolidations : job[c] = NoJob /\ job[c].at = "none"
      /\ day \in Nat /\ day' = day + 1
      /\ UNCHANGED <<brain, memory, rows, vectors, knowledge, pending, batches, born, job, lost, low>>
    BY DEF Day, EntriesAreNew, NoJob
<1>2. EntriesAreNew'
  <2>1. \A m \in DOMAIN born : born[m] \in 0..day'
      BY <1>1 DEF EntriesAreNew
  <2>. QED
      BY <1>1, <2>1 DEF EntriesAreNew
<1>3. CallsReadThePast' /\ SummarisedFirst'
    BY <1>1 DEF CallsReadThePast, SummarisedFirst
<1>4. StoresFollow' /\ NothingIsForgotten'
    BY <1>1 DEF StoresFollow, Underway, Forgetting, NothingIsForgotten, Persisted, Remembered
<1>. QED
    BY <1>2, <1>3, <1>4
\* A step of one call leaves the others, and what is on its way, where they are.
LEMMA OneCall ==
    ASSUME EntriesAreNew, NEW c \in Consolidations, NEW next, Goes(c, next)
    PROVE  /\ job' \in [Consolidations -> {job[d] : d \in Consolidations} \cup {next}]
           /\ job'[c] = next /\ \A d \in Consolidations \ {c} : job'[d] = job[d]
    BY DEF EntriesAreNew, Goes

LEMMA CallsStayTyped ==
    ASSUME EntriesAreNew, NEW c \in Consolidations, NEW next, Goes(c, next),
           next \in {NoJob} \cup Scoring \cup Summarising \cup Deleting
    PROVE  job' \in [Consolidations -> {NoJob} \cup Scoring \cup Summarising \cup Deleting]
    BY DEF EntriesAreNew, Goes

LEMMA OldIs ==
    ASSUME MemInv
    PROVE  Old \subseteq Memories /\ IsFiniteSet(Old) /\ Aged(Old)
<1>1. brain.retention \in Nat /\ IsFiniteSet(Memories)
    BY BrainIs DEF MemInv, EntriesAreNew
<1>2. Old \subseteq DOMAIN born /\ Old \subseteq Memories
    BY DEF MemInv, EntriesAreNew, Old
<1>3. ASSUME NEW m \in Old PROVE born[m] < day
  <2>1. born[m] \in Nat /\ day \in Nat /\ day - born[m] > brain.retention
      BY <1>2 DEF MemInv, EntriesAreNew, Old
  <2>. QED
      BY <1>1, <2>1
<1>. QED
    BY <1>1, <1>2, <1>3, FS_Subset DEF Aged

\* A step of a call that has not come to delete: only what it has to do, and what is
\* known, may change.
LEMMA ReadingKeeps ==
    ASSUME MemInv, NEW c \in Consolidations, NEW next, Goes(c, next),
           next \in {NoJob} \cup Scoring \cup Summarising \cup Deleting,
           next # NoJob => Aged(next.del),
           next.at = "score" => Aged(Range(next.left)),
           job[c].at # "forget", next.at # "forget",
           next.at \in {"summarise", "delete"} => next.del \in low',
           (next.at = "summarise" /\ brain.llm) =>
              \A g \in Groups(next.del) : g \in next.groups \/ \E k \in knowledge' : k.of = g,
           (next.at = "delete" /\ brain.llm) =>
              \A g \in Groups(next.del) : \E k \in knowledge' : k.of = g,
           low \subseteq low', knowledge \subseteq knowledge',
           UNCHANGED <<brain, day, memory, rows, vectors, pending, batches, born, lost>>
    PROVE  MemInv'
<1>. USE DEF MemInv
<1>1. EntriesAreNew'
    BY CallsStayTyped DEF EntriesAreNew
<1>2. job'[c] = next /\ \A d \in Consolidations \ {c} : job'[d] = job[d]
    BY OneCall
<1>3. \A old : Aged(old)' <=> Aged(old)
    BY DEF Aged
<1>4. CallsReadThePast'
    BY <1>2, <1>3 DEF CallsReadThePast
<1>5. \A old : Groups(old)' = Groups(old)
    BY DEF Groups
<1>6. SummarisedFirst'
  <2>1. ASSUME NEW d \in Consolidations
        PROVE  /\ job'[d].at \in {"summarise", "delete", "forget"} => job'[d].del \in low'
               /\ (job'[d].at = "summarise" /\ brain.llm) =>
                     \A g \in Groups(job'[d].del) :
                        g \in job'[d].groups \/ \E k \in knowledge' : k.of = g
               /\ (job'[d].at \in {"delete", "forget"} /\ brain.llm) =>
                     \A g \in Groups(job'[d].del) : \E k \in knowledge' : k.of = g
               /\ job'[d].at = "forget" => job'[d].del \cap rows = {}
    <3>1. CASE d = c
        BY <1>2, <3>1
    <3>2. CASE d # c
      <4>1. job'[d] = job[d]
          BY <1>2, <3>2
      <4>. QED
          BY <4>1 DEF SummarisedFirst
    <3>. QED
        BY <3>1, <3>2
  <2>. QED
      BY <1>5, <2>1 DEF SummarisedFirst
<1>7. StoresFollow'
  <2>1. \A m : Forgetting(m)' <=> Forgetting(m)
      BY <1>2 DEF Forgetting
  <2>2. \A op, m : Underway(op, m)' <=> Underway(op, m)
      BY DEF Underway
  <2>. QED
      BY <2>1, <2>2 DEF StoresFollow
<1>8. NothingIsForgotten'
  <2>1. Persisted' = Persisted
      BY DEF Persisted
  <2>2. ASSUME NEW m, Remembered(m) PROVE Remembered(m)'
      BY <2>2 DEF Remembered
  <2>. QED
      BY <2>1, <2>2 DEF NothingIsForgotten
<1>. QED
    BY <1>1, <1>4, <1>6, <1>7, <1>8

LEMMA ConsolidateKeeps == MemInv /\ (\E c \in Consolidations : Consolidate(c)) => MemInv'
<1>. SUFFICES ASSUME MemInv, NEW c \in Consolidations, Consolidate(c) PROVE MemInv'
    OBVIOUS
<1>. DEFINE next == [at |-> "score", left |-> SetToSeq(Old), promote |-> <<>>, del |-> {}]
<1>1. /\ job[c] = NoJob /\ Goes(c, next)
      /\ UNCHANGED <<brain, day, memory, rows, vectors, knowledge, pending, batches, born, lost, low>>
    BY DEF Consolidate
<1>2. SetToSeq(Old) \in Seq(Old) /\ Range(SetToSeq(Old)) \subseteq Old
    BY OldIs, ListedIs
<1>3. SetToSeq(Old) \in Seq(Memories) /\ Aged(Range(SetToSeq(Old)))
  <2>1. SetToSeq(Old) \in Seq(Memories)
      BY <1>2, OldIs
  <2>. QED
      BY <1>2, <2>1, OldIs DEF Aged
<1>4. Aged({})
    BY DEF Aged
<1>5. next \in Scoring /\ next # NoJob /\ next.at = "score" /\ next.left = SetToSeq(Old) /\ next.del = {}
    BY <1>3 DEF Scoring, NoJob
<1>. HIDE DEF next
<1>6. job[c].at = "none"
    BY <1>1 DEF NoJob
<1>. QED
    BY <1>1, <1>3, <1>4, <1>5, <1>6, ReadingKeeps

\* Only the entries of a batch are scored, whatever the model answers.
LEMMA ScoredIs ==
    ASSUME NEW ids, NEW answer
    PROVE  \A s \in Scores(ids, answer) : s[1] \in ids
<1>1. \A some : \A s \in Heuristic(some) : s[1] \in some
    BY DEF Heuristic
<1>2. CASE brain.strategy = "heuristic" \/ ~brain.llm
    BY <1>1, <1>2 DEF Scores
<1>3. CASE ~(brain.strategy = "heuristic" \/ ~brain.llm) /\ brain.strategy = "llm" /\ brain.llm
  <2>1. Scores(ids, answer) = {s \in LlmScore(ids, answer) : s[1] \in ids}
      BY <1>3 DEF Scores
  <2>. QED
      BY <2>1
<1>4. CASE ~(brain.strategy = "heuristic" \/ ~brain.llm) /\ ~(brain.strategy = "llm" /\ brain.llm)
  <2>. DEFINE asked == Borderline(ids)
              said == IF asked = {} THEN {} ELSE LlmScore(asked, answer)
              heard == {s[1] : s \in said}
  <2>1. Scores(ids, answer) = {s \in said : s[1] \in ids} \cup Heuristic(ids \ heard)
      BY <1>4 DEF Scores
  <2>. HIDE DEF said, heard
  <2>. QED
      BY <1>1, <2>1
<1>. QED
    BY <1>2, <1>3, <1>4

LEMMA ScoreBatchKeeps == MemInv /\ (\E c \in Consolidations : ScoreBatch(c)) => MemInv'
<1>. SUFFICES ASSUME MemInv, NEW c \in Consolidations, ScoreBatch(c) PROVE MemInv'
    OBVIOUS
<1>. DEFINE j == job[c]
            n == Min({brain.batchSize, Len(j.left)})
            ids == Range(SubSeq(j.left, 1, n))
            high(scores) == {s[1] : s \in {t \in scores : t[2] >= brain.threshold}}
            unfit(scores) == {s[1] : s \in {t \in scores : t[2] < brain.threshold}}
            next(scores) == [at |-> "score", left |-> SubSeq(j.left, n + 1, Len(j.left)),
                             promote |-> j.promote \o SetToSeq(high(scores)),
                             del |-> j.del \cup unfit(scores)]
<1>1. /\ j.at = "score"
      /\ \E answer \in brain.answers : Goes(c, next(Scores(ids, answer)))
      /\ UNCHANGED <<brain, day, memory, rows, vectors, knowledge, pending, batches, born, lost, low>>
    BY DEF ScoreBatch
<1>2. PICK answer \in brain.answers : Goes(c, next(Scores(ids, answer)))
    BY <1>1
<1>. DEFINE scores == Scores(ids, answer)
            left == SubSeq(j.left, n + 1, Len(j.left))
            promote == j.promote \o SetToSeq(high(scores))
            del == j.del \cup unfit(scores)
            last == [at |-> "score", left |-> left, promote |-> promote, del |-> del]
<1>3. Goes(c, last)
    BY <1>2
<1>4. /\ j \in Scoring /\ j.left \in Seq(Memories) /\ j.promote \in Seq(Memories)
      /\ j.del \subseteq Memories /\ Aged(j.del) /\ Aged(Range(j.left))
  <2>1. j \in Scoring /\ j # NoJob
      BY <1>1, StagesAre DEF MemInv, NoJob
  <2>. QED
      BY <1>1, <2>1 DEF Scoring, MemInv, CallsReadThePast
<1>5. brain.batchSize \in Nat \ {0} /\ IsFiniteSet(Memories)
    BY BrainIs DEF MemInv, EntriesAreNew
<1>6. /\ Len(j.left) \in Nat /\ DOMAIN j.left = 1..Len(j.left)
      /\ \A i \in 1..Len(j.left) : j.left[i] \in Memories /\ j.left[i] \in Range(j.left)
    BY <1>4, LenProperties, ElementOfSeq DEF Range
<1>7. n \in Nat /\ n <= Len(j.left)
    BY <1>5, <1>6, MinOfTwo
<1>8. ASSUME NEW a \in 1..(Len(j.left) + 1), NEW b \in 0..Len(j.left)
      PROVE  SubSeq(j.left, a, b) \in Seq(Memories) /\ Range(SubSeq(j.left, a, b)) \subseteq Range(j.left)
  <2>. DEFINE some == Range(j.left)
              x == j.left
  <2>1. \A i \in a..b : x[i] \in some
      BY <1>6
  <2>2. x \in Seq(some) /\ a \in Int /\ b \in Int
    <3>1. x = [i \in 1..Len(x) |-> x[i]] /\ \A i \in 1..Len(x) : x[i] \in some
        BY <1>4, <1>6, LenProperties
    <3>2. x \in [1..Len(x) -> some]
        BY <3>1
    <3>. QED
        BY <1>6, <3>2, SeqDef
  <2>3. some \subseteq Memories
      BY <1>6 DEF Range
  <2>. HIDE DEF some, x
  <2>4. SubSeq(x, a, b) \in Seq(some)
      BY <2>1, <2>2, SubSeqProperties
  <2>5. \A i \in 1..Len(SubSeq(x, a, b)) : SubSeq(x, a, b)[i] \in some
      BY <2>4, ElementOfSeq
  <2>6. Range(SubSeq(x, a, b)) \subseteq some
      BY <2>4, <2>5, LenProperties DEF Range
  <2>7. SubSeq(x, a, b) \in Seq(Memories)
      BY <2>3, <2>4
  <2>. QED
      BY <2>6, <2>7 DEF some, x
<1>9. ids \subseteq Range(j.left) /\ left \in Seq(Memories) /\ Range(left) \subseteq Range(j.left)
  <2>1. 1 \in 1..(Len(j.left) + 1) /\ n \in 0..Len(j.left) /\ n + 1 \in 1..(Len(j.left) + 1)
        /\ Len(j.left) \in 0..Len(j.left)
      BY <1>6, <1>7
  <2>. HIDE DEF n
  <2>. QED
      BY <1>8, <2>1
<1>10. Range(j.left) \subseteq Memories
    BY <1>6 DEF Range
<1>11. high(scores) \subseteq ids /\ unfit(scores) \subseteq ids
  <2>1. \A s \in scores : s[1] \in ids
      BY ScoredIs
  <2>. HIDE DEF scores, ids
  <2>. QED
      BY <2>1
<1>. DEFINE up == high(scores)
            down == unfit(scores)
<1>. HIDE DEF scores, ids, left, n, high, unfit
<1>12. SetToSeq(up) \in Seq(Memories)
  <2>1. up \subseteq Memories /\ IsFiniteSet(up)
      BY <1>5, <1>9, <1>10, <1>11, FS_Subset
  <2>. HIDE DEF up
  <2>2. SetToSeq(up) \in Seq(up)
      BY <2>1, ListedIs
  <2>. QED
      BY <2>1, <2>2
<1>13. promote \in Seq(Memories)
    BY <1>4, <1>12, ConcatProperties
<1>14. del \subseteq Memories /\ Aged(del) /\ Aged(Range(left))
    BY <1>4, <1>9, <1>10, <1>11 DEF Aged
<1>. HIDE DEF promote, del, j
<1>15. last \in Scoring /\ last # NoJob /\ last.at = "score" /\ last.left = left /\ last.del = del
    BY <1>9, <1>13, <1>14 DEF Scoring, NoJob
<1>16. job[c].at # "forget" /\ last.at # "forget" /\ last.at \notin {"summarise", "delete"}
    BY <1>1, <1>15 DEF j
<1>. HIDE DEF last
<1>. QED
    BY <1>1, <1>3, <1>14, <1>15, <1>16, ReadingKeeps
\* An entry to delete is summarised with another of its type, or is the only one of it.
LEMMA GroupedIs ==
    ASSUME NEW ids \in SUBSET Memories, NEW m \in ids
    PROVE  \/ \E g \in Groups(ids) : m \in g
           \/ \A n \in ids \ {m} : brain.type[n] # brain.type[m]
<1>. DEFINE g == {n \in ids : brain.type[n] = brain.type[m]}
<1>1. SUFFICES ASSUME NEW n \in ids \ {m}, brain.type[n] = brain.type[m] PROVE g \in Groups(ids)
    OBVIOUS
<1>2. m \in g /\ n \in g /\ m # n
    BY <1>1
<1>3. IsFiniteSet(g) /\ Cardinality(g) \in Nat
    BY BrainsAreSound, FS_Subset, FS_CardinalityType
<1>4. Cardinality(g) # 0 /\ Cardinality(g) # 1
  <2>. HIDE DEF g
  <2>1. ~\E x : g = {x}
      BY <1>2
  <2>. QED
      BY <1>2, <1>3, <2>1, FS_EmptySet, FS_Singleton
<1>5. Cardinality(g) >= 2
    BY <1>3, <1>4
<1>6. g \in {{x \in ids : brain.type[x] = t} : t \in {brain.type[x] : x \in ids}}
    OBVIOUS
<1>. QED
    BY <1>5, <1>6 DEF Groups

LEMMA PromoteKeeps == MemInv /\ (\E c \in Consolidations : Promote(c)) => MemInv'
<1>. SUFFICES ASSUME MemInv, NEW c \in Consolidations, Promote(c) PROVE MemInv'
    OBVIOUS
<1>1. /\ job[c].at = "score"
      /\ UNCHANGED <<brain, day, memory, rows, vectors, pending, batches, born, lost>>
    BY DEF Promote
<1>2. /\ job[c] \in Scoring /\ job[c] # NoJob /\ job[c].promote \in Seq(Memories)
      /\ job[c].del \subseteq Memories /\ Aged(job[c].del) /\ Aged(Range(job[c].left))
  <2>1. job[c] \in Scoring /\ job[c] # NoJob
      BY <1>1, StagesAre DEF MemInv, NoJob
  <2>. QED
      BY <1>1, <2>1 DEF Scoring, MemInv, CallsReadThePast
<1>3. CASE job[c].promote # <<>>
  <2>. DEFINE next == [job[c] EXCEPT !.promote = Tail(@)]
              known == [why |-> "promoted", of |-> {Head(job[c].promote)}]
  <2>1. Goes(c, next) /\ knowledge' = knowledge \cup {known} /\ low' = low
      BY <1>3 DEF Promote
  <2>2. Tail(job[c].promote) \in Seq(Memories)
      BY <1>2, <1>3, HeadTailProperties
  <2>3. next \in Scoring /\ next.at = "score" /\ next.del = job[c].del /\ next.left = job[c].left
      BY <1>2, <2>2 DEF Scoring
  <2>. HIDE DEF next, known
  <2>4. next # NoJob /\ knowledge \subseteq knowledge'
      BY <2>1, <2>3 DEF NoJob
  <2>. QED
      BY <1>1, <1>2, <2>1, <2>3, <2>4, ReadingKeeps
<1>4. CASE job[c].promote = <<>>
  <2>. DEFINE next == ThenSummaries(job[c])
  <2>1. Goes(c, next) /\ knowledge' = knowledge /\ low' = low \cup {job[c].del}
      BY <1>4 DEF Promote
  <2>2. Groups(job[c].del) \subseteq SUBSET Memories
      BY <1>2 DEF Groups
  <2>3. /\ next \in Summarising /\ next.at = "summarise" /\ next.del = job[c].del
        /\ brain.llm => next.groups = Groups(job[c].del)
      BY <1>2, <2>2 DEF ThenSummaries, Summarising
  <2>. HIDE DEF next
  <2>4. next # NoJob /\ low \subseteq low' /\ next.del \in low'
      BY <2>1, <2>3 DEF NoJob
  <2>. QED
      BY <1>1, <1>2, <2>1, <2>3, <2>4, ReadingKeeps
<1>. QED
    BY <1>3, <1>4

LEMMA SummariseKeeps == MemInv /\ (\E c \in Consolidations : Summarise(c)) => MemInv'
<1>. SUFFICES ASSUME MemInv, NEW c \in Consolidations, Summarise(c) PROVE MemInv'
    OBVIOUS
<1>1. /\ job[c].at = "summarise"
      /\ UNCHANGED <<brain, day, memory, rows, vectors, pending, batches, born, lost, low>>
    BY DEF Summarise
<1>2. /\ job[c] \in Summarising /\ job[c] # NoJob
      /\ job[c].del \subseteq Memories /\ Aged(job[c].del) /\ job[c].del \in low
      /\ brain.llm => \A g \in Groups(job[c].del) :
                         g \in job[c].groups \/ \E k \in knowledge : k.of = g
  <2>1. job[c] \in Summarising /\ job[c] # NoJob
      BY <1>1, StagesAre DEF MemInv, NoJob
  <2>. QED
      BY <1>1, <2>1 DEF Summarising, MemInv, CallsReadThePast, SummarisedFirst
<1>3. CASE job[c].groups = {} /\ job[c].del = {}
  <2>1. Goes(c, NoJob) /\ knowledge' = knowledge
      BY <1>3 DEF Summarise
  <2>2. NoJob.at = "none"
      BY DEF NoJob
  <2>. QED
      BY <1>1, <2>1, <2>2, ReadingKeeps
<1>4. CASE job[c].groups = {} /\ job[c].del # {}
  <2>. DEFINE next == [at |-> "delete", del |-> job[c].del]
  <2>1. Goes(c, next) /\ knowledge' = knowledge
      BY <1>4 DEF Summarise
  <2>2. next \in Deleting /\ next.at = "delete" /\ next.del = job[c].del /\ next # NoJob
      BY <1>2 DEF Deleting, NoJob
  <2>. HIDE DEF next
  <2>. QED
      BY <1>1, <1>2, <1>4, <2>1, <2>2, ReadingKeeps
<1>5. CASE job[c].groups # {}
  <2>1. PICK g \in job[c].groups :
           /\ knowledge' = knowledge \cup {[why |-> "summary", of |-> g]}
           /\ Goes(c, [job[c] EXCEPT !.groups = @ \ {g}])
      BY <1>5 DEF Summarise
  <2>. DEFINE next == [job[c] EXCEPT !.groups = @ \ {g}]
              known == [why |-> "summary", of |-> g]
  <2>2. /\ next \in Summarising /\ next.at = "summarise" /\ next.del = job[c].del
        /\ next.groups = job[c].groups \ {g}
      BY <1>2 DEF Summarising
  <2>3. known.of = g /\ knowledge' = knowledge \cup {known} /\ Goes(c, next)
      BY <2>1
  <2>. HIDE DEF next, known
  <2>4. next # NoJob /\ knowledge \subseteq knowledge'
      BY <2>2, <2>3 DEF NoJob
  <2>5. brain.llm => \A h \in Groups(next.del) : h \in next.groups \/ \E k \in knowledge' : k.of = h
      BY <1>2, <2>2, <2>3
  <2>. QED
      BY <1>1, <1>2, <2>2, <2>3, <2>4, <2>5, ReadingKeeps
<1>. QED
    BY <1>3, <1>4, <1>5

\* The rows go: each is in a summary that was saved, or was alone of its type.
LEMMA DeleteRowsKeeps ==
    ASSUME MemInv, NEW c \in Consolidations, Delete(c), job[c].at = "delete"
    PROVE  MemInv'
<1>. USE DEF MemInv
<1>. DEFINE del == job[c].del
            next == [at |-> "forget", del |-> del]
<1>1. /\ rows' = rows \ del /\ Goes(c, next)
      /\ UNCHANGED <<brain, day, memory, vectors, knowledge, pending, batches, born, lost, low>>
    BY DEF Delete
<1>2. /\ del \subseteq Memories /\ Aged(del) /\ del \in low
      /\ brain.llm => \A g \in Groups(del) : \E k \in knowledge : k.of = g
  <2>1. job[c] \in Deleting /\ job[c] # NoJob
      BY StagesAre DEF NoJob
  <2>. QED
      BY <2>1 DEF Deleting, CallsReadThePast, SummarisedFirst
<1>3. next \in Deleting /\ next.at = "forget" /\ next.del = del
    BY <1>2 DEF Deleting
<1>. HIDE DEF next
<1>4. job'[c] = next /\ \A d \in Consolidations \ {c} : job'[d] = job[d]
    BY <1>1, OneCall
<1>5. EntriesAreNew'
  <2>1. job' \in [Consolidations -> {NoJob} \cup Scoring \cup Summarising \cup Deleting]
      BY <1>1, <1>3, CallsStayTyped
  <2>. QED
      BY <1>1, <2>1 DEF EntriesAreNew
<1>6. CallsReadThePast'
  <2>1. \A old : Aged(old)' <=> Aged(old)
      BY <1>1 DEF Aged
  <2>. QED
      BY <1>1, <1>2, <1>3, <1>4, <2>1 DEF CallsReadThePast
<1>7. SummarisedFirst'
  <2>1. \A old : Groups(old)' = Groups(old)
      BY <1>1 DEF Groups
  <2>2. ASSUME NEW d \in Consolidations
        PROVE  /\ job'[d].at \in {"summarise", "delete", "forget"} => job'[d].del \in low
               /\ (job'[d].at = "summarise" /\ brain.llm) =>
                     \A g \in Groups(job'[d].del) :
                        g \in job'[d].groups \/ \E k \in knowledge : k.of = g
               /\ (job'[d].at \in {"delete", "forget"} /\ brain.llm) =>
                     \A g \in Groups(job'[d].del) : \E k \in knowledge : k.of = g
               /\ job'[d].at = "forget" => job'[d].del \cap rows' = {}
    <3>1. CASE d = c
        BY <1>1, <1>2, <1>3, <1>4, <3>1
    <3>2. CASE d # c
      <4>1. job'[d] = job[d]
          BY <1>4, <3>2
      <4>. QED
          BY <1>1, <4>1 DEF SummarisedFirst
    <3>. QED
        BY <3>1, <3>2
  <2>. QED
      BY <1>1, <2>1, <2>2 DEF SummarisedFirst
<1>8. StoresFollow'
  <2>1. \A m : Forgetting(m)' <=> Forgetting(m) \/ m \in del
      BY <1>3, <1>4 DEF Forgetting
  <2>2. \A op, m : Underway(op, m)' <=> Underway(op, m)
      BY <1>1 DEF Underway
  <2>. QED
      BY <1>1, <2>1, <2>2 DEF StoresFollow
<1>9. NothingIsForgotten'
  <2>1. Persisted' = Persisted /\ \A m : Remembered(m)' <=> Remembered(m)
      BY <1>1 DEF Persisted, Remembered
  <2>2. ASSUME NEW m \in del
        PROVE  \/ Remembered(m)
               \/ \E meant \in low : /\ m \in meant
                                     /\ brain.llm => \A n \in meant \ {m} : brain.type[n] # brain.type[m]
    <3>1. CASE ~brain.llm
        BY <1>2, <3>1
    <3>2. CASE \A n \in del \ {m} : brain.type[n] # brain.type[m]
        BY <1>2, <3>2
    <3>3. CASE brain.llm /\ \E g \in Groups(del) : m \in g
        BY <1>2, <3>3 DEF Remembered
    <3>. HIDE DEF del
    <3>. QED
        BY <1>2, <3>1, <3>2, <3>3, GroupedIs
  <2>. QED
      BY <1>1, <2>1, <2>2 DEF NothingIsForgotten
<1>. QED
    BY <1>5, <1>6, <1>7, <1>8, <1>9

\* A call that has deleted rows ends: the vectors have gone too, or an operation has failed.
LEMMA ForgettingEnds ==
    ASSUME MemInv, NEW c \in Consolidations, job[c].at = "forget", Goes(c, NoJob),
           NEW del, del = job[c].del,
           \/ vectors' = vectors \ del /\ lost' = lost
           \/ vectors' = vectors /\ lost' = lost \cup del,
           UNCHANGED <<brain, day, memory, rows, knowledge, pending, batches, born, low>>
    PROVE  MemInv'
<1>. USE DEF MemInv
<1>1. del \subseteq Memories /\ Aged(del) /\ del \cap rows = {}
  <2>1. job[c] \in Deleting /\ job[c] # NoJob
      BY StagesAre DEF NoJob
  <2>. QED
      BY <2>1 DEF Deleting, CallsReadThePast, SummarisedFirst
<1>2. job'[c] = NoJob /\ NoJob.at = "none" /\ \A d \in Consolidations \ {c} : job'[d] = job[d]
    BY OneCall DEF NoJob
<1>3. EntriesAreNew'
  <2>1. job' \in [Consolidations -> {NoJob} \cup Scoring \cup Summarising \cup Deleting]
      BY CallsStayTyped
  <2>2. vectors' \subseteq Memories
      BY DEF EntriesAreNew
  <2>. QED
      BY <2>1, <2>2 DEF EntriesAreNew
<1>4. CallsReadThePast'
  <2>1. \A old : Aged(old)' <=> Aged(old)
      BY DEF Aged
  <2>. QED
      BY <1>2, <2>1 DEF CallsReadThePast
<1>5. SummarisedFirst'
  <2>1. \A old : Groups(old)' = Groups(old)
      BY DEF Groups
  <2>2. \A d \in Consolidations : job'[d] = job[d] \/ job'[d].at = "none"
      BY <1>2
  <2>. QED
      BY <2>1, <2>2 DEF SummarisedFirst
<1>6. ASSUME NEW m \in del, NEW op PROVE ~Underway(op, m)
  <2>1. born[m] \in 0..day /\ born[m] < day /\ day \in Nat
      BY <1>1 DEF Aged, EntriesAreNew
  <2>2. \A p \in pending : m \in p.ids => born[m] = day
      BY DEF CallsReadThePast
  <2>. QED
      BY <2>1, <2>2 DEF Underway
<1>7. StoresFollow'
  <2>1. \A m : m \notin del => (Forgetting(m)' <=> Forgetting(m))
      BY <1>2 DEF Forgetting
  <2>2. \A op, m : Underway(op, m)' <=> Underway(op, m)
      BY DEF Underway
  <2>3. ASSUME NEW m \in Memories \ lost'
        PROVE  /\ m \in rows \/ Underway("row", m)
                     => m \in vectors' \/ Underway("embed", m) \/ Underway("vector", m)
               /\ m \in vectors' \/ Underway("embed", m) \/ Underway("vector", m)
                     => m \in rows \/ Underway("row", m) \/ Forgetting(m)'
    <3>1. CASE m \in del
      <4>1. vectors' = vectors \ del
          BY <2>3, <3>1
      <4>. QED
          BY <1>1, <1>6, <3>1, <4>1
    <3>2. CASE m \notin del
      <4>1. m \in Memories \ lost /\ (m \in vectors' <=> m \in vectors)
          BY <2>3, <3>2
      <4>. QED
          BY <2>1, <3>2, <4>1 DEF StoresFollow
    <3>. QED
        BY <3>1, <3>2
  <2>. QED
      BY <2>2, <2>3 DEF StoresFollow
<1>8. NothingIsForgotten'
  <2>1. Persisted' \subseteq Persisted
      BY DEF Persisted
  <2>2. \A m : Remembered(m)' <=> Remembered(m)
      BY DEF Remembered
  <2>. QED
      BY <2>1, <2>2 DEF NothingIsForgotten
<1>. QED
    BY <1>3, <1>4, <1>5, <1>7, <1>8

LEMMA DeleteKeeps == MemInv /\ (\E c \in Consolidations : Delete(c)) => MemInv'
<1>. SUFFICES ASSUME MemInv, NEW c \in Consolidations, Delete(c) PROVE MemInv'
    OBVIOUS
<1>1. CASE job[c].at = "delete"
    BY <1>1, DeleteRowsKeeps
<1>2. CASE job[c].at = "forget"
  <2>1. /\ vectors' = vectors \ job[c].del /\ Goes(c, NoJob) /\ lost' = lost
        /\ UNCHANGED <<brain, day, memory, rows, knowledge, pending, batches, born, low>>
      BY <1>2 DEF Delete, Drops
  <2>. QED
      BY <1>2, <2>1, ForgettingEnds
<1>. QED
    BY <1>1, <1>2 DEF Delete

LEMMA RejectCallKeeps == MemInv /\ (\E c \in Consolidations : RejectCall(c)) => MemInv'
<1>. SUFFICES ASSUME MemInv, NEW c \in Consolidations, RejectCall(c) PROVE MemInv'
    OBVIOUS
<1>1. /\ Goes(c, NoJob) /\ NoJob.at = "none"
      /\ lost' = IF job[c].at = "forget" THEN lost \cup job[c].del ELSE lost
      /\ UNCHANGED <<brain, day, memory, rows, vectors, knowledge, pending, batches, born, low>>
    BY DEF RejectCall, NoJob
<1>2. CASE job[c].at = "forget"
    BY <1>1, <1>2, ForgettingEnds
<1>3. CASE job[c].at # "forget"
    BY <1>1, <1>3, ReadingKeeps
<1>. QED
    BY <1>2, <1>3

LEMMA MemoryGoesOn == MemInv /\ [MemoryNext]_memoryVars => MemInv'
<1>. SUFFICES ASSUME MemInv, [MemoryNext]_memoryVars PROVE MemInv'
    OBVIOUS
<1>1. CASE UNCHANGED memoryVars
  <2>1. EntriesAreNew' /\ CallsReadThePast'
      BY <1>1 DEF memoryVars, MemInv, EntriesAreNew, CallsReadThePast, Aged
  <2>2. \A old : Groups(old)' = Groups(old)
      BY <1>1 DEF memoryVars, Groups
  <2>3. SummarisedFirst'
      BY <1>1, <2>2 DEF memoryVars, MemInv, SummarisedFirst
  <2>4. StoresFollow' /\ NothingIsForgotten'
      BY <1>1 DEF memoryVars, MemInv, StoresFollow, Underway, Forgetting, NothingIsForgotten,
         Persisted, Remembered
  <2>. QED
      BY <2>1, <2>3, <2>4 DEF MemInv
<1>2. CASE MemoryNext
    BY <1>2, SaveBatchKeeps, DayKeeps, LandsKeeps, FailsKeeps, ConsolidateKeeps, ScoreBatchKeeps,
       PromoteKeeps, SummariseKeeps, DeleteKeeps, RejectCallKeeps DEF MemoryNext
<1>. QED
    BY <1>1, <1>2

LEMMA MemoryIsEnough == MemInv => MemoryIsKept
<1>. SUFFICES ASSUME MemInv PROVE MemoryIsKept
    OBVIOUS
<1>1. memory \in Seq(Memories) /\ vectors \subseteq Memories /\ rows \subseteq Memories
    BY DEF MemInv, EntriesAreNew
<1>2. \A limit \in 0..2 : \A m, n \in vectors : m # n => IsInjective(Recalled(limit, <<m, n>>))
    BY <1>1, RecallsOnce
<1>3. ASSUME pending = {}, \A c \in Consolidations : job[c] = NoJob
      PROVE  vectors \ lost = rows \ lost
  <2>1. \A op, m : ~Underway(op, m)
      BY <1>3 DEF Underway
  <2>2. \A m : ~Forgetting(m)
      BY <1>3 DEF Forgetting, NoJob
  <2>. QED
      BY <1>1, <2>1, <2>2 DEF MemInv, StoresFollow
<1>. QED
    BY <1>2, <1>3 DEF MemInv, MemoryIsKept, StoresAgree

\* However many consolidations overlap and fail, whatever the model answers, an entry is gone
\* from the rows only when a call meant to delete it and, with company of its type, after its
\* summary was saved, and vectors and rows agree when nothing is under way
\* (MemoryConsolidator.ts:49-143, BrainMemory.ts:74-212).
THEOREM MemoryStaysKept == MemorySpec => []MemoryIsKept
<1>1. MemInv /\ [MemoryNext]_memoryVars => MemInv'
    BY MemoryGoesOn
<1>. QED
    BY MemoryStarts, <1>1, MemoryIsEnough, PTL DEF MemorySpec

-----------------------------------------------------------------------------
(***************************************************************************)
(* Phones.  The inductive invariant: a number at hand is one the agent has had,   *)
(* what the directory will answer is among the holders since the request, whoever *)
(* is about to say a line has the turn, and after an end nothing is left to say   *)
(* but that line.                                                           *)
(***************************************************************************)
Handset == [id : Int, number : Int, owner : Callers \cup {Nobody}, online : BOOLEAN]
Errand == [at : {"free", "asked", "looked", "reached", "line"}, kind : {"none", "sms", "call"},
           number : Int, mine : SUBSET Int, to : Callers \cup {Nobody}, call : Nat]
PhoneCall == [caller : Callers, callee : Callers, active : BOOLEAN, speaker : Callers,
         numbers : (SUBSET Int) \X (SUBSET Int)]
Line == [from : Callers, to : Callers, about : Nat, kind : {"sms", "incoming", "line", "end"},
         shown : SUBSET Int]
Moment == [holders : SUBSET Callers, reachable : SUBSET Callers]

PhoneTypes ==
    /\ office \in Offices /\ phones \in Seq(Handset) /\ errand \in [Callers -> Errand]
    /\ calls \in Seq(PhoneCall) /\ sent \in Seq(Line)
    /\ had \in [Callers -> SUBSET Int] /\ owners \in [Callers -> Moment]
    /\ \A a \in Callers : errand[a].at = "reached" => errand[a].to \in Callers

\* Numbers that are shown were had, and so were those of a call.
NumbersInv ==
    /\ \A a \in Callers : NumbersOf(phones)[a] \cup errand[a].mine \subseteq had[a]
    /\ \A k \in DOMAIN calls : /\ calls[k].numbers[1] \subseteq had[calls[k].caller]
                               /\ calls[k].numbers[2] \subseteq had[calls[k].callee]
    /\ NumbersAreTheirs

\* While a number is looked up, who has it is among its holders, and who is on among the reachable.
Dials(a) == errand[a].at \in {"asked", "looked", "reached"}
Holding(number, store) == {b \in Callers : number \in NumbersOf(store)[b]}
DirectoryInv ==
    /\ \A a \in Callers : Dials(a) =>
          /\ owners[a].holders \subseteq {b \in Callers : errand[a].number \in had[b]}
          /\ Holding(errand[a].number, phones) \subseteq owners[a].holders
          /\ Online(phones) \subseteq owners[a].reachable
    /\ \A a \in Callers : errand[a].at \in {"looked", "reached"} =>
          errand[a].to \in owners[a].holders \cup {Nobody} /\ errand[a].number \notin errand[a].mine
    /\ TextsAreAddressed

\* Who is saying its line has the turn in that call; a call that goes on has no end yet, and
\* its next line is its speaker's.
Saying(a, k) == errand[a].at = "line" /\ errand[a].call = k
CallsInv ==
    /\ OneCallEach
    /\ \A k \in DOMAIN calls : calls[k].speaker \in Ends(k)
    /\ \A a \in Callers : errand[a].at = "line" =>
          errand[a].call \in DOMAIN calls /\ calls[errand[a].call].speaker = a
    /\ \A i \in DOMAIN sent : sent[i].about \in 0..Len(calls)
Latest(i, S) == i \in S /\ \A j \in S : j <= i
Turn(k) ==
    calls[k].active \/ (\E a \in Callers : Saying(a, k)) =>
        /\ OfKind("line", k) = {} => calls[k].speaker = calls[k].caller
        /\ \A i : Latest(i, OfKind("line", k)) => sent[i].from # calls[k].speaker
NoEndYet(k) == calls[k].active => OfKind("end", k) = {}
LastWord(k) ==
    (\E a \in Callers : Saying(a, k)) => \A e \in OfKind("end", k), i \in About(k) : i <= e
Whole(k) ==
    /\ BeginsWithTheCall(k) /\ BetweenTheTwo(k) /\ TakesTurns(k) /\ EndsOnce(k)
    /\ Turn(k) /\ NoEndYet(k) /\ LastWord(k)
TalkInv == \A k \in DOMAIN calls : calls[k].caller # calls[k].callee => Whole(k)

PhoneInv == PhoneTypes /\ NumbersInv /\ DirectoryInv /\ CallsInv /\ TalkInv

-----------------------------------------------------------------------------
\* A set of one message, or of none, is sent as such.
LEMMA NothingSent ==
    SetToSeq({}) = <<>>
<1>1. Cardinality({}) = 0
    BY FS_EmptySet
<1>2. <<>> \in [1..0 -> {}] /\ IsInjective(<<>>)
    BY DEF IsInjective
<1>3. SetToSeq({}) \in [1..0 -> {}]
    BY <1>1, <1>2 DEF SetToSeq
<1>. QED
    BY <1>3

LEMMA OneSent ==
    ASSUME NEW m
    PROVE  SetToSeq({m}) = <<m>>
<1>1. Cardinality({m}) = 1
    BY FS_Singleton
<1>2. <<m>> \in [1..1 -> {m}] /\ IsInjective(<<m>>)
    BY DEF IsInjective
<1>3. SetToSeq({m}) \in [1..1 -> {m}]
    BY <1>1, <1>2 DEF SetToSeq
<1>. QED
    BY <1>3

\* Where a tool stands, and what it has at hand, is of the right type.
LEMMA ToolIs ==
    /\ \A at \in {"free", "asked", "looked", "reached", "line"}, kind \in {"none", "sms", "call"},
          number \in Int, mine \in SUBSET Int, to \in Callers \cup {Nobody}, call \in Nat :
          Tool(at, kind, number, mine, to, call) \in Errand
    /\ Free \in Errand /\ Free.at = "free" /\ Free.mine = {}
BY DEF Tool, Errand, Free

\* The number an agent sends from is one that it has.
LEMMA NumbersAre ==
    ASSUME PhoneTypes, NEW a \in Callers
    PROVE  /\ NumberOf(a) \in SUBSET Int /\ NumberOf(a) \subseteq NumbersOf(phones)[a]
           /\ NumbersOf(phones)[a] \in SUBSET Int
<1>1. \A p \in ToSet(phones) : p \in Handset
    BY DEF PhoneTypes, ToSet
<1>. QED
    BY <1>1 DEF NumberOf, NumbersOf, PhoneOf, OwnedBy, Handset

\* The first phone with a number is its owner's.
LEMMA ResolvesToItsOwner ==
    ASSUME PhoneTypes, NEW n
    PROVE  Resolve(n) \in Holding(n, phones) \cup {Nobody}
<1>. DEFINE found == {i \in DOMAIN phones : phones[i].owner # Nobody /\ phones[i].number = n}
<1>1. DOMAIN phones \subseteq Nat /\ \A i \in DOMAIN phones : phones[i] \in Handset
    BY DEF PhoneTypes
<1>2. CASE found = {}
    BY <1>2 DEF Resolve
<1>3. CASE found # {}
  <2>1. Min(found) \in found
      BY <1>1, <1>3, MinIs
  <2>2. PICK i \in found : i = Min(found) /\ Resolve(n) = phones[i].owner
      BY <1>3, <2>1 DEF Resolve
  <2>3. phones[i] \in Handset /\ phones[i] \in ToSet(phones) /\ phones[i].owner # Nobody
        /\ phones[i].number = n
      BY <1>1, <2>2 DEF ToSet
  <2>4. phones[i].owner \in Callers
      BY <2>3 DEF Handset
  <2>5. n \in NumbersOf(phones)[phones[i].owner]
      BY <2>3, <2>4 DEF NumbersOf, OwnedBy
  <2>. QED
      BY <2>2, <2>4, <2>5 DEF Holding
<1>. QED
    BY <1>2, <1>3

\* The other of a call is told, if it is another.
TellsTheOther(k, a, kind, shown) ==
    LET news == SetToSeq({Says(a, b, k, kind, shown) : b \in OtherEnd(k, a)})
    IN  /\ calls[k].caller = calls[k].callee => OtherEnd(k, a) = {} /\ news = <<>>
        /\ calls[k].caller # calls[k].callee =>
              \E b \in Callers : /\ a # b /\ OtherEnd(k, a) = {b} /\ Ends(k) = {a, b}
                                 /\ news = <<Says(a, b, k, kind, shown)>>
LEMMA OtherEndIs ==
    ASSUME PhoneTypes, NEW k \in DOMAIN calls, NEW a \in Ends(k), NEW kind, NEW shown
    PROVE  TellsTheOther(k, a, kind, shown)
<1>1. calls[k] \in PhoneCall /\ calls[k].caller \in Callers /\ calls[k].callee \in Callers
  <2>1. calls \in Seq(PhoneCall)
      BY DEF PhoneTypes
  <2>2. calls[k] \in PhoneCall
      BY <2>1
  <2>. QED
      BY <2>2 DEF PhoneCall
<1>2. CASE calls[k].caller = calls[k].callee
  <2>1. OtherEnd(k, a) = {}
      BY <1>2 DEF OtherEnd, Ends
  <2>2. {Says(a, b, k, kind, shown) : b \in OtherEnd(k, a)} = {}
      BY <2>1
  <2>. QED
      BY <1>2, <2>1, <2>2, NothingSent DEF TellsTheOther
<1>3. CASE calls[k].caller # calls[k].callee
  <2>1. PICK b \in Callers : a # b /\ OtherEnd(k, a) = {b} /\ Ends(k) = {a, b}
      BY <1>1, <1>3 DEF OtherEnd, Ends
  <2>2. {Says(a, c, k, kind, shown) : c \in OtherEnd(k, a)} = {Says(a, b, k, kind, shown)}
      BY <2>1
  <2>. QED
      BY <1>3, <2>1, <2>2, OneSent DEF TellsTheOther
<1>. QED
    BY <1>2, <1>3

\* What one more message changes.
LEMMA SentOne ==
    ASSUME PhoneTypes, NEW m \in Line
    PROVE  /\ Append(sent, m) \in Seq(Line) /\ sent \o <<m>> = Append(sent, m) /\ sent \o <<>> = sent
           /\ DOMAIN Append(sent, m) = 1..(Len(sent) + 1) /\ DOMAIN sent = 1..Len(sent)
           /\ \A i \in 1..Len(sent) : Append(sent, m)[i] = sent[i]
           /\ Append(sent, m)[Len(sent) + 1] = m /\ Len(sent) \in Nat
BY AppendProperties, LenProperties, AppendIsConcat, ConcatEmptySeq DEF PhoneTypes

\* Whatever happens to a phone, the store is one of phones.
LEMMA StoresAre ==
    ASSUME PhoneTypes
    PROVE  /\ \A i \in DOMAIN phones, a \in Callers : [phones EXCEPT ![i].owner = a] \in Seq(Handset)
           /\ \A i \in DOMAIN phones : [phones EXCEPT ![i].online = ~@] \in Seq(Handset)
           /\ \A i \in DOMAIN phones : RemoveAt(phones, i) \in Seq(Handset)
<1>1. phones \in Seq(Handset) /\ \A i \in DOMAIN phones : phones[i] \in Handset
    BY DEF PhoneTypes
<1>2. \A i \in DOMAIN phones, a \in Callers : [phones EXCEPT ![i].owner = a] \in Seq(Handset)
  <2>. TAKE i \in DOMAIN phones, a \in Callers
  <2>1. [phones[i] EXCEPT !.owner = a] \in Handset
      BY <1>1 DEF Handset
  <2>. QED
      BY <1>1, <2>1, ExceptSeq
<1>3. \A i \in DOMAIN phones : [phones EXCEPT ![i].online = ~@] \in Seq(Handset)
  <2>. TAKE i \in DOMAIN phones
  <2>1. [phones[i] EXCEPT !.online = ~@] \in Handset
      BY <1>1 DEF Handset
  <2>. QED
      BY <1>1, <2>1, ExceptSeq
<1>4. \A i \in DOMAIN phones : RemoveAt(phones, i) \in Seq(Handset)
  <2>. TAKE i \in DOMAIN phones
  <2>1. i \in 1..Len(phones) /\ Len(phones) \in Nat
      BY <1>1, LenProperties
  <2>2. SubSeq(phones, 1, i - 1) \in Seq(Handset) /\ SubSeq(phones, i + 1, Len(phones)) \in Seq(Handset)
      BY <1>1, <2>1, SubSeqProperties
  <2>. QED
      BY <2>2, ConcatProperties DEF RemoveAt
<1>. QED
    BY <1>2, <1>3, <1>4

\* What who speaks shows, and whom it tells.
ShownIn(k, a) == IF errand[a].mine # {} THEN errand[a].mine ELSE NumberInCall(k, a)
Spoken(a, k) ==
    /\ k \in DOMAIN calls /\ a \in Ends(k) /\ calls[k].speaker = a
    /\ calls[k].caller = calls[k].callee => sent' = sent /\ calls' = calls
    /\ calls[k].caller # calls[k].callee =>
          \E b \in Callers :
             /\ a # b /\ Ends(k) = {a, b}
             /\ sent' = Append(sent, Says(a, b, k, "line", ShownIn(k, a)))
             /\ calls' = IF calls[k].active THEN [calls EXCEPT ![k].speaker = b] ELSE calls
LEMMA SpeechIs ==
    ASSUME PhoneTypes, CallsInv, NEW a \in Callers, SpeakEnd(a)
    PROVE  Spoken(a, errand[a].call)
<1>. DEFINE k == errand[a].call
            shown == ShownIn(k, a)
<1>1. k \in DOMAIN calls /\ calls[k].speaker = a /\ a \in Ends(k)
    BY DEF CallsInv, SpeakEnd
<1>2. /\ sent' = sent \o SetToSeq({Says(a, b, k, "line", shown) : b \in OtherEnd(k, a)})
      /\ calls' = IF calls[k].active /\ calls[k].speaker = a /\ OtherEnd(k, a) # {}
                  THEN [calls EXCEPT ![k].speaker = CHOOSE b \in OtherEnd(k, a) : TRUE]
                  ELSE calls
    BY DEF SpeakEnd, ShownIn
<1>3. sent \in Seq(Line)
    BY DEF PhoneTypes
<1>. HIDE DEF k, shown
<1>0. TellsTheOther(k, a, "line", shown)
    BY <1>1, OtherEndIs
<1>4. CASE calls[k].caller = calls[k].callee
  <2>1. OtherEnd(k, a) = {} /\ SetToSeq({Says(a, b, k, "line", shown) : b \in OtherEnd(k, a)}) = <<>>
      BY <1>0, <1>4 DEF TellsTheOther
  <2>. QED
      BY <1>1, <1>2, <1>3, <1>4, <2>1, ConcatEmptySeq DEF Spoken, k
<1>5. CASE calls[k].caller # calls[k].callee
  <2>1. PICK b \in Callers : /\ a # b /\ OtherEnd(k, a) = {b} /\ Ends(k) = {a, b}
            /\ SetToSeq({Says(a, c, k, "line", shown) : c \in OtherEnd(k, a)})
                  = <<Says(a, b, k, "line", shown)>>
      BY <1>0, <1>5 DEF TellsTheOther
  <2>2. (CHOOSE c \in OtherEnd(k, a) : TRUE) = b /\ OtherEnd(k, a) # {}
      BY <2>1
  <2>3. calls' = IF calls[k].active THEN [calls EXCEPT ![k].speaker = b] ELSE calls
      BY <1>1, <1>2, <2>2
  <2>4. sent' = sent \o <<Says(a, b, k, "line", shown)>>
      BY <1>2, <2>1
  <2>5. sent' = Append(sent, Says(a, b, k, "line", shown))
      BY <1>3, <2>4
  <2>. QED
      BY <1>1, <1>5, <2>1, <2>3, <2>5 DEF Spoken, shown, k
<1>. QED
    BY <1>4, <1>5 DEF k

\* Hanging up ends a call and tells the other, if it is another.
LEMMA HangUpIs ==
    ASSUME PhoneTypes, NEW a \in Callers, HangUp(a)
    PROVE  \E k \in ActiveCalls(a) :
             /\ k \in DOMAIN calls /\ calls[k].active /\ a \in Ends(k) 
             /\ calls' = [calls EXCEPT ![k].active = FALSE]
             /\ calls[k].caller = calls[k].callee => sent' = sent
             /\ calls[k].caller # calls[k].callee =>
                  \E b \in Callers : a # b /\ Ends(k) = {a, b}
                                     /\ sent' = Append(sent, Says(a, b, k, "end", {}))
<1>1. PICK k \in ActiveCalls(a) :
          /\ calls' = [calls EXCEPT ![k].active = FALSE]
          /\ sent' = sent \o SetToSeq({Says(a, b, k, "end", {}) : b \in OtherEnd(k, a)})
    BY DEF HangUp
<1>2. k \in DOMAIN calls /\ calls[k].active /\ a \in Ends(k) /\ sent \in Seq(Line)
    BY DEF PhoneTypes, ActiveCalls, Ends
<1>0. TellsTheOther(k, a, "end", {})
    BY <1>2, OtherEndIs
<1>4. CASE calls[k].caller = calls[k].callee
  <2>1. SetToSeq({Says(a, b, k, "end", {}) : b \in OtherEnd(k, a)}) = <<>>
      BY <1>0, <1>4 DEF TellsTheOther
  <2>. QED
      BY <1>1, <1>2, <1>4, <2>1, ConcatEmptySeq
<1>5. CASE calls[k].caller # calls[k].callee
  <2>1. PICK b \in Callers : /\ a # b /\ Ends(k) = {a, b}
            /\ SetToSeq({Says(a, c, k, "end", {}) : c \in OtherEnd(k, a)})
                  = <<Says(a, b, k, "end", {})>>
      BY <1>0, <1>5 DEF TellsTheOther
  <2>4. sent' = sent \o <<Says(a, b, k, "end", {})>>
      BY <1>1, <2>1
  <2>5. sent' = Append(sent, Says(a, b, k, "end", {}))
      BY <1>2, <2>4
  <2>. QED
      BY <1>1, <1>2, <1>5, <2>1, <2>5
<1>. QED
    BY <1>4, <1>5

-----------------------------------------------------------------------------
(***************************************************************************)
(* Phones: the types.                                                       *)
(***************************************************************************)
\* What a call may become is a call.
LEMMA CallsAre ==
    ASSUME PhoneTypes
    PROVE  /\ DOMAIN calls = 1..Len(calls) /\ Len(calls) \in Nat
           /\ \A k \in DOMAIN calls : calls[k] \in PhoneCall
           /\ \A k \in DOMAIN calls, b \in Callers : [calls EXCEPT ![k].speaker = b] \in Seq(PhoneCall)
           /\ \A k \in DOMAIN calls : [calls EXCEPT ![k].active = FALSE] \in Seq(PhoneCall)
           /\ \A c \in PhoneCall : Append(calls, c) \in Seq(PhoneCall) /\ Len(Append(calls, c)) = Len(calls) + 1
<1>1. calls \in Seq(PhoneCall)
    BY DEF PhoneTypes
<1>2. \A k \in DOMAIN calls : calls[k] \in PhoneCall
    BY <1>1
<1>3. \A k \in DOMAIN calls, b \in Callers : [calls EXCEPT ![k].speaker = b] \in Seq(PhoneCall)
  <2>. TAKE k \in DOMAIN calls, b \in Callers
  <2>1. [calls[k] EXCEPT !.speaker = b] \in PhoneCall
      BY <1>2 DEF PhoneCall
  <2>. QED
      BY <1>1, <2>1, ExceptSeq
<1>4. \A k \in DOMAIN calls : [calls EXCEPT ![k].active = FALSE] \in Seq(PhoneCall)
  <2>. TAKE k \in DOMAIN calls
  <2>1. [calls[k] EXCEPT !.active = FALSE] \in PhoneCall
      BY <1>2 DEF PhoneCall
  <2>. QED
      BY <1>1, <2>1, ExceptSeq
<1>. QED
    BY <1>1, <1>2, <1>3, <1>4, AppendProperties, LenProperties

\* A line that is said.
LEMMA LineIs ==
    ASSUME NEW a \in Callers, NEW b \in Callers, NEW k \in Nat,
           NEW kind \in {"sms", "incoming", "line", "end"}, NEW shown \in SUBSET Int
    PROVE  LET m == Says(a, b, k, kind, shown)
           IN  m \in Line /\ m.from = a /\ m.to = b /\ m.about = k /\ m.kind = kind /\ m.shown = shown
BY DEF Says, Line

\* A step of an agent's tool: the others stay where they are.
LEMMA TurnsKeep ==
    ASSUME PhoneTypes, NEW a \in Callers, NEW t \in Errand, Turns(a, t)
    PROVE  /\ errand' \in [Callers -> Errand] /\ errand'[a] = t
           /\ \A b \in Callers : b # a => errand'[b] = errand[b]
BY DEF PhoneTypes, Turns

\* The types, tool by tool.
LEMMA RequestTypes ==
    ASSUME PhoneTypes, NEW a \in Callers, NEW kind \in {"sms", "call"}, NEW n \in office.dials,
           Request(a, kind, n)
    PROVE  PhoneTypes' /\ errand'[a] = Tool("asked", kind, n, NumberOf(a), Nobody, 0)
<1>1. n \in Int /\ NumberOf(a) \in SUBSET Int
    BY OfficesAreSound, NumbersAre DEF PhoneTypes
<1>2. Tool("asked", kind, n, NumberOf(a), Nobody, 0) \in Errand
    BY <1>1, ToolIs
<1>3. Turns(a, Tool("asked", kind, n, NumberOf(a), Nobody, 0))
    BY DEF Request
<1>4. /\ errand' \in [Callers -> Errand] /\ errand'[a] = Tool("asked", kind, n, NumberOf(a), Nobody, 0)
      /\ \A b \in Callers : b # a => errand'[b] = errand[b]
    BY <1>2, <1>3, TurnsKeep
<1>5. owners' \in [Callers -> Moment]
    BY DEF Request, PhoneTypes, Moment, Online
<1>6. errand'[a].at = "asked"
    BY <1>4 DEF Tool
<1>. QED
    BY <1>4, <1>5, <1>6 DEF Request, PhoneTypes

LEMMA LookTypes ==
    ASSUME PhoneTypes, NEW a \in Callers, Look(a)
    PROVE  /\ PhoneTypes' /\ errand'[a] \in Errand
           /\ \/ errand'[a] = Free
              \/ /\ errand[a].number \notin errand[a].mine
                 /\ errand'[a] = Tool("looked", errand[a].kind, errand[a].number, errand[a].mine,
                                      Resolve(errand[a].number), 0)
<1>. DEFINE t == Tool("looked", errand[a].kind, errand[a].number, errand[a].mine,
                      Resolve(errand[a].number), 0)
<1>1. errand[a] \in Errand
    BY DEF PhoneTypes
<1>2. Resolve(errand[a].number) \in Callers \cup {Nobody}
    BY ResolvesToItsOwner DEF Holding
<1>3. t \in Errand /\ t.at = "looked"
    BY <1>1, <1>2, ToolIs DEF Errand, Tool
<1>4. PICK s \in {Free, t} : Turns(a, s) /\ (s = t => errand[a].number \notin errand[a].mine \/ s = Free)
    BY DEF Look
<1>. HIDE DEF t
<1>5. s \in Errand /\ s.at # "reached"
    BY <1>3, ToolIs
<1>6. /\ errand' \in [Callers -> Errand] /\ errand'[a] = s
      /\ \A b \in Callers : b # a => errand'[b] = errand[b]
    BY <1>4, <1>5, TurnsKeep
<1>. QED
    BY <1>4, <1>5, <1>6 DEF Look, PhoneTypes, t

LEMMA ReachTypes ==
    ASSUME PhoneTypes, NEW a \in Callers, Reach(a)
    PROVE  /\ PhoneTypes' /\ errand'[a] \in Errand
           /\ \/ errand'[a] = Free
              \/ /\ errand[a].to \in Online(phones) /\ errand'[a] = [errand[a] EXCEPT !.at = "reached"]
<1>. DEFINE t == [errand[a] EXCEPT !.at = "reached"]
<1>1. errand[a] \in Errand
    BY DEF PhoneTypes
<1>2. t \in Errand /\ t.to = errand[a].to /\ Free \in Errand /\ Free.at = "free"
    BY <1>1, ToolIs DEF Errand
<1>. HIDE DEF t
<1>. DEFINE s == IF errand[a].to \in Online(phones) THEN t ELSE Free
<1>0. Turns(a, s)
    BY DEF Reach, t
<1>3. s \in {Free, t} /\ (s = Free \/ (s = t /\ errand[a].to \in Online(phones)))
    OBVIOUS
<1>. HIDE DEF s
<1>4. /\ errand' \in [Callers -> Errand] /\ errand'[a] = s
      /\ \A b \in Callers : b # a => errand'[b] = errand[b]
    BY <1>0, <1>2, <1>3, TurnsKeep
<1>5. s.at = "reached" => s.to \in Callers
    BY <1>2, <1>3 DEF Online
<1>6. UNCHANGED <<office, phones, calls, sent, had, owners>>
    BY DEF Reach
<1>7. PhoneTypes'
    BY <1>4, <1>5, <1>6 DEF PhoneTypes
<1>. QED
    BY <1>2, <1>3, <1>4, <1>7 DEF t

LEMMA TextTypes ==
    ASSUME PhoneTypes, NEW a \in Callers, Text(a)
    PROVE  /\ PhoneTypes' /\ errand'[a] = Free
           /\ sent' = Append(sent, Says(a, errand[a].to, 0, "sms", errand[a].mine))
           /\ Says(a, errand[a].to, 0, "sms", errand[a].mine) \in Line
<1>1. errand[a] \in Errand /\ errand[a].to \in Callers
    BY DEF PhoneTypes, Text
<1>2. Says(a, errand[a].to, 0, "sms", errand[a].mine) \in Line
    BY <1>1, LineIs DEF Errand
<1>3. sent' = Append(sent, Says(a, errand[a].to, 0, "sms", errand[a].mine)) /\ sent' \in Seq(Line)
    BY <1>2, SentOne DEF Text
<1>4. errand' \in [Callers -> Errand] /\ errand'[a] = Free /\ Free.at = "free"
      /\ \A b \in Callers : b # a => errand'[b] = errand[b]
    BY TurnsKeep, ToolIs DEF Text
<1>5. UNCHANGED <<office, phones, calls, had, owners>>
    BY DEF Text
<1>6. PhoneTypes'
    BY <1>3, <1>4, <1>5 DEF PhoneTypes
<1>. QED
    BY <1>2, <1>3, <1>4, <1>6

NewCall(a) == [caller |-> a, callee |-> errand[a].to, active |-> TRUE, speaker |-> a,
               numbers |-> <<errand[a].mine, {errand[a].number}>>]
Invites(a) == Says(a, errand[a].to, Len(calls) + 1, "incoming", errand[a].mine)

LEMMA DialTypes ==
    ASSUME PhoneTypes, NEW a \in Callers, Dial(a)
    PROVE  /\ PhoneTypes' /\ errand'[a] = Free /\ errand[a].to \in Callers
           /\ NewCall(a) \in PhoneCall /\ Invites(a) \in Line
           /\ \/ UNCHANGED <<calls, sent>>
              \/ /\ ActiveCalls(a) \cup ActiveCalls(errand[a].to) = {}
                 /\ calls' = Append(calls, NewCall(a)) /\ sent' = Append(sent, Invites(a))
<1>1. errand[a] \in Errand /\ errand[a].to \in Callers
    BY DEF PhoneTypes, Dial
<1>2. NewCall(a) \in PhoneCall
    BY <1>1 DEF NewCall, PhoneCall, Errand
<1>3. Append(calls, NewCall(a)) \in Seq(PhoneCall) /\ Len(Append(calls, NewCall(a))) = Len(calls) + 1
      /\ Len(calls) + 1 \in Nat
    BY <1>2, CallsAre
<1>4. Invites(a) \in Line
    BY <1>1, <1>3, LineIs DEF Invites, Errand
<1>5. Append(sent, Invites(a)) \in Seq(Line)
    BY <1>4, SentOne
<1>6. \/ UNCHANGED <<calls, sent>>
      \/ /\ ActiveCalls(a) \cup ActiveCalls(errand[a].to) = {}
         /\ calls' = Append(calls, NewCall(a))
         /\ sent' = Append(sent, Says(a, errand[a].to, Len(calls'), "incoming", errand[a].mine))
    BY DEF Dial, NewCall
<1>7. \/ UNCHANGED <<calls, sent>>
      \/ /\ ActiveCalls(a) \cup ActiveCalls(errand[a].to) = {}
         /\ calls' = Append(calls, NewCall(a)) /\ sent' = Append(sent, Invites(a))
    BY <1>3, <1>6 DEF Invites
<1>8. errand' \in [Callers -> Errand] /\ errand'[a] = Free /\ Free.at = "free"
      /\ \A b \in Callers : b # a => errand'[b] = errand[b]
    BY TurnsKeep, ToolIs DEF Dial
<1>9. UNCHANGED <<office, phones, had, owners>>
    BY DEF Dial
<1>10. PhoneTypes'
    BY <1>3, <1>5, <1>7, <1>8, <1>9 DEF PhoneTypes
<1>. QED
    BY <1>1, <1>2, <1>4, <1>7, <1>8, <1>10

LEMMA SpeakBeginTypes ==
    ASSUME PhoneTypes, NEW a \in Callers, SpeakBegin(a)
    PROVE  /\ PhoneTypes'
           /\ \E k \in DOMAIN calls : /\ calls[k].active /\ calls[k].speaker = a
                                      /\ errand'[a] = Tool("line", "none", 0, NumberOf(a), Nobody, k)
<1>1. PICK k \in ActiveCalls(a) : /\ calls[k].speaker = a
                                  /\ Turns(a, Tool("line", "none", 0, NumberOf(a), Nobody, k))
    BY DEF SpeakBegin
<1>2. k \in DOMAIN calls /\ calls[k].active /\ k \in Nat
    BY CallsAre DEF ActiveCalls
<1>3. Tool("line", "none", 0, NumberOf(a), Nobody, k) \in Errand
    BY <1>2, ToolIs, NumbersAre
<1>4. /\ errand' \in [Callers -> Errand]
      /\ errand'[a] = Tool("line", "none", 0, NumberOf(a), Nobody, k)
      /\ \A b \in Callers : b # a => errand'[b] = errand[b]
    BY <1>1, <1>3, TurnsKeep
<1>5. errand'[a].at = "line"
    BY <1>4 DEF Tool
<1>6. UNCHANGED <<office, phones, calls, sent, had, owners>>
    BY DEF SpeakBegin
<1>7. PhoneTypes'
    BY <1>4, <1>5, <1>6 DEF PhoneTypes
<1>. QED
    BY <1>1, <1>2, <1>4, <1>7

\* What is shown is a set of numbers.
LEMMA ShownInIs ==
    ASSUME PhoneTypes, NEW a \in Callers, NEW k \in DOMAIN calls
    PROVE  ShownIn(k, a) \in SUBSET Int
<1>1. errand[a] \in Errand /\ calls[k] \in PhoneCall
    BY CallsAre DEF PhoneTypes
<1>. QED
    BY <1>1 DEF Errand, PhoneCall, ShownIn, NumberInCall

LEMMA SpeakEndTypes ==
    ASSUME PhoneTypes, CallsInv, NEW a \in Callers, SpeakEnd(a)
    PROVE  /\ PhoneTypes' /\ errand'[a] = Free
<1>. DEFINE k == errand[a].call
<1>1. /\ k \in DOMAIN calls
      /\ calls[k].caller = calls[k].callee => sent' = sent /\ calls' = calls
      /\ calls[k].caller # calls[k].callee =>
             \E b \in Callers :
                /\ sent' = Append(sent, Says(a, b, k, "line", ShownIn(k, a)))
                /\ calls' = IF calls[k].active THEN [calls EXCEPT ![k].speaker = b] ELSE calls
    BY SpeechIs DEF Spoken
<1>. HIDE DEF k
<1>2. sent' \in Seq(Line) /\ calls' \in Seq(PhoneCall)
  <2>1. CASE calls[k].caller = calls[k].callee
      BY <1>1, <2>1 DEF PhoneTypes
  <2>2. CASE calls[k].caller # calls[k].callee
    <3>1. PICK b \in Callers :
                /\ sent' = Append(sent, Says(a, b, k, "line", ShownIn(k, a)))
                /\ calls' = IF calls[k].active THEN [calls EXCEPT ![k].speaker = b] ELSE calls
        BY <1>1, <2>2
    <3>2. k \in Nat /\ ShownIn(k, a) \in SUBSET Int
        BY <1>1, CallsAre, ShownInIs
    <3>3. Says(a, b, k, "line", ShownIn(k, a)) \in Line
        BY <3>2, LineIs
    <3>4. [calls EXCEPT ![k].speaker = b] \in Seq(PhoneCall) /\ calls \in Seq(PhoneCall)
        BY <1>1, CallsAre DEF PhoneTypes
    <3>. QED
        BY <3>1, <3>3, <3>4, SentOne
  <2>. QED
      BY <2>1, <2>2
<1>3. errand' \in [Callers -> Errand] /\ errand'[a] = Free /\ Free.at = "free"
      /\ \A b \in Callers : b # a => errand'[b] = errand[b]
    BY TurnsKeep, ToolIs DEF SpeakEnd
<1>4. UNCHANGED <<office, phones, had, owners>>
    BY DEF SpeakEnd
<1>. QED
    BY <1>2, <1>3, <1>4 DEF PhoneTypes

LEMMA HangUpTypes ==
    ASSUME PhoneTypes, NEW a \in Callers, HangUp(a)
    PROVE  PhoneTypes'
<1>1. PICK k \in ActiveCalls(a) :
             /\ k \in DOMAIN calls /\ calls' = [calls EXCEPT ![k].active = FALSE]
             /\ calls[k].caller = calls[k].callee => sent' = sent
             /\ calls[k].caller # calls[k].callee =>
                  \E b \in Callers : sent' = Append(sent, Says(a, b, k, "end", {}))
    BY HangUpIs
<1>2. k \in Nat /\ calls' \in Seq(PhoneCall)
    BY <1>1, CallsAre
<1>3. sent' \in Seq(Line)
  <2>1. CASE calls[k].caller = calls[k].callee
      BY <1>1, <2>1 DEF PhoneTypes
  <2>2. CASE calls[k].caller # calls[k].callee
    <3>1. PICK b \in Callers : sent' = Append(sent, Says(a, b, k, "end", {}))
        BY <1>1, <2>2
    <3>2. Says(a, b, k, "end", {}) \in Line
        BY <1>2, LineIs
    <3>. QED
        BY <3>1, <3>2, SentOne
  <2>. QED
      BY <2>1, <2>2
<1>4. UNCHANGED <<office, phones, errand, had, owners>>
    BY DEF HangUp
<1>. QED
    BY <1>2, <1>3, <1>4 DEF PhoneTypes

LEMMA CutOffTypes ==
    ASSUME PhoneTypes, NEW k \in DOMAIN calls, CutOff(k)
    PROVE  PhoneTypes'
BY CallsAre DEF CutOff, PhoneTypes

LEMMA ChangeTypes ==
    ASSUME PhoneTypes, NEW store \in Seq(Handset), Change(store)
    PROVE  PhoneTypes'
<1>1. \A p \in ToSet(store) : p \in Handset
    BY DEF ToSet
<1>2. had' \in [Callers -> SUBSET Int]
    BY <1>1 DEF Change, PhoneTypes, NumbersOf, OwnedBy, Handset
<1>3. owners' \in [Callers -> Moment]
    BY DEF Change, PhoneTypes, Witness, Moment, Online
<1>. QED
    BY <1>2, <1>3 DEF Change, PhoneTypes

\* Whatever happens to the store is a change.
LEMMA Changes ==
    ASSUME PhoneTypes, NEW i \in DOMAIN phones,
           SwitchPhone(i) \/ RemoveAsset(i) \/ \E a \in Callers : TransferAsset(i, a)
    PROVE  \E store \in Seq(Handset) : Change(store)
BY StoresAre DEF SwitchPhone, RemoveAsset, TransferAsset

-----------------------------------------------------------------------------
(***************************************************************************)
(* Phones: whose number, and who is told.                                    *)
(***************************************************************************)
\* Everybody but a is where it was.
OthersStay(a) == \A b \in Callers \ {a} : errand'[b] = errand[b]

\* The numbers stay true while nothing is said and no number is lost.
LEMMA NumbersStay ==
    ASSUME PhoneTypes, PhoneTypes', NumbersInv, NEW a \in Callers, OthersStay(a),
           UNCHANGED <<phones, had>>, errand'[a].mine \subseteq had[a],
           \A k \in DOMAIN calls' : /\ calls'[k].numbers[1] \subseteq had[calls'[k].caller]
                                    /\ calls'[k].numbers[2] \subseteq had[calls'[k].callee],
           \A i \in DOMAIN sent' : sent'[i].shown \subseteq had[sent'[i].from]
    PROVE  NumbersInv'
<1>1. NumbersOf(phones)' = NumbersOf(phones)
    BY DEF NumbersOf, OwnedBy
<1>2. \A b \in Callers : NumbersOf(phones)'[b] \cup errand'[b].mine \subseteq had'[b]
    BY <1>1 DEF NumbersInv, OthersStay
<1>3. NumbersAreTheirs'
    BY DEF NumbersAreTheirs
<1>. QED
    BY <1>2, <1>3 DEF NumbersInv

\* A message shows numbers that its sender has had.
LEMMA OneMoreShown ==
    ASSUME PhoneTypes, NumbersInv, NEW m \in Line, m.shown \subseteq had[m.from],
           sent' = sent \/ sent' = Append(sent, m)
    PROVE  \A i \in DOMAIN sent' : sent'[i].shown \subseteq had[sent'[i].from]
<1>1. \A i \in DOMAIN sent : sent[i].shown \subseteq had[sent[i].from]
    BY DEF NumbersInv, NumbersAreTheirs
<1>2. CASE sent' = Append(sent, m)
  <2>1. /\ DOMAIN sent' = 1..(Len(sent) + 1) /\ DOMAIN sent = 1..Len(sent) /\ Len(sent) \in Nat
        /\ \A i \in 1..Len(sent) : sent'[i] = sent[i]
        /\ sent'[Len(sent) + 1] = m
      BY <1>2, SentOne
  <2>. QED
      BY <1>1, <2>1
<1>. QED
    BY <1>1, <1>2

\* What is known of the numbers that are asked for stays true.
LEMMA DirectoryStays ==
    ASSUME PhoneTypes, DirectoryInv, NEW a \in Callers, OthersStay(a), UNCHANGED <<phones, had>>,
           \A b \in Callers \ {a} : owners'[b] = owners[b],
           Dials(a)' =>
             /\ owners'[a].holders \subseteq {b \in Callers : errand'[a].number \in had[b]}
             /\ Holding(errand'[a].number, phones) \subseteq owners'[a].holders
             /\ Online(phones) \subseteq owners'[a].reachable,
           errand'[a].at \in {"looked", "reached"} =>
             /\ errand'[a].to \in owners'[a].holders \cup {Nobody}
             /\ errand'[a].number \notin errand'[a].mine,
           errand'[a].at = "reached" => errand'[a].to \in owners'[a].holders \cap owners'[a].reachable
    PROVE  DirectoryInv'
<1>1. \A n : Holding(n, phones)' = Holding(n, phones)
    BY DEF Holding, NumbersOf, OwnedBy
<1>2. Online(phones)' = Online(phones)
    BY DEF Online, PhoneOf, OwnedBy
<1>3. ASSUME NEW b \in Callers, Dials(b)'
      PROVE  /\ owners'[b].holders \subseteq {c \in Callers : errand'[b].number \in had'[c]}
             /\ Holding(errand'[b].number, phones') \subseteq owners'[b].holders
             /\ Online(phones') \subseteq owners'[b].reachable
  <2>1. CASE b = a
      BY <1>3, <2>1
  <2>2. CASE b # a
    <3>1. errand'[b] = errand[b] /\ owners'[b] = owners[b] /\ Dials(b)
        BY <1>3, <2>2 DEF OthersStay, Dials
    <3>. QED
        BY <3>1 DEF DirectoryInv
  <2>. QED
      BY <2>1, <2>2
<1>4. ASSUME NEW b \in Callers, errand'[b].at \in {"looked", "reached"}
      PROVE  errand'[b].to \in owners'[b].holders \cup {Nobody} /\ errand'[b].number \notin errand'[b].mine
  <2>1. CASE b = a
      BY <1>4, <2>1
  <2>2. CASE b # a
      BY <1>4, <2>2 DEF OthersStay, DirectoryInv
  <2>. QED
      BY <2>1, <2>2
<1>5. ASSUME NEW b \in Callers, errand'[b].at = "reached"
      PROVE  /\ errand'[b].to \in owners'[b].holders \cap owners'[b].reachable
             /\ errand'[b].number \notin errand'[b].mine
  <2>1. CASE b = a
      BY <1>5, <2>1
  <2>2. CASE b # a
      BY <1>5, <2>2 DEF OthersStay, DirectoryInv, TextsAreAddressed
  <2>. QED
      BY <2>1, <2>2
<1>. QED
    BY <1>3, <1>4, <1>5 DEF DirectoryInv, TextsAreAddressed

\* Of an agent that is free, or about to speak, no number is asked.
LEMMA NothingDialled ==
    ASSUME PhoneTypes, DirectoryInv, NEW a \in Callers, OthersStay(a), UNCHANGED <<phones, had, owners>>,
           errand'[a].at \in {"free", "line"}
    PROVE  DirectoryInv'
<1>1. ~Dials(a)' /\ errand'[a].at \notin {"looked", "reached"}
    BY DEF Dials
<1>. QED
    BY <1>1, DirectoryStays

\* An agent that turns to something leaves the others where they are.
LEMMA StayIs ==
    ASSUME PhoneTypes, NEW a \in Callers, NEW t, Turns(a, t)
    PROVE  OthersStay(a)
BY DEF Turns, OthersStay, PhoneTypes

Honest == NumbersInv /\ DirectoryInv

\* The numbers and the directory, tool by tool.
LEMMA RequestHonest ==
    ASSUME PhoneTypes, Honest, NEW a \in Callers, NEW kind \in {"sms", "call"},
           NEW n \in office.dials, Request(a, kind, n)
    PROVE  Honest'
<1>1. /\ PhoneTypes' /\ errand'[a] = Tool("asked", kind, n, NumberOf(a), Nobody, 0)
      /\ OthersStay(a) /\ UNCHANGED <<phones, calls, sent, had>> /\ NumbersInv /\ DirectoryInv
    BY RequestTypes, StayIs DEF Request, Honest
<1>2. errand'[a].at = "asked" /\ errand'[a].number = n /\ errand'[a].mine = NumberOf(a)
    BY <1>1 DEF Tool
<1>3. NumberOf(a) \subseteq had[a] /\ \A b \in Callers : NumbersOf(phones)[b] \subseteq had[b]
    BY <1>1, NumbersAre DEF NumbersInv
<1>4. owners' = [owners EXCEPT ![a] = [holders |-> Holding(n, phones), reachable |-> Online(phones)]]
    BY DEF Request, Holding
<1>5. /\ owners'[a].holders = Holding(n, phones) /\ owners'[a].reachable = Online(phones)
      /\ \A b \in Callers \ {a} : owners'[b] = owners[b]
    BY <1>4 DEF PhoneTypes
<1>6. NumbersInv'
    BY <1>1, <1>2, <1>3, NumbersStay DEF NumbersInv, NumbersAreTheirs
<1>7. Holding(n, phones) \subseteq {b \in Callers : n \in had[b]}
    BY <1>3 DEF Holding
<1>8. DirectoryInv'
    BY <1>1, <1>2, <1>5, <1>7, DirectoryStays
<1>. QED
    BY <1>6, <1>8 DEF Honest

LEMMA LookHonest ==
    ASSUME PhoneTypes, Honest, NEW a \in Callers, Look(a)
    PROVE  Honest'
<1>1. /\ PhoneTypes' /\ OthersStay(a) /\ UNCHANGED <<phones, calls, sent, had, owners>>
      /\ NumbersInv /\ DirectoryInv /\ errand[a].at = "asked"
    BY LookTypes, StayIs DEF Look, Honest
<1>2. CASE errand'[a] = Free
  <2>1. errand'[a].at = "free" /\ errand'[a].mine = {}
      BY <1>2, ToolIs
  <2>2. NumbersInv'
      BY <1>1, <2>1, NumbersStay DEF NumbersInv, NumbersAreTheirs
  <2>. QED
      BY <1>1, <2>1, <2>2, NothingDialled DEF Honest
<1>3. CASE errand'[a] # Free
  <2>1. /\ errand[a].number \notin errand[a].mine
        /\ errand'[a] = Tool("looked", errand[a].kind, errand[a].number, errand[a].mine,
                             Resolve(errand[a].number), 0)
      BY <1>3, LookTypes
  <2>2. /\ errand'[a].at = "looked" /\ errand'[a].number = errand[a].number
        /\ errand'[a].mine = errand[a].mine /\ errand'[a].to = Resolve(errand[a].number)
      BY <2>1 DEF Tool
  <2>3. Dials(a) /\ errand[a].mine \subseteq had[a]
      BY <1>1 DEF Dials, NumbersInv
  <2>4. NumbersInv'
      BY <1>1, <2>2, <2>3, NumbersStay DEF NumbersInv, NumbersAreTheirs
  <2>5. /\ owners[a].holders \subseteq {b \in Callers : errand[a].number \in had[b]}
        /\ Holding(errand[a].number, phones) \subseteq owners[a].holders
        /\ Online(phones) \subseteq owners[a].reachable
      BY <1>1, <2>3 DEF DirectoryInv
  <2>6. Resolve(errand[a].number) \in owners[a].holders \cup {Nobody}
      BY <2>5, ResolvesToItsOwner
  <2>7. DirectoryInv'
      BY <1>1, <2>1, <2>2, <2>5, <2>6, DirectoryStays
  <2>. QED
      BY <2>4, <2>7 DEF Honest
<1>. QED
    BY <1>2, <1>3

LEMMA ReachHonest ==
    ASSUME PhoneTypes, Honest, NEW a \in Callers, Reach(a)
    PROVE  Honest'
<1>1. /\ PhoneTypes' /\ OthersStay(a) /\ UNCHANGED <<phones, calls, sent, had, owners>>
      /\ NumbersInv /\ DirectoryInv /\ errand[a].at = "looked" /\ errand[a] \in Errand
    BY ReachTypes, StayIs DEF Reach, Honest, PhoneTypes
<1>2. CASE errand'[a] = Free
  <2>1. errand'[a].at = "free" /\ errand'[a].mine = {}
      BY <1>2, ToolIs
  <2>2. NumbersInv'
      BY <1>1, <2>1, NumbersStay DEF NumbersInv, NumbersAreTheirs
  <2>. QED
      BY <1>1, <2>1, <2>2, NothingDialled DEF Honest
<1>3. CASE errand'[a] # Free
  <2>1. /\ errand[a].to \in Online(phones) /\ errand'[a] = [errand[a] EXCEPT !.at = "reached"]
      BY <1>3, ReachTypes
  <2>2. /\ errand'[a].at = "reached" /\ errand'[a].number = errand[a].number
        /\ errand'[a].mine = errand[a].mine /\ errand'[a].to = errand[a].to
      BY <1>1, <2>1 DEF Errand
  <2>3. Dials(a) /\ errand[a].mine \subseteq had[a]
      BY <1>1 DEF Dials, NumbersInv
  <2>4. NumbersInv'
      BY <1>1, <2>2, <2>3, NumbersStay DEF NumbersInv, NumbersAreTheirs
  <2>5. /\ owners[a].holders \subseteq {b \in Callers : errand[a].number \in had[b]}
        /\ Holding(errand[a].number, phones) \subseteq owners[a].holders
        /\ Online(phones) \subseteq owners[a].reachable
        /\ errand[a].to \in owners[a].holders \cup {Nobody} /\ errand[a].number \notin errand[a].mine
      BY <1>1, <2>3 DEF DirectoryInv
  <2>6. errand[a].to # Nobody /\ errand[a].to \in owners[a].reachable
      BY <2>1, <2>5, OfficesAreSound DEF Online
  <2>7. DirectoryInv'
      BY <1>1, <2>2, <2>5, <2>6, DirectoryStays
  <2>. QED
      BY <2>4, <2>7 DEF Honest
<1>. QED
    BY <1>2, <1>3

LEMMA TextHonest ==
    ASSUME PhoneTypes, Honest, NEW a \in Callers, Text(a)
    PROVE  Honest'
<1>. DEFINE m == Says(a, errand[a].to, 0, "sms", errand[a].mine)
<1>1. /\ PhoneTypes' /\ OthersStay(a) /\ UNCHANGED <<phones, calls, had, owners>>
      /\ NumbersInv /\ DirectoryInv /\ errand'[a] = Free /\ sent' = Append(sent, m) /\ m \in Line
    BY TextTypes, StayIs DEF Text, Honest
<1>2. errand'[a].at = "free" /\ errand'[a].mine = {}
    BY <1>1, ToolIs
<1>3. m.from = a /\ m.shown = errand[a].mine /\ errand[a].mine \subseteq had[a]
    BY <1>1 DEF Says, NumbersInv
<1>. HIDE DEF m
<1>4. \A i \in DOMAIN sent' : sent'[i].shown \subseteq had[sent'[i].from]
    BY <1>1, <1>3, OneMoreShown
<1>5. \A k \in DOMAIN calls' : /\ calls'[k].numbers[1] \subseteq had[calls'[k].caller]
                               /\ calls'[k].numbers[2] \subseteq had[calls'[k].callee]
    BY <1>1 DEF NumbersInv
<1>6. NumbersInv'
    BY <1>1, <1>2, <1>4, <1>5, NumbersStay
<1>. QED
    BY <1>1, <1>2, <1>6, NothingDialled DEF Honest

LEMMA DialHonest ==
    ASSUME PhoneTypes, Honest, NEW a \in Callers, Dial(a)
    PROVE  Honest'
<1>1. /\ PhoneTypes' /\ OthersStay(a) /\ UNCHANGED <<phones, had, owners>> /\ errand[a].at = "reached"
      /\ NumbersInv /\ DirectoryInv /\ errand'[a] = Free /\ Invites(a) \in Line /\ NewCall(a) \in PhoneCall
    BY DialTypes, StayIs DEF Dial, Honest
<1>2. errand'[a].at = "free" /\ errand'[a].mine = {}
    BY <1>1, ToolIs
<1>3. /\ \/ UNCHANGED <<calls, sent>>
         \/ /\ ActiveCalls(a) \cup ActiveCalls(errand[a].to) = {}
            /\ calls' = Append(calls, NewCall(a)) /\ sent' = Append(sent, Invites(a))
      /\ errand[a].to \in Callers
    BY DialTypes
<1>4. errand[a].mine \subseteq had[a] /\ Invites(a).from = a /\ Invites(a).shown = errand[a].mine
    BY <1>1 DEF Says, NumbersInv, Invites
<1>5. errand[a].number \in had[errand[a].to]
  <2>1. /\ owners[a].holders \subseteq {b \in Callers : errand[a].number \in had[b]}
        /\ errand[a].to \in owners[a].holders
      BY <1>1 DEF DirectoryInv, Dials, TextsAreAddressed
  <2>. QED
      BY <2>1
<1>6. \A i \in DOMAIN sent' : sent'[i].shown \subseteq had[sent'[i].from]
    BY <1>1, <1>3, <1>4, OneMoreShown
<1>7. /\ NewCall(a).caller = a /\ NewCall(a).callee = errand[a].to
      /\ NewCall(a).numbers[1] = errand[a].mine /\ NewCall(a).numbers[2] = {errand[a].number}
    BY DEF NewCall
<1>8. \A k \in DOMAIN calls' : /\ calls'[k].numbers[1] \subseteq had[calls'[k].caller]
                               /\ calls'[k].numbers[2] \subseteq had[calls'[k].callee]
  <2>1. CASE UNCHANGED calls
      BY <1>1, <2>1 DEF NumbersInv
  <2>2. CASE calls' = Append(calls, NewCall(a))
    <3>. SUFFICES ASSUME NEW k \in DOMAIN calls'
                  PROVE  /\ calls'[k].numbers[1] \subseteq had[calls'[k].caller]
                         /\ calls'[k].numbers[2] \subseteq had[calls'[k].callee]
        OBVIOUS
    <3>1. calls \in Seq(PhoneCall)
        BY DEF PhoneTypes
    <3>2. (k \in DOMAIN calls /\ calls'[k] = calls[k]) \/ calls'[k] = NewCall(a)
        BY <2>2, <3>1, AppendProperties
    <3>3. CASE k \in DOMAIN calls /\ calls'[k] = calls[k]
        BY <1>1, <3>3 DEF NumbersInv
    <3>4. CASE calls'[k] = NewCall(a)
        BY <1>4, <1>5, <1>7, <3>4
    <3>. QED
        BY <3>2, <3>3, <3>4
  <2>. QED
      BY <1>3, <2>1, <2>2
<1>9. NumbersInv'
    BY <1>1, <1>2, <1>6, <1>8, NumbersStay
<1>. QED
    BY <1>1, <1>2, <1>9, NothingDialled DEF Honest

LEMMA SpeakBeginHonest ==
    ASSUME PhoneTypes, Honest, NEW a \in Callers, SpeakBegin(a)
    PROVE  Honest'
<1>1. /\ PhoneTypes' /\ OthersStay(a) /\ UNCHANGED <<phones, calls, sent, had, owners>>
      /\ NumbersInv /\ DirectoryInv
    BY SpeakBeginTypes, StayIs DEF SpeakBegin, Honest
<1>0. PICK k : errand'[a] = Tool("line", "none", 0, NumberOf(a), Nobody, k)
    BY SpeakBeginTypes
<1>2. errand'[a].at = "line" /\ errand'[a].mine = NumberOf(a)
    BY <1>0 DEF Tool
<1>3. NumberOf(a) \subseteq had[a]
    BY <1>1, NumbersAre DEF NumbersInv
<1>4. NumbersInv'
    BY <1>1, <1>2, <1>3, NumbersStay DEF NumbersInv, NumbersAreTheirs
<1>. QED
    BY <1>1, <1>2, <1>4, NothingDialled DEF Honest

\* A call whose speaker or state changes keeps its numbers.
LEMMA CallKeepsNumbers ==
    ASSUME PhoneTypes, NumbersInv, NEW k \in DOMAIN calls, NEW x,
           \/ calls' = calls \/ calls' = [calls EXCEPT ![k].speaker = x]
           \/ calls' = [calls EXCEPT ![k].active = x]
    PROVE  /\ DOMAIN calls' = DOMAIN calls
           /\ \A j \in DOMAIN calls : /\ calls'[j].numbers = calls[j].numbers
                                      /\ calls'[j].caller = calls[j].caller
                                      /\ calls'[j].callee = calls[j].callee
           /\ \A j \in DOMAIN calls' : /\ calls'[j].numbers[1] \subseteq had[calls'[j].caller]
                                       /\ calls'[j].numbers[2] \subseteq had[calls'[j].callee]
<1>1. calls[k] \in PhoneCall
    BY CallsAre
<1>2. /\ DOMAIN calls' = DOMAIN calls
      /\ \A j \in DOMAIN calls : \/ calls'[j] = calls[j]
                                 \/ j = k /\ (calls'[k] = [calls[k] EXCEPT !.speaker = x]
                                              \/ calls'[k] = [calls[k] EXCEPT !.active = x])
    OBVIOUS
<1>3. \A j \in DOMAIN calls : /\ calls'[j].numbers = calls[j].numbers
                              /\ calls'[j].caller = calls[j].caller
                             /\ calls'[j].callee = calls[j].callee
    BY <1>1, <1>2 DEF PhoneCall
<1>. QED
    BY <1>2, <1>3 DEF NumbersInv

LEMMA SpeakEndHonest ==
    ASSUME PhoneTypes, CallsInv, Honest, NEW a \in Callers, SpeakEnd(a)
    PROVE  Honest'
<1>. DEFINE k == errand[a].call
<1>1. /\ PhoneTypes' /\ OthersStay(a) /\ UNCHANGED <<phones, had, owners>>
      /\ NumbersInv /\ DirectoryInv /\ errand'[a] = Free
    BY SpeakEndTypes, StayIs DEF SpeakEnd, Honest
<1>2. errand'[a].at = "free" /\ errand'[a].mine = {}
    BY <1>1, ToolIs
<1>3. /\ k \in DOMAIN calls /\ a \in Ends(k)
      /\ \/ sent' = sent /\ calls' = calls
         \/ \E b \in Callers :
               /\ Ends(k) = {a, b}
               /\ sent' = Append(sent, Says(a, b, k, "line", ShownIn(k, a)))
               /\ calls' = IF calls[k].active THEN [calls EXCEPT ![k].speaker = b] ELSE calls
    BY SpeechIs DEF Spoken
<1>. HIDE DEF k
<1>4. ShownIn(k, a) \subseteq had[a] /\ ShownIn(k, a) \in SUBSET Int /\ k \in Nat
  <2>1. errand[a].mine \subseteq had[a]
      BY <1>1 DEF NumbersInv
  <2>2. NumberInCall(k, a) \subseteq had[a]
      BY <1>1, <1>3 DEF NumbersInv, NumberInCall, Ends
  <2>. QED
      BY <1>3, <2>1, <2>2, ShownInIs, CallsAre DEF ShownIn
<1>5. \A i \in DOMAIN sent' : sent'[i].shown \subseteq had[sent'[i].from]
  <2>1. CASE sent' = sent
      BY <1>1, <2>1 DEF NumbersInv, NumbersAreTheirs
  <2>2. ASSUME NEW b \in Callers, sent' = Append(sent, Says(a, b, k, "line", ShownIn(k, a)))
        PROVE  \A i \in DOMAIN sent' : sent'[i].shown \subseteq had[sent'[i].from]
    <3>. DEFINE m == Says(a, b, k, "line", ShownIn(k, a))
    <3>1. m \in Line /\ m.from = a /\ m.shown = ShownIn(k, a)
        BY <1>4, LineIs
    <3>. HIDE DEF m
    <3>. QED
        BY <1>1, <1>4, <2>2, <3>1, OneMoreShown DEF m
  <2>. QED
      BY <1>3, <2>1, <2>2
<1>6. \A j \in DOMAIN calls' : /\ calls'[j].numbers[1] \subseteq had[calls'[j].caller]
                               /\ calls'[j].numbers[2] \subseteq had[calls'[j].callee]
    BY <1>1, <1>3, CallKeepsNumbers
<1>7. NumbersInv'
    BY <1>1, <1>2, <1>5, <1>6, NumbersStay
<1>. QED
    BY <1>1, <1>2, <1>7, NothingDialled DEF Honest

LEMMA HangUpHonest ==
    ASSUME PhoneTypes, Honest, NEW a \in Callers, HangUp(a)
    PROVE  Honest'
<1>1. /\ PhoneTypes' /\ OthersStay(a) /\ UNCHANGED <<phones, had, owners>> /\ errand'[a] = errand[a]
      /\ NumbersInv /\ DirectoryInv /\ errand[a] = Free
    BY HangUpTypes DEF HangUp, Honest, OthersStay
<1>2. errand'[a].at = "free" /\ errand'[a].mine = {}
    BY <1>1, ToolIs
<1>3. PICK k \in DOMAIN calls :
         /\ calls' = [calls EXCEPT ![k].active = FALSE]
         /\ sent' = sent \/ \E b \in Callers : sent' = Append(sent, Says(a, b, k, "end", {}))
    BY HangUpIs
<1>5. \A i \in DOMAIN sent' : sent'[i].shown \subseteq had[sent'[i].from]
  <2>1. CASE sent' = sent
      BY <1>1, <2>1 DEF NumbersInv, NumbersAreTheirs
  <2>2. ASSUME NEW b \in Callers, sent' = Append(sent, Says(a, b, k, "end", {}))
        PROVE  \A i \in DOMAIN sent' : sent'[i].shown \subseteq had[sent'[i].from]
    <3>. DEFINE m == Says(a, b, k, "end", {})
    <3>1. m \in Line /\ m.from = a /\ m.shown = {}
        BY LineIs, CallsAre
    <3>. HIDE DEF m
    <3>. QED
        BY <1>1, <2>2, <3>1, OneMoreShown DEF m
  <2>. QED
      BY <1>3, <2>1, <2>2
<1>6. \A j \in DOMAIN calls' : /\ calls'[j].numbers[1] \subseteq had[calls'[j].caller]
                               /\ calls'[j].numbers[2] \subseteq had[calls'[j].callee]
    BY <1>1, <1>3, CallKeepsNumbers
<1>7. NumbersInv'
    BY <1>1, <1>2, <1>5, <1>6, NumbersStay
<1>. QED
    BY <1>1, <1>2, <1>7, NothingDialled DEF Honest

LEMMA CutOffHonest ==
    ASSUME PhoneTypes, Honest, NEW k \in DOMAIN calls, CutOff(k)
    PROVE  Honest'
<1>1. /\ calls' = [calls EXCEPT ![k].active = FALSE] /\ UNCHANGED <<phones, errand, sent, had, owners>>
      /\ NumbersInv /\ DirectoryInv
    BY DEF CutOff, Honest
<1>2. \A j \in DOMAIN calls' : /\ calls'[j].numbers[1] \subseteq had[calls'[j].caller]
                               /\ calls'[j].numbers[2] \subseteq had[calls'[j].callee]
    BY <1>1, CallKeepsNumbers
<1>3. NumbersInv'
    BY <1>1, <1>2 DEF NumbersInv, NumbersAreTheirs, NumbersOf, OwnedBy
<1>4. DirectoryInv'
    BY <1>1 DEF DirectoryInv, TextsAreAddressed, Dials, Holding, NumbersOf, Online, PhoneOf, OwnedBy
<1>. QED
    BY <1>3, <1>4 DEF Honest

LEMMA ChangeHonest ==
    ASSUME PhoneTypes, Honest, NEW store \in Seq(Handset), Change(store)
    PROVE  Honest'
<1>1. /\ UNCHANGED <<errand, calls, sent>> /\ phones' = store /\ NumbersInv /\ DirectoryInv
      /\ had' = [a \in Callers |-> had[a] \cup NumbersOf(store)[a]] /\ owners' = Witness(store)
    BY DEF Change, Honest
<1>2. /\ NumbersOf(phones)' = NumbersOf(store) /\ Online(phones)' = Online(store)
      /\ \A n : Holding(n, phones)' = Holding(n, store)
    BY <1>1 DEF NumbersOf, OwnedBy, Online, PhoneOf, Holding
<1>3. \A a \in Callers : had[a] \subseteq had'[a] /\ NumbersOf(store)[a] \subseteq had'[a]
    BY <1>1
<1>4. NumbersInv'
  <2>1. \A a \in Callers : NumbersOf(phones)'[a] \cup errand'[a].mine \subseteq had'[a]
      BY <1>1, <1>2, <1>3 DEF NumbersInv
  <2>2. \A k \in DOMAIN calls : calls[k].caller \in Callers /\ calls[k].callee \in Callers
      BY CallsAre DEF PhoneCall
  <2>3. \A k \in DOMAIN calls' : /\ calls'[k].numbers[1] \subseteq had'[calls'[k].caller]
                                 /\ calls'[k].numbers[2] \subseteq had'[calls'[k].callee]
      BY <1>1, <1>3, <2>2 DEF NumbersInv
  <2>4. \A i \in DOMAIN sent : sent[i].from \in Callers
    <3>1. sent \in Seq(Line)
        BY DEF PhoneTypes
    <3>2. \A i \in DOMAIN sent : sent[i] \in Line
        BY <3>1
    <3>. QED
        BY <3>2 DEF Line
  <2>5. NumbersAreTheirs'
      BY <1>1, <1>3, <2>4 DEF NumbersInv, NumbersAreTheirs
  <2>. QED
      BY <2>1, <2>3, <2>5 DEF NumbersInv
<1>5. ASSUME NEW a \in Callers, Dials(a)
      PROVE  /\ owners'[a].holders = owners[a].holders \cup Holding(errand[a].number, store)
             /\ owners'[a].reachable = owners[a].reachable \cup Online(store)
    BY <1>1, <1>5 DEF Witness, Dials, Holding
<1>6. \A a \in Callers : Dials(a) =>
          /\ owners'[a].holders \subseteq {b \in Callers : errand[a].number \in had'[b]}
          /\ Holding(errand[a].number, store) \subseteq owners'[a].holders
          /\ Online(store) \subseteq owners'[a].reachable
  <2>. SUFFICES ASSUME NEW a \in Callers, Dials(a)
                PROVE  owners'[a].holders \subseteq {b \in Callers : errand[a].number \in had'[b]}
      BY <1>5
  <2>1. owners[a].holders \subseteq {b \in Callers : errand[a].number \in had'[b]}
      BY <1>1, <1>3 DEF DirectoryInv
  <2>2. Holding(errand[a].number, store) \subseteq {b \in Callers : errand[a].number \in had'[b]}
      BY <1>3 DEF Holding
  <2>. QED
      BY <1>5, <2>1, <2>2
<1>7. \A a \in Callers : errand[a].at \in {"looked", "reached"} => Dials(a)
    BY DEF Dials
<1>8. DirectoryInv'
  <2>1. \A a \in Callers : Dials(a)' = Dials(a)
      BY <1>1 DEF Dials
  <2>2. \A a \in Callers : Dials(a)' =>
          /\ owners'[a].holders \subseteq {b \in Callers : errand'[a].number \in had'[b]}
          /\ Holding(errand'[a].number, phones') \subseteq owners'[a].holders
          /\ Online(phones') \subseteq owners'[a].reachable
      BY <1>1, <1>6, <2>1
  <2>3. \A a \in Callers : errand'[a].at \in {"looked", "reached"} =>
          errand'[a].to \in owners'[a].holders \cup {Nobody} /\ errand'[a].number \notin errand'[a].mine
      BY <1>1, <1>5, <1>7 DEF DirectoryInv
  <2>4. TextsAreAddressed'
      BY <1>1, <1>5, <1>7 DEF DirectoryInv, TextsAreAddressed
  <2>. QED
      BY <2>2, <2>3, <2>4 DEF DirectoryInv
<1>. QED
    BY <1>4, <1>8 DEF Honest

-----------------------------------------------------------------------------
(***************************************************************************)
(* Phones: what the two of a call are told.                                  *)
(***************************************************************************)
OneMoreLine(m, k) ==
    /\ m.about # k => About(k)' = About(k)
    /\ m.about = k => About(k)' = About(k) \cup {Len(sent) + 1}
    /\ \A i \in About(k) : sent'[i] = sent[i] /\ i \in Nat /\ i <= Len(sent)
    /\ sent'[Len(sent) + 1] = m /\ Len(sent) \in Nat

\* One more message, of a call or not.
LEMMA AboutOne ==
    ASSUME PhoneTypes, NEW m \in Line, sent' = Append(sent, m), NEW k
    PROVE  OneMoreLine(m, k)
<1>1. /\ DOMAIN sent' = 1..(Len(sent) + 1) /\ DOMAIN sent = 1..Len(sent) /\ Len(sent) \in Nat
      /\ \A i \in 1..Len(sent) : sent'[i] = sent[i]
      /\ sent'[Len(sent) + 1] = m
    BY SentOne
<1>. QED
    BY <1>1 DEF About, OneMoreLine

\* Of which kind the new message is.
LEMMA KindOne ==
    ASSUME NEW m, NEW k, OneMoreLine(m, k), m.about = k, NEW kind
    PROVE  /\ m.kind = kind => OfKind(kind, k)' = OfKind(kind, k) \cup {Len(sent) + 1}
           /\ m.kind # kind => OfKind(kind, k)' = OfKind(kind, k)
           /\ OfKind(kind, k) \subseteq About(k)
BY DEF OneMoreLine, OfKind

\* Nothing is said in the call k, and who begins to speak in it may.
Untouched(k) ==
    /\ calls'[k].caller = calls[k].caller /\ calls'[k].callee = calls[k].callee
    /\ calls'[k].speaker = calls[k].speaker
    /\ calls'[k].active => calls[k].active
    /\ About(k)' = About(k) /\ \A i \in About(k) : sent'[i] = sent[i]
    /\ \A b \in Callers : Saying(b, k)' => Saying(b, k) \/ calls[k].active

LEMMA UntouchedStays ==
    ASSUME NEW k, Whole(k), Untouched(k)
    PROVE  Whole(k)'
<1>. USE DEF Untouched
<1>1. \A kind : OfKind(kind, k)' = OfKind(kind, k) /\ OfKind(kind, k) \subseteq About(k)
    BY DEF OfKind
<1>2. Ends(k)' = Ends(k)
    BY DEF Ends
<1>3. BeginsWithTheCall(k)'
    BY <1>1 DEF Whole, BeginsWithTheCall
<1>4. BetweenTheTwo(k)'
    BY <1>2 DEF Whole, BetweenTheTwo
<1>5. TakesTurns(k)'
  <2>1. TakesTurns(k) /\ \A i \in OfKind("line", k) : sent'[i] = sent[i]
      BY <1>1 DEF Whole
  <2>. QED
      BY <1>1, <2>1 DEF TakesTurns
<1>6. EndsOnce(k)'
    BY <1>1 DEF Whole, EndsOnce
<1>7. Turn(k)'
  <2>1. calls'[k].active \/ (\E a \in Callers : Saying(a, k)')
            => calls[k].active \/ (\E a \in Callers : Saying(a, k))
      OBVIOUS
  <2>2. \A i : Latest(i, OfKind("line", k)) => sent'[i] = sent[i]
      BY <1>1 DEF Latest
  <2>3. Turn(k)
      BY DEF Whole
  <2>. QED
      BY <1>1, <2>1, <2>2, <2>3 DEF Turn, Latest
<1>8. NoEndYet(k)'
    BY <1>1 DEF Whole, NoEndYet
<1>9. LastWord(k)'
    BY <1>1 DEF Whole, LastWord, NoEndYet
<1>. QED
    BY <1>3, <1>4, <1>5, <1>6, <1>7, <1>8, <1>9 DEF Whole

\* A line is said by whoever has the turn, and the turn goes on while the call does.
LEMMA LineSaid ==
    ASSUME NEW k, Whole(k), NEW a \in Callers, NEW b \in Callers, a # b,
           Ends(k) = {a, b}, Saying(a, k), calls[k].speaker = a,
           NEW m, OneMoreLine(m, k), m.about = k, m.kind = "line", m.from = a, m.to = b,
           calls'[k].caller = calls[k].caller, calls'[k].callee = calls[k].callee,
           calls'[k].active = calls[k].active, calls'[k].active => calls'[k].speaker = b,
           \A c \in Callers : ~Saying(c, k)'
    PROVE  Whole(k)'
<1>. DEFINE n == Len(sent) + 1
<1>1. /\ About(k)' = About(k) \cup {n} /\ sent'[n] = m /\ n \in Nat
      /\ \A i \in About(k) : sent'[i] = sent[i] /\ i \in Nat /\ i < n
    BY DEF OneMoreLine
<1>. HIDE DEF n
<1>2. /\ OfKind("line", k)' = OfKind("line", k) \cup {n}
      /\ \A kind \in {"incoming", "end"} : OfKind(kind, k)' = OfKind(kind, k)
      /\ \A kind : OfKind(kind, k) \subseteq About(k)
  <2>0. m.kind # "incoming" /\ m.kind # "end"
      OBVIOUS
  <2>1. OfKind("line", k)' = OfKind("line", k) \cup {Len(sent) + 1}
      BY KindOne
  <2>2. OfKind("incoming", k)' = OfKind("incoming", k)
      BY <2>0 DEF OneMoreLine, OfKind
  <2>3. OfKind("end", k)' = OfKind("end", k)
      BY <2>0 DEF OneMoreLine, OfKind
  <2>4. \A kind : OfKind(kind, k) \subseteq About(k)
      BY DEF OfKind
  <2>. QED
      BY <2>1, <2>2, <2>3, <2>4 DEF n
<1>3. Ends(k)' = Ends(k)
    BY DEF Ends
<1>4. BeginsWithTheCall(k)'
  <2>1. PICK i \in OfKind("incoming", k) : sent[i].to = calls[k].callee /\ \A j \in About(k) : i <= j
      BY DEF Whole, BeginsWithTheCall
  <2>2. i \in OfKind("incoming", k)' /\ sent'[i].to = calls'[k].callee
      BY <1>1, <1>2, <2>1
  <2>3. \A j \in About(k)' : i <= j
      BY <1>1, <1>2, <2>1
  <2>. QED
      BY <2>2, <2>3 DEF BeginsWithTheCall
<1>5. BetweenTheTwo(k)'
  <2>1. \A i \in About(k) : {sent[i].from, sent[i].to} = Ends(k)
      BY DEF Whole, BetweenTheTwo
  <2>2. {sent'[n].from, sent'[n].to} = Ends(k)
      BY <1>1
  <2>. QED
      BY <1>1, <1>3, <2>1, <2>2 DEF BetweenTheTwo
<1>6. Turn(k) /\ LastWord(k) /\ EndsOnce(k) /\ TakesTurns(k) /\ NoEndYet(k)
    BY DEF Whole
<1>7. /\ OfKind("line", k) = {} => a = calls[k].caller
      /\ \A i : Latest(i, OfKind("line", k)) => sent[i].from # a
    BY <1>6 DEF Turn
<1>8. TakesTurns(k)'
  <2>. SUFFICES ASSUME NEW i \in OfKind("line", k)'
                PROVE  LET earlier == {j \in OfKind("line", k)' : j < i}
                       IN  IF earlier = {} THEN sent'[i].from = calls'[k].caller
                           ELSE \A j \in earlier : (\A l \in earlier : l <= j)
                                                     => sent'[j].from # sent'[i].from
      BY DEF TakesTurns
  <2>1. CASE i = n
    <3>1. {j \in OfKind("line", k)' : j < i} = OfKind("line", k)
        BY <1>1, <1>2, <2>1
    <3>2. \A j \in OfKind("line", k) : (\A l \in OfKind("line", k) : l <= j) => sent'[j].from # a
        BY <1>1, <1>2, <1>7 DEF Latest
    <3>. QED
        BY <1>1, <1>7, <2>1, <3>1, <3>2
  <2>2. CASE i # n
    <3>1. i \in OfKind("line", k) /\ sent'[i] = sent[i]
        BY <1>1, <1>2, <2>2
    <3>2. {j \in OfKind("line", k)' : j < i} = {j \in OfKind("line", k) : j < i}
        BY <1>1, <1>2, <3>1
    <3>3. \A j \in OfKind("line", k) : sent'[j] = sent[j]
        BY <1>1, <1>2
    <3>4. LET earlier == {j \in OfKind("line", k) : j < i}
          IN  IF earlier = {} THEN sent[i].from = calls[k].caller
              ELSE \A j \in earlier : (\A l \in earlier : l <= j) => sent[j].from # sent[i].from
        BY <1>6, <3>1 DEF TakesTurns
    <3>. QED
        BY <3>1, <3>2, <3>3, <3>4
  <2>. QED
      BY <2>1, <2>2
<1>9. EndsOnce(k)'
  <2>1. \A e \in OfKind("end", k), i \in About(k) : i <= e
      BY <1>6 DEF LastWord
  <2>. QED
      BY <1>1, <1>2, <1>6, <2>1 DEF EndsOnce
<1>10. Turn(k)'
  <2>1. \A i : Latest(i, OfKind("line", k)') => i = n
      BY <1>1, <1>2 DEF Latest
  <2>. QED
      BY <1>1, <1>2, <2>1 DEF Turn, Latest
<1>11. NoEndYet(k)'
    BY <1>2, <1>6 DEF NoEndYet
<1>12. LastWord(k)'
    BY DEF LastWord
<1>. QED
    BY <1>4, <1>5, <1>8, <1>9, <1>10, <1>11, <1>12 DEF Whole

\* The end of a call is told to whom did not hang up.
LEMMA EndSaid ==
    ASSUME NEW k, Whole(k), NEW a \in Callers, NEW b \in Callers,
           Ends(k) = {a, b}, calls[k].active,
           NEW m, OneMoreLine(m, k), m.about = k, m.kind = "end", m.from = a, m.to = b,
           calls'[k].caller = calls[k].caller, calls'[k].callee = calls[k].callee,
           ~calls'[k].active, calls'[k].speaker = calls[k].speaker
    PROVE  Whole(k)'
<1>. DEFINE n == Len(sent) + 1
<1>1. /\ About(k)' = About(k) \cup {n} /\ sent'[n] = m /\ n \in Nat
      /\ \A i \in About(k) : sent'[i] = sent[i] /\ i \in Nat /\ i < n
    BY DEF OneMoreLine
<1>. HIDE DEF n
<1>2. /\ OfKind("end", k)' = OfKind("end", k) \cup {n}
      /\ \A kind \in {"incoming", "line"} : OfKind(kind, k)' = OfKind(kind, k)
      /\ \A kind : OfKind(kind, k) \subseteq About(k)
  <2>0. m.kind # "incoming" /\ m.kind # "line"
      OBVIOUS
  <2>1. OfKind("end", k)' = OfKind("end", k) \cup {Len(sent) + 1}
      BY KindOne
  <2>2. OfKind("incoming", k)' = OfKind("incoming", k)
      BY <2>0 DEF OneMoreLine, OfKind
  <2>3. OfKind("line", k)' = OfKind("line", k)
      BY <2>0 DEF OneMoreLine, OfKind
  <2>4. \A kind : OfKind(kind, k) \subseteq About(k)
      BY DEF OfKind
  <2>. QED
      BY <2>1, <2>2, <2>3, <2>4 DEF n
<1>3. Ends(k)' = Ends(k) /\ OfKind("end", k) = {}
    BY DEF Ends, Whole, NoEndYet
<1>4. BeginsWithTheCall(k)'
  <2>1. PICK i \in OfKind("incoming", k) : sent[i].to = calls[k].callee /\ \A j \in About(k) : i <= j
      BY DEF Whole, BeginsWithTheCall
  <2>2. i \in OfKind("incoming", k)' /\ sent'[i].to = calls'[k].callee
      BY <1>1, <1>2, <2>1
  <2>3. \A j \in About(k)' : i <= j
      BY <1>1, <1>2, <2>1
  <2>. QED
      BY <2>2, <2>3 DEF BeginsWithTheCall
<1>5. BetweenTheTwo(k)'
  <2>1. \A i \in About(k) : {sent[i].from, sent[i].to} = Ends(k)
      BY DEF Whole, BetweenTheTwo
  <2>2. {sent'[n].from, sent'[n].to} = Ends(k)
      BY <1>1
  <2>. QED
      BY <1>1, <1>3, <2>1, <2>2 DEF BetweenTheTwo
<1>6. TakesTurns(k)'
  <2>1. TakesTurns(k) /\ \A i \in OfKind("line", k) : sent'[i] = sent[i]
      BY <1>1, <1>2 DEF Whole
  <2>2. OfKind("line", k)' = OfKind("line", k)
      BY <1>2
  <2>. QED
      BY <2>1, <2>2 DEF TakesTurns
<1>7. EndsOnce(k)'
    BY <1>1, <1>2, <1>3 DEF EndsOnce
<1>8. Turn(k)'
  <2>1. \A i : Latest(i, OfKind("line", k)) => sent'[i] = sent[i]
      BY <1>1, <1>2 DEF Latest
  <2>. QED
      BY <1>2, <2>1 DEF Whole, Turn, Latest
<1>9. NoEndYet(k)' /\ LastWord(k)'
    BY <1>1, <1>2, <1>3 DEF NoEndYet, LastWord
<1>. QED
    BY <1>4, <1>5, <1>6, <1>7, <1>8, <1>9 DEF Whole

Talk == CallsInv /\ TalkInv

\* An element of a longer sequence is the new one or an old one.
LEMMA AppendedOne ==
    ASSUME NEW S, NEW q \in Seq(S), NEW m \in S
    PROVE  \A i \in DOMAIN Append(q, m) : \/ Append(q, m)[i] = m
                                          \/ i \in DOMAIN q /\ Append(q, m)[i] = q[i]
BY AppendProperties

\* The messages that a step adds are of one call, or of none.
LEMMA AboutOthers ==
    ASSUME PhoneTypes, NEW m \in Line, sent' = sent \/ sent' = Append(sent, m)
    PROVE  /\ \A k : m.about # k => /\ About(k)' = About(k)
                                    /\ \A i \in About(k) : sent'[i] = sent[i]
           /\ \A i \in DOMAIN sent' : \/ sent'[i].about = m.about
                                      \/ i \in DOMAIN sent /\ sent'[i].about = sent[i].about
<1>1. CASE sent' = sent
    BY <1>1 DEF About
<1>2. CASE sent' = Append(sent, m)
  <2>1. \A k : OneMoreLine(m, k)
      BY <1>2, AboutOne
  <2>2. \A k : m.about # k => About(k)' = About(k) /\ \A i \in About(k) : sent'[i] = sent[i]
      BY <2>1 DEF OneMoreLine
  <2>3. sent \in Seq(Line)
      BY DEF PhoneTypes
  <2>5. \A i \in DOMAIN sent' : sent'[i] = m \/ (i \in DOMAIN sent /\ sent'[i] = sent[i])
      BY <1>2, <2>3, AppendedOne
  <2>4. \A i \in DOMAIN sent' : \/ sent'[i].about = m.about
                                \/ i \in DOMAIN sent /\ sent'[i].about = sent[i].about
    <3>. TAKE i \in DOMAIN sent'
    <3>. QED
        BY <2>5
  <2>. QED
      BY <2>2, <2>4
<1>. QED
    BY <1>1, <1>2

\* Nobody's call changes.
LEMMA CallsStay ==
    ASSUME PhoneTypes, Talk, UNCHANGED calls,
           NEW m \in Line, sent' = sent \/ sent' = Append(sent, m), m.about = 0,
           \A b \in Callers : errand'[b].at = "line" =>
                \/ errand'[b] = errand[b]
                \/ /\ errand'[b].call \in DOMAIN calls /\ calls[errand'[b].call].active
                   /\ calls[errand'[b].call].speaker = b
    PROVE  Talk'
<1>1. CallsInv /\ TalkInv /\ DOMAIN calls = 1..Len(calls) /\ Len(calls) \in Nat
    BY CallsAre DEF Talk
<1>2. CallsInv'
  <2>1. OneCallEach'
      BY <1>1 DEF CallsInv, OneCallEach, ActiveCalls
  <2>2. \A k \in DOMAIN calls' : calls'[k].speaker \in Ends(k)'
      BY <1>1 DEF CallsInv, Ends
  <2>3. \A a \in Callers : errand'[a].at = "line" =>
          errand'[a].call \in DOMAIN calls' /\ calls'[errand'[a].call].speaker = a
      BY <1>1 DEF CallsInv
  <2>4. \A i \in DOMAIN sent' : sent'[i].about \in 0..Len(calls')
      BY <1>1, AboutOthers DEF CallsInv
  <2>. QED
      BY <2>1, <2>2, <2>3, <2>4 DEF CallsInv
<1>3. ASSUME NEW k \in DOMAIN calls, calls[k].caller # calls[k].callee PROVE Whole(k)'
  <2>1. m.about # k
      BY <1>1
  <2>2. About(k)' = About(k) /\ \A i \in About(k) : sent'[i] = sent[i]
      BY <2>1, AboutOthers
  <2>3. \A b \in Callers : Saying(b, k)' => Saying(b, k) \/ calls[k].active
      BY DEF Saying
  <2>4. Untouched(k)
      BY <2>2, <2>3 DEF Untouched
  <2>. QED
      BY <1>1, <1>3, <2>4, UntouchedStays DEF TalkInv
<1>. QED
    BY <1>2, <1>3 DEF Talk, TalkInv

\* Any line, for the steps that send none.
LEMMA SomeLine ==
    ASSUME NEW a \in Callers
    PROVE  Says(a, a, 0, "sms", {}) \in Line /\ Says(a, a, 0, "sms", {}).about = 0
BY LineIs

\* No tool but those of a call says anything in one.
LEMMA ToolsKeepTalk ==
    ASSUME PhoneTypes, Talk, NEW a \in Callers,
           \/ \E kind \in {"sms", "call"}, n \in office.dials : Request(a, kind, n)
           \/ Look(a) \/ Reach(a) \/ Text(a) \/ SpeakBegin(a)
    PROVE  Talk'
<1>1. OthersStay(a) /\ UNCHANGED calls
    BY StayIs DEF Request, Look, Reach, Text, SpeakBegin
<1>2. CASE ~SpeakBegin(a)
  <2>1. errand'[a].at # "line"
    <3>1. ASSUME NEW kind \in {"sms", "call"}, NEW n \in office.dials, Request(a, kind, n)
          PROVE  errand'[a].at # "line"
      <4>1. errand'[a] = Tool("asked", kind, n, NumberOf(a), Nobody, 0)
          BY <3>1, RequestTypes
      <4>. QED
          BY <4>1 DEF Tool
    <3>2. CASE Look(a)
      <4>1. \/ errand'[a] = Free
            \/ errand'[a] = Tool("looked", errand[a].kind, errand[a].number, errand[a].mine,
                                 Resolve(errand[a].number), 0)
          BY <3>2, LookTypes
      <4>2. Free.at = "free"
          BY ToolIs
      <4>. QED
          BY <4>1, <4>2 DEF Tool
    <3>3. CASE Reach(a)
      <4>1. errand[a] \in Errand
          BY DEF PhoneTypes
      <4>2. errand'[a] = Free \/ errand'[a] = [errand[a] EXCEPT !.at = "reached"]
          BY <3>3, ReachTypes
      <4>3. Free.at = "free" /\ [errand[a] EXCEPT !.at = "reached"].at = "reached"
          BY <4>1, ToolIs DEF Errand
      <4>. QED
          BY <4>2, <4>3
    <3>4. CASE Text(a)
        BY <3>4, TextTypes, ToolIs
    <3>. QED
        BY <1>2, <3>1, <3>2, <3>3, <3>4
  <2>2. \A b \in Callers : errand'[b].at = "line" => errand'[b] = errand[b]
      BY <1>1, <2>1 DEF OthersStay
  <2>3. CASE Text(a)
    <3>1. PICK m \in Line : sent' = Append(sent, m) /\ m.about = 0
        BY <2>3, TextTypes DEF Says
    <3>. QED
        BY <1>1, <2>2, <3>1, CallsStay
  <2>4. CASE ~Text(a)
    <3>1. sent' = sent
        BY <1>2, <2>4 DEF Request, Look, Reach
    <3>. QED
        BY <1>1, <2>2, <3>1, SomeLine, CallsStay
  <2>. QED
      BY <2>3, <2>4
<1>3. CASE SpeakBegin(a)
  <2>1. PICK k \in DOMAIN calls : /\ calls[k].active /\ calls[k].speaker = a
                                  /\ errand'[a] = Tool("line", "none", 0, NumberOf(a), Nobody, k)
      BY <1>3, SpeakBeginTypes
  <2>2. errand'[a].call = k
      BY <2>1 DEF Tool
  <2>3. sent' = sent
      BY <1>3 DEF SpeakBegin
  <2>. QED
      BY <1>1, <2>1, <2>2, <2>3, SomeLine, CallsStay DEF OthersStay
<1>. QED
    BY <1>2, <1>3

\* The store is not asked for what was said.
LEMMA ChangeKeepsTalk ==
    ASSUME PhoneTypes, Talk, NEW store, Change(store)
    PROVE  Talk'
<1>1. UNCHANGED <<errand, calls, sent>>
    BY DEF Change
<1>2. CASE Callers = {}
  <2>1. /\ calls = <<>> /\ sent = <<>>
    <3>1. calls \in Seq(PhoneCall) /\ sent \in Seq(Line) /\ PhoneCall = {} /\ Line = {}
        BY <1>2 DEF PhoneTypes, PhoneCall, Line
    <3>. QED
        BY <3>1
  <2>2. CallsInv'
      BY <1>1, <1>2, <2>1 DEF CallsInv, OneCallEach
  <2>3. TalkInv'
      BY <1>1, <2>1 DEF TalkInv
  <2>. QED
      BY <2>2, <2>3 DEF Talk
<1>3. ASSUME NEW a \in Callers PROVE Talk'
    BY <1>1, SomeLine, CallsStay
<1>. QED
    BY <1>2, <1>3

\* One call more, between the agents a and to.
LEMMA OneCallMore ==
    ASSUME NEW q \in Seq(PhoneCall), NEW c \in PhoneCall
    PROVE  /\ DOMAIN Append(q, c) = 1..(Len(q) + 1) /\ Len(Append(q, c)) = Len(q) + 1
           /\ Append(q, c)[Len(q) + 1] = c
           /\ \A k \in DOMAIN q : Append(q, c)[k] = q[k]
BY AppendProperties, LenProperties

Connects(a, to, n, m) ==
    /\ n = Len(calls) + 1 /\ DOMAIN calls' = 1..n /\ Len(calls') = n
    /\ calls'[n].caller = a /\ calls'[n].callee = to /\ calls'[n].active /\ calls'[n].speaker = a
    /\ \A k \in DOMAIN calls : calls'[k] = calls[k]
    /\ m.from = a /\ m.to = to /\ m.about = n /\ m.kind = "incoming"
    /\ \A k : m.about # k => About(k)' = About(k) /\ \A i \in About(k) : sent'[i] = sent[i]
    /\ \A i \in DOMAIN sent' : \/ sent'[i].about = m.about
                               \/ i \in DOMAIN sent /\ sent'[i].about = sent[i].about
    /\ OneMoreLine(m, n)

\* A call that begins is the only one of its two, and its first message says so.
LEMMA ConnectedTalk ==
    ASSUME PhoneTypes, Talk, NEW a \in Callers, NEW to \in Callers, NEW n, NEW m \in Line,
           ActiveCalls(a) \cup ActiveCalls(to) = {}, Connects(a, to, n, m),
           \A b \in Callers : errand'[b].at = "line" => errand'[b] = errand[b]
    PROVE  Talk'
<1>1. /\ CallsInv /\ TalkInv /\ DOMAIN calls = 1..Len(calls) /\ Len(calls) \in Nat
      /\ \A k \in DOMAIN calls : calls[k] \in PhoneCall
    BY CallsAre DEF Talk
<1>2. \A k \in DOMAIN calls' : k \in DOMAIN calls \/ k = n
    BY <1>1 DEF Connects
<1>3. /\ n \notin DOMAIN calls /\ n \in Nat /\ n # 0 /\ n \in DOMAIN calls'
      /\ \A k \in DOMAIN calls : k \in DOMAIN calls'
    BY <1>1 DEF Connects
<1>4. \A b \in Callers : /\ b \in {a, to} => ActiveCalls(b)' \subseteq {n}
                         /\ b \notin {a, to} => ActiveCalls(b)' = ActiveCalls(b)
  <2>1. \A b \in {a, to} : \A k \in ActiveCalls(b)' : k = n
    <3>1. \A b \in {a, to} : ActiveCalls(b) = {}
        OBVIOUS
    <3>. SUFFICES ASSUME NEW b \in {a, to}, NEW k \in ActiveCalls(b)', k # n PROVE FALSE
        OBVIOUS
    <3>2. k \in DOMAIN calls' /\ calls'[k].active /\ b \in {calls'[k].caller, calls'[k].callee}
        BY DEF ActiveCalls
    <3>3. k \in DOMAIN calls /\ calls'[k] = calls[k]
        BY <1>2, <3>2 DEF Connects
    <3>4. k \in ActiveCalls(b)
        BY <3>2, <3>3 DEF ActiveCalls
    <3>. QED
        BY <3>1, <3>4
  <2>2. ASSUME NEW b \in Callers \ {a, to} PROVE ActiveCalls(b)' = ActiveCalls(b)
    <3>1. ASSUME NEW k \in ActiveCalls(b)' PROVE k \in ActiveCalls(b)
      <4>1. k \in DOMAIN calls' /\ calls'[k].active /\ b \in {calls'[k].caller, calls'[k].callee}
          BY <3>1 DEF ActiveCalls
      <4>2. k # n
          BY <4>1 DEF Connects
      <4>3. k \in DOMAIN calls /\ calls'[k] = calls[k]
          BY <1>2, <4>1, <4>2 DEF Connects
      <4>. QED
          BY <4>1, <4>3 DEF ActiveCalls
    <3>2. ASSUME NEW k \in ActiveCalls(b) PROVE k \in ActiveCalls(b)'
      <4>1. k \in DOMAIN calls /\ calls[k].active /\ b \in {calls[k].caller, calls[k].callee}
          BY <3>2 DEF ActiveCalls
      <4>2. calls'[k] = calls[k] /\ k \in DOMAIN calls'
          BY <1>3, <4>1 DEF Connects
      <4>. QED
          BY <4>1, <4>2 DEF ActiveCalls
    <3>. QED
        BY <3>1, <3>2
  <2>. QED
      BY <2>1, <2>2
<1>5. OneCallEach'
  <2>1. OneCallEach
      BY <1>1 DEF CallsInv
  <2>. QED
      BY <1>4, <2>1 DEF OneCallEach
<1>6. \A k \in DOMAIN calls' : calls'[k].speaker \in Ends(k)'
  <2>1. \A k \in DOMAIN calls : calls[k].speaker \in Ends(k)
      BY <1>1 DEF CallsInv
  <2>2. ASSUME NEW k \in DOMAIN calls PROVE calls'[k].speaker \in Ends(k)'
    <3>1. calls'[k] = calls[k]
        BY DEF Connects
    <3>. QED
        BY <2>1, <3>1 DEF Ends
  <2>3. calls'[n].speaker \in Ends(n)'
      BY DEF Ends, Connects
  <2>. QED
      BY <1>2, <2>2, <2>3
<1>7. \A b \in Callers : errand'[b].at = "line" =>
          errand'[b].call \in DOMAIN calls' /\ calls'[errand'[b].call].speaker = b
  <2>. SUFFICES ASSUME NEW b \in Callers, errand'[b].at = "line"
                PROVE  errand'[b].call \in DOMAIN calls' /\ calls'[errand'[b].call].speaker = b
      OBVIOUS
  <2>1. errand'[b] = errand[b]
      OBVIOUS
  <2>2. errand[b].call \in DOMAIN calls /\ calls[errand[b].call].speaker = b
      BY <1>1, <2>1 DEF CallsInv
  <2>3. calls'[errand[b].call] = calls[errand[b].call]
      BY <2>2 DEF Connects
  <2>. QED
      BY <1>3, <2>1, <2>2, <2>3
<1>8. \A i \in DOMAIN sent' : sent'[i].about \in 0..Len(calls')
  <2>1. \A i \in DOMAIN sent : sent[i].about \in 0..Len(calls)
      BY <1>1 DEF CallsInv
  <2>2. 0..Len(calls) \subseteq 0..n /\ n \in 0..n
      BY <1>1 DEF Connects
  <2>3. /\ \A i \in DOMAIN sent' : sent'[i].about = n \/ (i \in DOMAIN sent /\ sent'[i].about = sent[i].about)
        /\ Len(calls') = n
      BY DEF Connects
  <2>. QED
      BY <2>1, <2>2, <2>3
<1>9. CallsInv'
    BY <1>5, <1>6, <1>7, <1>8 DEF CallsInv
<1>10. ASSUME NEW k \in DOMAIN calls, calls[k].caller # calls[k].callee PROVE Whole(k)'
  <2>1. m.about # k
      BY <1>3 DEF Connects
  <2>2. About(k)' = About(k) /\ (\A i \in About(k) : sent'[i] = sent[i]) /\ calls'[k] = calls[k]
      BY <2>1 DEF Connects
  <2>3. \A b \in Callers : Saying(b, k)' => Saying(b, k) \/ calls[k].active
      BY DEF Saying
  <2>4. Untouched(k)
      BY <2>2, <2>3 DEF Untouched
  <2>. QED
      BY <1>1, <1>10, <2>4, UntouchedStays DEF TalkInv
<1>11. ASSUME a # to PROVE Whole(n)'
  <2>1. OneMoreLine(m, n) /\ m.about = n
      BY DEF Connects
  <2>2. About(n) = {}
    <3>1. \A i \in DOMAIN sent : sent[i].about \in 0..Len(calls)
        BY <1>1 DEF CallsInv
    <3>2. n \notin 0..Len(calls)
        BY <1>1 DEF Connects
    <3>. QED
        BY <3>1, <3>2 DEF About
  <2>. DEFINE i0 == Len(sent) + 1
  <2>3. About(n)' = {i0} /\ sent'[i0] = m /\ i0 \in Nat
      BY <2>1, <2>2 DEF OneMoreLine
  <2>4. /\ calls'[n].caller = a /\ calls'[n].callee = to /\ calls'[n].active /\ calls'[n].speaker = a
        /\ m.from = a /\ m.to = to /\ m.kind = "incoming"
      BY DEF Connects
  <2>. HIDE DEF i0
  <2>5. OfKind("incoming", n)' = {i0} /\ OfKind("line", n)' = {} /\ OfKind("end", n)' = {}
      BY <2>3, <2>4 DEF OfKind
  <2>6. BeginsWithTheCall(n)'
      BY <2>3, <2>4, <2>5 DEF BeginsWithTheCall
  <2>7. BetweenTheTwo(n)'
      BY <2>3, <2>4 DEF BetweenTheTwo, Ends
  <2>8. TakesTurns(n)' /\ EndsOnce(n)' /\ NoEndYet(n)' /\ LastWord(n)'
    <3>1. TakesTurns(n)'
        BY <2>5 DEF TakesTurns
    <3>2. EndsOnce(n)' /\ NoEndYet(n)'
        BY <2>5 DEF EndsOnce, NoEndYet
    <3>3. LastWord(n)'
        BY <2>5 DEF LastWord
    <3>. QED
        BY <3>1, <3>2, <3>3
  <2>9. Turn(n)'
      BY <2>4, <2>5 DEF Turn, Latest
  <2>. QED
      BY <2>6, <2>7, <2>8, <2>9 DEF Whole
<1>12. TalkInv'
  <2>. SUFFICES ASSUME NEW k \in DOMAIN calls', calls'[k].caller # calls'[k].callee PROVE Whole(k)'
      BY DEF TalkInv
  <2>1. CASE k \in DOMAIN calls
    <3>1. calls'[k] = calls[k]
        BY <2>1 DEF Connects
    <3>. QED
        BY <1>10, <2>1, <3>1
  <2>2. CASE k = n
    <3>1. calls'[n].caller = a /\ calls'[n].callee = to
        BY DEF Connects
    <3>. QED
        BY <1>11, <2>2, <3>1
  <2>. QED
      BY <1>2, <2>1, <2>2
<1>. QED
    BY <1>9, <1>12 DEF Talk

\* start_call begins such a call, or none.
LEMMA DialKeepsTalk ==
    ASSUME PhoneTypes, Talk, NEW a \in Callers, Dial(a)
    PROVE  Talk'
<1>. DEFINE to == errand[a].to
            n == Len(calls) + 1
            c == NewCall(a)
            m == Invites(a)
<1>2. /\ errand'[a] = Free /\ Free.at = "free" /\ to \in Callers /\ c \in PhoneCall /\ m \in Line
      /\ \/ UNCHANGED <<calls, sent>>
         \/ /\ ActiveCalls(a) \cup ActiveCalls(to) = {}
            /\ calls' = Append(calls, c) /\ sent' = Append(sent, m)
    BY DialTypes, ToolIs
<1>3. /\ c.caller = a /\ c.callee = to /\ c.active /\ c.speaker = a
      /\ m.from = a /\ m.to = to /\ m.about = n /\ m.kind = "incoming"
    BY DEF NewCall, Invites, Says
<1>4. \A b \in Callers : errand'[b].at = "line" => errand'[b] = errand[b]
    BY <1>2, StayIs DEF Dial, OthersStay
<1>. HIDE DEF c, m, to
<1>5. CASE UNCHANGED <<calls, sent>>
    BY <1>4, <1>5, SomeLine, CallsStay
<1>6. CASE /\ ActiveCalls(a) \cup ActiveCalls(to) = {}
           /\ calls' = Append(calls, c) /\ sent' = Append(sent, m)
  <2>0. calls \in Seq(PhoneCall) /\ Append(calls, c) = calls'
      BY <1>6 DEF PhoneTypes
  <2>1. /\ DOMAIN Append(calls, c) = 1..n /\ Len(Append(calls, c)) = n /\ Append(calls, c)[n] = c
        /\ \A k \in DOMAIN calls : Append(calls, c)[k] = calls[k]
      BY <1>2, <2>0, OneCallMore
  <2>2. /\ DOMAIN calls' = 1..n /\ Len(calls') = n /\ calls'[n] = c
        /\ \A k \in DOMAIN calls : calls'[k] = calls[k]
      BY <2>0, <2>1, Zenon
  <2>3. /\ \A k : m.about # k => About(k)' = About(k) /\ \A i \in About(k) : sent'[i] = sent[i]
        /\ \A i \in DOMAIN sent' : \/ sent'[i].about = m.about
                                   \/ i \in DOMAIN sent /\ sent'[i].about = sent[i].about
      BY <1>2, <1>6, AboutOthers
  <2>4. OneMoreLine(m, n)
      BY <1>2, <1>6, AboutOne
  <2>5. Connects(a, to, n, m)
      BY <1>3, <2>2, <2>3, <2>4, Zenon DEF Connects
  <2>. QED
      BY <1>2, <1>4, <1>6, <2>5, ConnectedTalk
<1>. QED
    BY <1>2, <1>5, <1>6

\* What a call is after its speaker, or its state, is another.
LEMMA CallIs ==
    ASSUME PhoneTypes, NEW k \in DOMAIN calls, NEW x,
           \/ calls' = calls \/ calls' = [calls EXCEPT ![k].speaker = x]
           \/ calls' = [calls EXCEPT ![k].active = FALSE]
    PROVE  /\ calls'[k].caller = calls[k].caller /\ calls'[k].callee = calls[k].callee
           /\ calls'[k].active => calls[k].active
           /\ calls'[k].speaker = calls[k].speaker \/ calls'[k].speaker = x
           /\ calls' = [calls EXCEPT ![k].active = FALSE] =>
                 ~calls'[k].active /\ calls'[k].speaker = calls[k].speaker
           /\ calls' = [calls EXCEPT ![k].speaker = x] =>
                 calls'[k].active = calls[k].active /\ calls'[k].speaker = x
<1>1. calls[k] \in PhoneCall
    BY CallsAre
<1>2. CASE calls' = calls
  <2>1. calls'[k] = calls[k]
      BY <1>2
  <2>2. calls' = [calls EXCEPT ![k].active = FALSE] => ~calls'[k].active
      BY <1>1 DEF PhoneCall
  <2>3. calls' = [calls EXCEPT ![k].speaker = x] => calls'[k].speaker = x
      BY <1>1 DEF PhoneCall
  <2>. QED
      BY <2>1, <2>2, <2>3
<1>3. CASE calls' = [calls EXCEPT ![k].speaker = x]
  <2>1. calls'[k] = [calls[k] EXCEPT !.speaker = x]
      BY <1>3
  <2>2. /\ calls'[k].caller = calls[k].caller /\ calls'[k].callee = calls[k].callee
        /\ calls'[k].active = calls[k].active /\ calls'[k].speaker = x
      BY <1>1, <2>1 DEF PhoneCall
  <2>3. calls' = [calls EXCEPT ![k].active = FALSE] => ~calls'[k].active /\ calls'[k].speaker = calls[k].speaker
    <3>. SUFFICES ASSUME calls' = [calls EXCEPT ![k].active = FALSE]
                  PROVE  ~calls'[k].active /\ calls'[k].speaker = calls[k].speaker
        OBVIOUS
    <3>1. calls'[k] = [calls[k] EXCEPT !.active = FALSE]
        OBVIOUS
    <3>. QED
        BY <1>1, <3>1 DEF PhoneCall
  <2>. QED
      BY <2>2, <2>3
<1>4. CASE calls' = [calls EXCEPT ![k].active = FALSE]
  <2>1. calls'[k] = [calls[k] EXCEPT !.active = FALSE]
      BY <1>4
  <2>2. /\ calls'[k].caller = calls[k].caller /\ calls'[k].callee = calls[k].callee
        /\ ~calls'[k].active /\ calls'[k].speaker = calls[k].speaker
      BY <1>1, <2>1 DEF PhoneCall
  <2>3. calls' = [calls EXCEPT ![k].speaker = x] =>
           calls'[k].active = calls[k].active /\ calls'[k].speaker = x
    <3>. SUFFICES ASSUME calls' = [calls EXCEPT ![k].speaker = x]
                  PROVE  calls'[k].active = calls[k].active /\ calls'[k].speaker = x
        OBVIOUS
    <3>1. calls'[k] = [calls[k] EXCEPT !.speaker = x]
        OBVIOUS
    <3>. QED
        BY <1>1, <3>1 DEF PhoneCall
  <2>. QED
      BY <2>2, <2>3
<1>. QED
    BY <1>2, <1>3, <1>4

\* The other calls stay.
LEMMA OtherCallIs ==
    ASSUME NEW k, NEW x, NEW j \in DOMAIN calls, j # k,
           \/ calls' = calls \/ calls' = [calls EXCEPT ![k].speaker = x]
           \/ calls' = [calls EXCEPT ![k].active = FALSE]
    PROVE  calls'[j] = calls[j]
OBVIOUS

\* The calls after a step in the call k: nobody is in another one now.
LEMMA CallsGoOn ==
    ASSUME PhoneTypes, CallsInv, NEW k \in DOMAIN calls, NEW x \in Ends(k),
           \/ calls' = calls \/ calls' = [calls EXCEPT ![k].speaker = x]
           \/ calls' = [calls EXCEPT ![k].active = FALSE],
           calls'[k].speaker = calls[k].speaker \/ \A b \in Callers : ~Saying(b, k)',
           \A b \in Callers : errand'[b].at = "line" => errand'[b] = errand[b],
           NEW m \in Line, sent' = sent \/ sent' = Append(sent, m), m.about = k
    PROVE  CallsInv'
<1>1. /\ DOMAIN calls' = DOMAIN calls
      /\ \A j \in DOMAIN calls : calls'[j].caller = calls[j].caller /\ calls'[j].callee = calls[j].callee
  <2>1. \A j \in DOMAIN calls : calls[j] \in PhoneCall
      BY CallsAre
  <2>2. /\ DOMAIN calls' = DOMAIN calls
        /\ \A j \in DOMAIN calls : \/ calls'[j] = calls[j]
                                   \/ j = k /\ calls'[k] = [calls[k] EXCEPT !.speaker = x]
                                   \/ j = k /\ calls'[k] = [calls[k] EXCEPT !.active = FALSE]
      OBVIOUS
  <2>. QED
      BY <2>1, <2>2 DEF PhoneCall
<1>0. \A j \in DOMAIN calls : /\ calls'[j].active => calls[j].active
                             /\ (calls'[j].speaker = calls[j].speaker \/ (j = k /\ calls'[j].speaker = x))
  <2>. SUFFICES ASSUME NEW j \in DOMAIN calls
                PROVE  /\ calls'[j].active => calls[j].active
                       /\ (calls'[j].speaker = calls[j].speaker \/ (j = k /\ calls'[j].speaker = x))
      OBVIOUS
  <2>1. CASE j # k
    <3>1. calls'[j] = calls[j]
        BY <2>1, OtherCallIs
    <3>. QED
        BY <3>1
  <2>2. CASE j = k
      BY <2>2, CallIs
  <2>. QED
      BY <2>1, <2>2
<1>2. \A j \in DOMAIN calls : calls'[j].active => calls[j].active
    BY <1>0
<1>3. \A j \in DOMAIN calls : calls'[j].speaker = calls[j].speaker \/ (j = k /\ calls'[j].speaker = x)
    BY <1>0
<1>4. OneCallEach'
  <2>1. \A b \in Callers : ActiveCalls(b)' \subseteq ActiveCalls(b)
      BY <1>1, <1>2 DEF ActiveCalls
  <2>. QED
      BY <2>1 DEF CallsInv, OneCallEach
<1>5. \A j \in DOMAIN calls' : calls'[j].speaker \in Ends(j)'
  <2>1. \A j \in DOMAIN calls : Ends(j)' = Ends(j)
      BY <1>1 DEF Ends
  <2>. QED
      BY <1>1, <1>3, <2>1 DEF CallsInv
<1>6. \A b \in Callers : errand'[b].at = "line" =>
          errand'[b].call \in DOMAIN calls' /\ calls'[errand'[b].call].speaker = b
  <2>. SUFFICES ASSUME NEW b \in Callers, errand'[b].at = "line"
                PROVE  errand'[b].call \in DOMAIN calls' /\ calls'[errand'[b].call].speaker = b
      OBVIOUS
  <2>1. errand'[b] = errand[b] /\ errand[b].call \in DOMAIN calls /\ calls[errand[b].call].speaker = b
      BY DEF CallsInv
  <2>2. errand[b].call = k => calls'[k].speaker = calls[k].speaker
      BY <2>1 DEF Saying
  <2>3. calls'[errand[b].call].speaker = calls[errand[b].call].speaker
      BY <1>3, <2>1, <2>2
  <2>. QED
      BY <1>1, <2>1, <2>3
<1>7. \A i \in DOMAIN sent' : sent'[i].about \in 0..Len(calls')
  <2>1. \A i \in DOMAIN sent : sent[i].about \in 0..Len(calls)
      BY DEF CallsInv
  <2>2. Len(calls') = Len(calls) /\ k \in 0..Len(calls)
    <3>1. calls \in Seq(PhoneCall) /\ calls' \in Seq(PhoneCall)
      <4>1. calls \in Seq(PhoneCall) /\ DOMAIN calls = 1..Len(calls) /\ Len(calls) \in Nat
          BY CallsAre DEF PhoneTypes
      <4>2. calls[k] \in PhoneCall
          BY CallsAre
      <4>3. [calls[k] EXCEPT !.active = FALSE] \in PhoneCall
          BY <4>2 DEF PhoneCall
      <4>4. x \in Callers
          BY <4>2 DEF Ends, PhoneCall
      <4>. QED
          BY <4>1, <4>4, CallsAre
    <3>2. DOMAIN calls = 1..Len(calls) /\ DOMAIN calls' = 1..Len(calls') /\ Len(calls) \in Nat /\ Len(calls') \in Nat
        BY <3>1, LenProperties
    <3>. QED
        BY <1>1, <3>2
  <2>3. \A i \in DOMAIN sent' : sent'[i].about = m.about \/ (i \in DOMAIN sent /\ sent'[i].about = sent[i].about)
      BY AboutOthers
  <2>. QED
      BY <2>1, <2>2, <2>3
<1>. QED
    BY <1>4, <1>5, <1>6, <1>7 DEF CallsInv

\* What was told of the other calls stays whole.
LEMMA OtherCallsStay ==
    ASSUME PhoneTypes, Talk, NEW k \in DOMAIN calls, NEW x,
           \/ calls' = calls \/ calls' = [calls EXCEPT ![k].speaker = x]
           \/ calls' = [calls EXCEPT ![k].active = FALSE],
           \A b \in Callers : errand'[b].at = "line" => errand'[b] = errand[b],
           NEW m \in Line, sent' = sent \/ sent' = Append(sent, m), m.about = k,
           NEW j \in DOMAIN calls, j # k, calls[j].caller # calls[j].callee
    PROVE  Whole(j)'
<1>1. calls'[j] = calls[j]
    BY OtherCallIs
<1>2. About(j)' = About(j) /\ \A i \in About(j) : sent'[i] = sent[i]
    BY AboutOthers
<1>3. \A b \in Callers : Saying(b, j)' => Saying(b, j) \/ calls[j].active
    BY DEF Saying
<1>4. Untouched(j)
    BY <1>1, <1>2, <1>3 DEF Untouched
<1>. QED
    BY <1>4, UntouchedStays DEF Talk, TalkInv

\* What is told of the call k leaves that of the others whole.
LEMMA RestOfTalk ==
    ASSUME PhoneTypes, Talk, NEW k \in DOMAIN calls, NEW x,
           \/ calls' = calls \/ calls' = [calls EXCEPT ![k].speaker = x]
           \/ calls' = [calls EXCEPT ![k].active = FALSE],
           \A b \in Callers : errand'[b].at = "line" => errand'[b] = errand[b],
           NEW m \in Line, sent' = sent \/ sent' = Append(sent, m), m.about = k,
           calls[k].caller # calls[k].callee => Whole(k)'
    PROVE  TalkInv'
<1>1. \A j \in DOMAIN calls : calls'[j].caller = calls[j].caller /\ calls'[j].callee = calls[j].callee
  <2>1. calls'[k].caller = calls[k].caller /\ calls'[k].callee = calls[k].callee
      BY CallIs
  <2>2. \A j \in DOMAIN calls : j # k => calls'[j] = calls[j]
      BY OtherCallIs
  <2>. QED
      BY <2>1, <2>2
<1>2. DOMAIN calls' = DOMAIN calls
    OBVIOUS
<1>3. \A j \in DOMAIN calls : j # k /\ calls[j].caller # calls[j].callee => Whole(j)'
    BY OtherCallsStay
<1>. QED
    BY <1>1, <1>2, <1>3 DEF TalkInv

\* A line is said, even after the call has ended.
LEMMA SpeakEndKeepsTalk ==
    ASSUME PhoneTypes, Talk, NEW a \in Callers, SpeakEnd(a)
    PROVE  Talk'
<1>0. CallsInv /\ TalkInv
    BY DEF Talk
<1>1. PICK k : k = errand[a].call /\ Spoken(a, k)
    BY <1>0, SpeechIs
<1>2. errand[a].at = "line" /\ errand'[a] = Free /\ OthersStay(a) /\ Free.at = "free"
    BY StayIs, ToolIs, TurnsKeep DEF SpeakEnd
<1>3. \A b \in Callers : errand'[b].at = "line" => errand'[b] = errand[b]
    BY <1>2 DEF OthersStay
<1>4. Saying(a, k)
    BY <1>1, <1>2 DEF Saying
<1>5. k \in DOMAIN calls /\ a \in Ends(k) /\ calls[k].speaker = a /\ k \in Nat
  <2>1. k \in DOMAIN calls /\ a \in Ends(k) /\ calls[k].speaker = a
      BY <1>1 DEF Spoken
  <2>. QED
      BY <2>1, CallsAre
<1>6. \A b \in Callers : ~Saying(b, k)'
  <2>. SUFFICES ASSUME NEW b \in Callers, Saying(b, k)' PROVE FALSE
      OBVIOUS
  <2>1. errand'[b].at = "line" /\ errand'[b].call = k
      BY DEF Saying
  <2>2. errand'[b] = errand[b] /\ b # a
      BY <1>2, <1>3, <2>1
  <2>3. calls[k].speaker = b
      BY <1>0, <2>1, <2>2 DEF CallsInv
  <2>. QED
      BY <1>5, <2>2, <2>3
<1>7. CASE calls[k].caller = calls[k].callee
  <2>1. UNCHANGED calls /\ sent' = sent
      BY <1>1, <1>7 DEF Spoken
  <2>. QED
      BY <1>3, <2>1, SomeLine, CallsStay
<1>8. CASE calls[k].caller # calls[k].callee
  <2>1. PICK b \in Callers :
             /\ a # b /\ Ends(k) = {a, b}
             /\ sent' = Append(sent, Says(a, b, k, "line", ShownIn(k, a)))
             /\ calls' = IF calls[k].active THEN [calls EXCEPT ![k].speaker = b] ELSE calls
      BY <1>1, <1>8 DEF Spoken
  <2>. DEFINE m == Says(a, b, k, "line", ShownIn(k, a))
  <2>2. ShownIn(k, a) \in SUBSET Int
      BY <1>5, ShownInIs
  <2>3. m \in Line /\ m.from = a /\ m.to = b /\ m.about = k /\ m.kind = "line"
      BY <1>5, <2>2, LineIs
  <2>4. sent' = Append(sent, m)
      BY <2>1
  <2>. HIDE DEF m
  <2>5. OneMoreLine(m, k)
      BY <2>3, <2>4, AboutOne
  <2>6. calls' = calls \/ calls' = [calls EXCEPT ![k].speaker = b]
      BY <2>1
  <2>7. CallsInv'
      BY <1>0, <1>3, <1>5, <1>6, <2>1, <2>3, <2>4, <2>6, CallsGoOn
  <2>8. Whole(k)'
    <3>1. calls[k].active => calls' = [calls EXCEPT ![k].speaker = b]
        BY <2>1
    <3>2. ~calls[k].active => calls' = calls
        BY <2>1
    <3>3. /\ calls'[k].caller = calls[k].caller /\ calls'[k].callee = calls[k].callee
          /\ calls'[k].active = calls[k].active
          /\ calls'[k].active => calls'[k].speaker = b
      <4>1. CASE calls[k].active
          BY <1>5, <3>1, <4>1, CallIs
      <4>2. CASE ~calls[k].active
          BY <3>2, <4>2
      <4>. QED
          BY <4>1, <4>2
    <3>4. Whole(k)
        BY <1>0, <1>5, <1>8 DEF TalkInv
    <3>. QED
        BY <1>4, <1>5, <1>6, <2>1, <2>3, <2>5, <3>3, <3>4, LineSaid
  <2>9. TalkInv'
      BY <1>3, <1>5, <2>3, <2>4, <2>6, <2>8, RestOfTalk
  <2>. QED
      BY <2>7, <2>9 DEF Talk
<1>. QED
    BY <1>7, <1>8

\* hang_up ends the call it is of.
LEMMA HangUpKeepsTalk ==
    ASSUME PhoneTypes, Talk, NEW a \in Callers, HangUp(a)
    PROVE  Talk'
<1>0. CallsInv /\ TalkInv
    BY DEF Talk
<1>1. PICK k \in ActiveCalls(a) :
             /\ k \in DOMAIN calls /\ calls[k].active /\ a \in Ends(k)
             /\ calls' = [calls EXCEPT ![k].active = FALSE]
             /\ calls[k].caller = calls[k].callee => sent' = sent
             /\ calls[k].caller # calls[k].callee =>
                  \E b \in Callers : a # b /\ Ends(k) = {a, b}
                                     /\ sent' = Append(sent, Says(a, b, k, "end", {}))
    BY HangUpIs
<1>2. errand' = errand
    BY DEF HangUp
<1>3. k \in Nat /\ a \in Callers
    BY <1>1, CallsAre
<1>4. /\ calls'[k].caller = calls[k].caller /\ calls'[k].callee = calls[k].callee
      /\ ~calls'[k].active /\ calls'[k].speaker = calls[k].speaker
    BY <1>1, CallIs
<1>5. CASE calls[k].caller = calls[k].callee
  <2>1. sent' = sent
      BY <1>1, <1>5
  <2>. DEFINE m == Says(a, a, k, "end", {})
  <2>2. m \in Line /\ m.about = k
      BY <1>3, LineIs
  <2>. HIDE DEF m
  <2>3. CallsInv'
      BY <1>0, <1>1, <1>2, <1>4, <2>1, <2>2, CallsGoOn
  <2>4. TalkInv'
      BY <1>1, <1>2, <1>4, <1>5, <2>1, <2>2, RestOfTalk
  <2>. QED
      BY <2>3, <2>4 DEF Talk
<1>6. CASE calls[k].caller # calls[k].callee
  <2>1. PICK b \in Callers : a # b /\ Ends(k) = {a, b} /\ sent' = Append(sent, Says(a, b, k, "end", {}))
      BY <1>1, <1>6
  <2>. DEFINE m == Says(a, b, k, "end", {})
  <2>2. m \in Line /\ m.from = a /\ m.to = b /\ m.about = k /\ m.kind = "end"
      BY <1>3, LineIs
  <2>3. sent' = Append(sent, m)
      BY <2>1
  <2>. HIDE DEF m
  <2>4. OneMoreLine(m, k)
      BY <2>2, <2>3, AboutOne
  <2>5. CallsInv'
      BY <1>0, <1>1, <1>2, <1>4, <2>2, <2>3, CallsGoOn
  <2>6. Whole(k)
      BY <1>0, <1>1, <1>6 DEF TalkInv
  <2>7. Whole(k)'
      BY <1>1, <1>4, <2>1, <2>2, <2>4, <2>6, EndSaid
  <2>8. TalkInv'
      BY <1>1, <1>2, <2>2, <2>3, <2>7, RestOfTalk
  <2>. QED
      BY <2>5, <2>8 DEF Talk
<1>. QED
    BY <1>5, <1>6

\* A call that is cut off keeps what was said.
LEMMA CutOffKeepsTalk ==
    ASSUME PhoneTypes, Talk, NEW k \in DOMAIN calls, CutOff(k)
    PROVE  Talk'
<1>0. CallsInv /\ TalkInv
    BY DEF Talk
<1>1. /\ calls[k].active /\ calls' = [calls EXCEPT ![k].active = FALSE]
      /\ sent' = sent /\ errand' = errand
    BY DEF CutOff
<1>2. /\ calls'[k].caller = calls[k].caller /\ calls'[k].callee = calls[k].callee
      /\ ~calls'[k].active /\ calls'[k].speaker = calls[k].speaker
    BY <1>1, CallIs
<1>3. calls[k].caller \in Callers /\ k \in Nat /\ calls[k].caller \in Ends(k)
  <2>1. calls[k] \in PhoneCall /\ k \in Nat
      BY CallsAre
  <2>. QED
      BY <2>1 DEF PhoneCall, Ends
<1>. DEFINE m == Says(calls[k].caller, calls[k].caller, k, "end", {})
<1>4. m \in Line /\ m.about = k
    BY <1>3, LineIs
<1>. HIDE DEF m
<1>5. CallsInv'
    BY <1>0, <1>1, <1>2, <1>3, <1>4, CallsGoOn
<1>6. calls[k].caller # calls[k].callee => Whole(k)'
  <2>. SUFFICES ASSUME calls[k].caller # calls[k].callee PROVE Whole(k)'
      OBVIOUS
  <2>1. Whole(k)
      BY <1>0 DEF TalkInv
  <2>2. About(k)' = About(k)
      BY <1>1 DEF About
  <2>3. \A b \in Callers : Saying(b, k)' => Saying(b, k)
      BY <1>1 DEF Saying
  <2>4. Untouched(k)
      BY <1>1, <1>2, <2>2, <2>3 DEF Untouched
  <2>. QED
      BY <2>1, <2>4, UntouchedStays
<1>7. TalkInv'
    BY <1>1, <1>4, <1>6, RestOfTalk
<1>. QED
    BY <1>5, <1>7 DEF Talk

\* In the initial state nobody has asked for anything.
LEMMA PhonesBegin ==
    ASSUME PhonesInit
    PROVE  PhoneInv
<1>1. /\ office \in Offices /\ phones = office.phones /\ calls = <<>> /\ sent = <<>>
      /\ errand = [a \in Callers |-> Free]
      /\ had = NumbersOf(phones) /\ owners = [a \in Callers |-> NobodyYet]
    BY DEF PhonesInit
<1>2. phones \in Seq(Handset)
    BY <1>1, OfficesAreSound DEF Handset
<1>3. \A a \in Callers : errand[a] = Free /\ errand[a].at = "free" /\ errand[a].mine = {}
    BY <1>1, ToolIs
<1>4. \A a \in Callers : NumbersOf(phones)[a] \in SUBSET Int /\ had[a] = NumbersOf(phones)[a]
  <2>1. \A p \in ToSet(phones) : p \in Handset
      BY <1>2 DEF ToSet
  <2>. QED
      BY <1>1, <2>1 DEF NumbersOf, OwnedBy, Handset
<1>5. PhoneTypes
  <2>1. errand \in [Callers -> Errand]
      BY <1>1, ToolIs
  <2>2. had \in [Callers -> SUBSET Int]
    <3>1. had = [a \in Callers |-> had[a]]
        BY <1>1 DEF NumbersOf
    <3>. QED
        BY <1>4, <3>1
  <2>3. owners \in [Callers -> Moment]
      BY <1>1 DEF Moment, NobodyYet
  <2>. QED
      BY <1>1, <1>2, <1>3, <2>1, <2>2, <2>3 DEF PhoneTypes
<1>6. NumbersInv
    BY <1>1, <1>3, <1>4 DEF NumbersInv, NumbersAreTheirs
<1>7. DirectoryInv
    BY <1>3 DEF DirectoryInv, TextsAreAddressed, Dials
<1>8. CallsInv
    BY <1>1, <1>3 DEF CallsInv, OneCallEach, ActiveCalls
<1>9. TalkInv
    BY <1>1 DEF TalkInv
<1>. QED
    BY <1>5, <1>6, <1>7, <1>8, <1>9 DEF PhoneInv

\* What is said of the phones in a state says the same of the next when nothing changes.
LEMMA PhonesRest ==
    ASSUME PhoneInv, UNCHANGED phoneVars
    PROVE  PhoneInv'
<1>. USE DEF phoneVars
<1>1. PhoneTypes' /\ NumbersInv'
    BY DEF PhoneInv, PhoneTypes, NumbersInv, NumbersAreTheirs, NumbersOf, OwnedBy
<1>2. DirectoryInv'
    BY DEF PhoneInv, DirectoryInv, TextsAreAddressed, Dials, Holding, NumbersOf, OwnedBy, Online, PhoneOf
<1>3. UNCHANGED <<calls, sent, errand>>
    OBVIOUS
<1>4. CallsInv'
    BY <1>3 DEF PhoneInv, CallsInv, OneCallEach, ActiveCalls, Ends
<1>5. \A k : Whole(k) => Whole(k)'
  <2>. SUFFICES ASSUME NEW k, Whole(k) PROVE Whole(k)'
      OBVIOUS
  <2>1. Untouched(k)
      BY <1>3 DEF Untouched, About, Saying
  <2>. QED
      BY <2>1, UntouchedStays
<1>6. TalkInv'
    BY <1>3, <1>5 DEF PhoneInv, TalkInv
<1>. QED
    BY <1>1, <1>2, <1>4, <1>6 DEF PhoneInv

\* Every step of an agent keeps the invariant, and so does every change of the store.
LEMMA PhoneStep ==
    ASSUME PhoneInv, PhonesNext
    PROVE  PhoneInv'
<1>. USE DEF PhonesNext
<1>1. PhoneTypes /\ Honest /\ Talk /\ CallsInv
    BY DEF PhoneInv, Honest, Talk
<1>. SUFFICES PhoneTypes' /\ Honest' /\ Talk'
    BY DEF PhoneInv, Honest, Talk
<1>2. ASSUME NEW a \in Callers, NEW kind \in {"sms", "call"}, NEW n \in office.dials, Request(a, kind, n)
      PROVE  PhoneTypes' /\ Honest' /\ Talk'
    BY <1>1, <1>2, RequestTypes, RequestHonest, ToolsKeepTalk
<1>3. ASSUME NEW a \in Callers, Look(a) PROVE PhoneTypes' /\ Honest' /\ Talk'
    BY <1>1, <1>3, LookTypes, LookHonest, ToolsKeepTalk
<1>4. ASSUME NEW a \in Callers, Reach(a) PROVE PhoneTypes' /\ Honest' /\ Talk'
    BY <1>1, <1>4, ReachTypes, ReachHonest, ToolsKeepTalk
<1>5. ASSUME NEW a \in Callers, Text(a) PROVE PhoneTypes' /\ Honest' /\ Talk'
    BY <1>1, <1>5, TextTypes, TextHonest, ToolsKeepTalk
<1>6. ASSUME NEW a \in Callers, Dial(a) PROVE PhoneTypes' /\ Honest' /\ Talk'
    BY <1>1, <1>6, DialTypes, DialHonest, DialKeepsTalk
<1>7. ASSUME NEW a \in Callers, SpeakBegin(a) PROVE PhoneTypes' /\ Honest' /\ Talk'
    BY <1>1, <1>7, SpeakBeginTypes, SpeakBeginHonest, ToolsKeepTalk
<1>8. ASSUME NEW a \in Callers, SpeakEnd(a) PROVE PhoneTypes' /\ Honest' /\ Talk'
    BY <1>1, <1>8, SpeakEndTypes, SpeakEndHonest, SpeakEndKeepsTalk
<1>9. ASSUME NEW a \in Callers, HangUp(a) PROVE PhoneTypes' /\ Honest' /\ Talk'
    BY <1>1, <1>9, HangUpTypes, HangUpHonest, HangUpKeepsTalk
<1>10. ASSUME NEW k \in DOMAIN calls, CutOff(k) PROVE PhoneTypes' /\ Honest' /\ Talk'
    BY <1>1, <1>10, CutOffTypes, CutOffHonest, CutOffKeepsTalk
<1>11. ASSUME NEW i \in DOMAIN phones,
              SwitchPhone(i) \/ RemoveAsset(i) \/ \E a \in Callers : TransferAsset(i, a)
       PROVE  PhoneTypes' /\ Honest' /\ Talk'
  <2>1. PICK store \in Seq(Handset) : Change(store)
      BY <1>1, <1>11, Changes
  <2>. QED
      BY <1>1, <2>1, ChangeTypes, ChangeHonest, ChangeKeepsTalk
<1>. QED
    BY <1>2, <1>3, <1>4, <1>5, <1>6, <1>7, <1>8, <1>9, <1>10, <1>11

\* The invariant is more than what is asked of the phones.
LEMMA PhonesSayEnough ==
    ASSUME PhoneInv
    PROVE  PhonesAreHonest
<1>1. NumbersAreTheirs /\ TextsAreAddressed /\ OneCallEach
    BY DEF PhoneInv, NumbersInv, DirectoryInv, CallsInv
<1>2. \A k \in DOMAIN calls : calls[k].caller # calls[k].callee =>
          BeginsWithTheCall(k) /\ BetweenTheTwo(k) /\ TakesTurns(k) /\ EndsOnce(k)
    BY DEF PhoneInv, TalkInv, Whole
<1>. QED
    BY <1>1, <1>2 DEF PhonesAreHonest, TranscriptsAreWhole

\* However calls overlap, fail and are cut off, and whatever becomes of the phones: nobody is in
\* two calls, what the two of a call are told is whole and in turn, a number that is shown is one
\* its speaker has had, and a text goes to somebody who had the number and a phone that was on
\* while it was being prepared (PhonePlugin.ts:88-318, PhoneDirectory.ts:83-121).
THEOREM PhonesStayHonest == PhonesSpec => []PhonesAreHonest
<1>1. PhonesInit => PhoneInv
    BY PhonesBegin
<1>2. PhoneInv /\ [PhonesNext]_phoneVars => PhoneInv'
    BY PhoneStep, PhonesRest
<1>3. PhoneInv => PhonesAreHonest
    BY PhonesSayEnough
<1>. QED
    BY <1>1, <1>2, <1>3, PTL DEF PhonesSpec
=============================================================================
