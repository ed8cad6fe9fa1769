--------------------------- MODULE BatchExecutor ---------------------------
(***************************************************************************)
(* One call of BatchExecutor.execute or executeSettled                     *)
(* (src/engine/BatchExecutor.ts): N asynchronous tasks run under a          *)
(* concurrency limit.  The code between two awaits is atomic, so a step is  *)
(* the call itself or the continuation that runs when one task settles.     *)
(* The limit of Infinity, or one of at least N tasks, takes the code's fast *)
(* path, which is the same machine: the whole batch is launched at once.    *)
(***************************************************************************)
EXTENDS Integers, FiniteSets

CONSTANTS N,              \* number of tasks in the batch
          MaxConcurrent   \* the executor's limit (default 100)

ASSUME BatchAssumption == /\ N \in Nat
                          /\ MaxConcurrent \in Nat \ {0}

Tasks == 1..N

VARIABLES
    task,      \* task[i]: not launched, running, or how it settled
    results,   \* results[i]: what slot i of the result array holds
    nextIndex, \* number of tasks taken from the list
    running,   \* the semaphore's count
    completed, \* settled tasks counted so far
    promise,   \* the promise returned to the caller
    settled    \* the call made: TRUE for executeSettled, FALSE for execute

vars == <<task, results, nextIndex, running, completed, promise, settled>>

Outcomes == {"fulfilled", "rejected"}

TypeOK ==
    /\ task \in [Tasks -> {"waiting", "running"} \cup Outcomes]
    /\ results \in [Tasks -> {"empty"} \cup Outcomes]
    /\ nextIndex \in 0..N
    /\ running \in 0..N
    /\ completed \in 0..N
    /\ promise \in {"uncalled", "pending", "resolved", "rejected"}
    /\ settled \in BOOLEAN

Init ==
    /\ task = [i \in Tasks |-> "waiting"]
    /\ results = [i \in Tasks |-> "empty"]
    /\ nextIndex = 0
    /\ running = 0
    /\ completed = 0
    /\ promise = "uncalled"
    /\ settled \in BOOLEAN

Least(a, b) == IF a <= b THEN a ELSE b

\* Faults in that loop: the slots taken are not counted; no refill.
LaunchedUncounted(run) == Least(MaxConcurrent, N - nextIndex)
LaunchedAtCallOnly(run) ==
    IF promise = "uncalled" THEN Least(MaxConcurrent, N - nextIndex) ELSE 0

\* How many tasks runNext launches when `run` slots are taken: while there is
\* a free slot and a waiting task.
Launched(run) == Least(MaxConcurrent - run, N - nextIndex)

\* runNext, with `run` slots taken and the tasks in the states `t`.
RunNext(run, t) ==
    /\ nextIndex' = nextIndex + Launched(run)
    /\ running' = run + Launched(run)
    /\ task' = [i \in Tasks |->
                  IF i \in (nextIndex + 1)..(nextIndex + Launched(run))
                  THEN "running" ELSE t[i]]

\* The call: an empty batch resolves at once, any other launches its first tasks.
Call ==
    /\ promise = "uncalled"
    /\ promise' = IF N = 0 THEN "resolved" ELSE "pending"
    /\ RunNext(0, task)
    /\ UNCHANGED <<results, completed, settled>>

\* Fault: results kept in the order of arrival.
RecordByArrival(i, outcome) ==
    results' = [results EXCEPT ![completed + 1] = outcome]

Record(i, outcome) == results' = [results EXCEPT ![i] = outcome]

(***************************************************************************)
(* A task settles while the caller still waits and its outcome counts: the   *)
(* slot is written, and either the batch is complete or the freed slot is    *)
(* refilled.  executeSettled captures a rejection as an outcome like any.    *)
(***************************************************************************)
Complete(i, outcome) ==
    /\ promise = "pending"
    /\ task[i] = "running"
    /\ settled \/ outcome = "fulfilled"
    /\ Record(i, outcome)
    /\ completed' = completed + 1
    /\ UNCHANGED settled
    /\ IF completed + 1 = N
       THEN /\ promise' = "resolved"
            /\ running' = running - 1
            /\ task' = [task EXCEPT ![i] = outcome]
            /\ UNCHANGED nextIndex
       ELSE /\ promise' = "pending"
            /\ RunNext(running - 1, [task EXCEPT ![i] = outcome])

\* execute only: the first rejection rejects the whole batch.
Reject(i) ==
    /\ ~settled
    /\ promise = "pending"
    /\ task[i] = "running"
    /\ task' = [task EXCEPT ![i] = "rejected"]
    /\ promise' = "rejected"
    /\ UNCHANGED <<results, nextIndex, running, completed, settled>>

\* execute only: a task that outlives the rejection; its result is ignored.
Late(i, outcome) ==
    /\ promise = "rejected"
    /\ task[i] = "running"
    /\ task' = [task EXCEPT ![i] = outcome]
    /\ UNCHANGED <<results, nextIndex, running, completed, promise, settled>>

Next ==
    \/ Call
    \/ \E i \in Tasks, o \in Outcomes : Complete(i, o)
    \/ \E i \in Tasks : Reject(i)
    \/ \E i \in Tasks, o \in Outcomes : Late(i, o)

\* A task settles in the end: every agent tick awaits calls that return.
Fairness ==
    /\ WF_vars(Call)
    /\ \A i \in Tasks :
         WF_vars(Reject(i) \/ \E o \in Outcomes : Complete(i, o) \/ Late(i, o))

Spec == Init /\ [][Next]_vars /\ Fairness

-----------------------------------------------------------------------------
InFlight == {i \in Tasks : task[i] = "running"}

\* The limit holds for the tasks really running, not only for the counter: a
\* task launched while others of its batch are suspended never makes too many.
ConcurrencyBound == Cardinality(InFlight) <= MaxConcurrent

\* While the caller waits the executor is never idle below its limit: a slot
\* freed by a task that settled, failed ones included, is refilled at once.
NoIdleSlot ==
    promise = "pending" =>
        Cardinality(InFlight) = Least(MaxConcurrent, N - completed)

\* A batch resolves only when every slot holds the outcome of its own task;
\* under execute, only when every task was fulfilled.
ResolvedIsComplete ==
    promise = "resolved" =>
        \A i \in Tasks : /\ results[i] = task[i]
                         /\ results[i] \in IF settled THEN Outcomes
                                           ELSE {"fulfilled"}

\* Once the caller has its answer no further task of the batch is launched: a
\* failed execute leaves at most the tasks already in flight running.
NoLaunchAfterSettlement ==
    [][(promise \in {"resolved", "rejected"}) => (nextIndex' = nextIndex)]_vars

\* The three of them: the limit is kept, used up, and the answer is complete.
BatchIsSafe == ConcurrencyBound /\ NoIdleSlot /\ ResolvedIsComplete

\* The caller is always answered, whatever tasks fail and in whatever order;
\* executeSettled never answers with a rejection.
CallerIsAnswered ==
    <>(promise = "resolved" \/ (~settled /\ promise = "rejected"))
=============================================================================
