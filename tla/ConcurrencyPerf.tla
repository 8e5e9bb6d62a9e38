-------------------------- MODULE ConcurrencyPerf --------------------------
(***************************************************************************)
(* main() of 09_performance_and_profiling/09_concurrency_perf_patterns:   *)
(* for each task count, unbounded_threads (one thread per simulate_work,  *)
(* then join them in order) and thread_pool (ThreadPoolExecutor.map over  *)
(* `workers` threads); then the queue backpressure demo: one producer     *)
(* putting Items values into queue.Queue(maxsize=MaxSize) and consumers   *)
(* that get with timeout=0.1 and stop at the first queue.Empty.           *)
(*                                                                         *)
(* Time is not modelled: a consumer whose get finds the queue empty may   *)
(* time out, since nothing bounds how long the producer is descheduled.   *)
(* `consumed += 1` on a shared nonlocal is a load and a store with no     *)
(* lock, two steps another consumer may run between.                      *)
(***************************************************************************)
EXTENDS Naturals, Sequences, FiniteSets

CONSTANTS
    TaskCounts,  \* task_counts, walked in increasing order as the list is
    Workers,     \* the pool's max_workers (num_cpu)
    Items,       \* range(50): the values the producer puts
    MaxSize,     \* queue.Queue(maxsize=10)
    Consumers    \* the two consumer threads

ASSUME TaskCounts \subseteq Nat \ {0} /\ TaskCounts /= {} /\ Workers > 0 /\ MaxSize > 0

VARIABLES
    mpc,         \* main: "unbounded", "ujoin", "pool", "bpstart", "bpjoin", "done"
    tasks,       \* the task count of the current round
    uStarted,    \* threads unbounded_threads has started
    uDone,       \* task ids whose simulate_work returned
    uJoined,     \* threads joined so far, in list order
    pTaken,      \* tasks the pool's workers have taken, in submission order
    pRunning,    \* task ids a pool worker is running
    pDone,       \* task ids whose future is done
    pCollected,  \* results list(pool.map(...)) has consumed, in order
    q,           \* the queue's contents
    unfinished,  \* the queue's unfinished_tasks
    nextItem,    \* the producer's loop index i
    produced,
    consumed,
    ppc,         \* producer: "new", "put" or "exit"
    cpc,         \* cpc[c]: "new", "get", "load", "store", "done_task", "exit"
    ctmp,        \* the value of consumed that consumer c loaded
    joined       \* consumer threads main has joined

vars == <<mpc, tasks, uStarted, uDone, uJoined, pTaken, pRunning, pDone,
          pCollected, q, unfinished, nextItem, produced, consumed, ppc, cpc,
          ctmp, joined>>
perfVars == <<tasks, uStarted, uDone, uJoined, pTaken, pRunning, pDone, pCollected>>
bpVars == <<q, unfinished, nextItem, produced, consumed, ppc, cpc, ctmp, joined>>

\* The round after tasks, if any.
Later == {n \in TaskCounts : n > tasks}

\* Every task id of every round.
TaskIds == UNION {0..(n - 1) : n \in TaskCounts}

Init ==
    /\ mpc = "unbounded" /\ tasks = CHOOSE n \in TaskCounts : \A m \in TaskCounts : n <= m
    /\ uStarted = 0 /\ uDone = {} /\ uJoined = 0
    /\ pTaken = 0 /\ pRunning = {} /\ pDone = {} /\ pCollected = 0
    /\ q = <<>> /\ unfinished = 0 /\ nextItem = 0
    /\ produced = 0 /\ consumed = 0
    /\ ppc = "new" /\ cpc = [c \in Consumers |-> "new"]
    /\ ctmp = [c \in Consumers |-> 0] /\ joined = {}

(***************************************************************************)
(* unbounded_threads(tasks) and thread_pool(tasks, num_cpu).              *)
(***************************************************************************)

\* `t = threading.Thread(target=simulate_work, args=(i,)); t.start()`.
StartThread ==
    /\ mpc = "unbounded"
    /\ uStarted' = uStarted + 1
    /\ mpc' = IF uStarted + 1 = tasks THEN "ujoin" ELSE "unbounded"
    /\ UNCHANGED <<tasks, uDone, uJoined, pTaken, pRunning, pDone, pCollected, bpVars>>

\* A started thread runs simulate_work(i) to its return.
ThreadWork(i) ==
    /\ i < uStarted
    /\ i \notin uDone
    /\ uDone' = uDone \cup {i}
    /\ UNCHANGED <<mpc, tasks, uStarted, uJoined, pTaken, pRunning, pDone, pCollected, bpVars>>

\* `for t in threads: t.join()`: the next thread in list order has ended.
JoinThread ==
    /\ mpc = "ujoin"
    /\ uJoined \in uDone
    /\ uJoined' = uJoined + 1
    /\ mpc' = IF uJoined + 1 = tasks THEN "pool" ELSE "ujoin"
    /\ UNCHANGED <<tasks, uStarted, uDone, pTaken, pRunning, pDone, pCollected, bpVars>>

\* pool.map submits every task up front; a worker that is idle (fewer
\* than max_workers tasks running) takes the next one.
PoolTake ==
    /\ mpc = "pool"
    /\ pTaken < tasks
    /\ Cardinality(pRunning) < Workers
    /\ pTaken' = pTaken + 1
    /\ pRunning' = pRunning \cup {pTaken}
    /\ UNCHANGED <<mpc, tasks, uStarted, uDone, uJoined, pDone, pCollected, bpVars>>

\* A worker's simulate_work(i) returns and its future completes.
PoolWork(i) ==
    /\ i \in pRunning
    /\ pRunning' = pRunning \ {i}
    /\ pDone' = pDone \cup {i}
    /\ UNCHANGED <<mpc, tasks, uStarted, uDone, uJoined, pTaken, pCollected, bpVars>>

\* list(...) takes the results in order; after the last one the `with`
\* block's shutdown(wait=True) finds every worker idle, and main moves on
\* to the next task count or, after the last, to the backpressure demo.
PoolCollect ==
    /\ mpc = "pool"
    /\ pCollected \in pDone
    /\ IF pCollected + 1 < tasks
         THEN /\ pCollected' = pCollected + 1
              /\ UNCHANGED <<mpc, tasks, uStarted, uDone, uJoined, pTaken, pRunning, pDone>>
         ELSE /\ mpc' = IF Later /= {} THEN "unbounded" ELSE "bpstart"
              /\ tasks' = IF Later /= {} THEN CHOOSE n \in Later : \A m \in Later : n <= m ELSE tasks
              /\ uStarted' = 0 /\ uDone' = {} /\ uJoined' = 0
              /\ pTaken' = 0 /\ pRunning' = {} /\ pDone' = {} /\ pCollected' = 0
    /\ UNCHANGED bpVars

(***************************************************************************)
(* The queue backpressure demo.                                            *)
(***************************************************************************)

\* `for t in threads: t.start()`: the producer first, then the consumers.
StartBp ==
    /\ mpc = "bpstart"
    /\ IF ppc = "new"
         THEN /\ ppc' = "put" /\ UNCHANGED cpc
         ELSE \E c \in Consumers :
                /\ cpc[c] = "new"
                /\ cpc' = [cpc EXCEPT ![c] = "get"]
                /\ UNCHANGED ppc
    /\ mpc' = IF \A c \in Consumers : cpc'[c] /= "new" THEN "bpjoin" ELSE "bpstart"
    /\ UNCHANGED <<perfVars, q, unfinished, nextItem, produced, consumed, ctmp, joined>>

\* `q.put(i); produced += 1`: put blocks while the queue holds maxsize.
Put ==
    /\ ppc = "put"
    /\ Len(q) < MaxSize
    /\ q' = Append(q, nextItem)
    /\ unfinished' = unfinished + 1
    /\ produced' = produced + 1
    /\ nextItem' = nextItem + 1
    /\ ppc' = IF nextItem + 1 < Items THEN "put" ELSE "exit"
    /\ UNCHANGED <<mpc, perfVars, consumed, cpc, ctmp, joined>>

\* `q.get(timeout=0.1)` returns the head of a non-empty queue.
Get(c) ==
    /\ cpc[c] = "get"
    /\ q /= <<>>
    /\ q' = Tail(q)
    /\ cpc' = [cpc EXCEPT ![c] = "load"]
    /\ UNCHANGED <<mpc, perfVars, unfinished, nextItem, produced, consumed, ppc, ctmp, joined>>

\* The get on an empty queue raises queue.Empty and the loop breaks.
Timeout(c) ==
    /\ cpc[c] = "get"
    /\ q = <<>>
    /\ cpc' = [cpc EXCEPT ![c] = "exit"]
    /\ UNCHANGED <<mpc, perfVars, q, unfinished, nextItem, produced, consumed, ppc, ctmp, joined>>

\* `consumed += 1`, first half: load the shared counter.
Load(c) ==
    /\ cpc[c] = "load"
    /\ ctmp' = [ctmp EXCEPT ![c] = consumed]
    /\ cpc' = [cpc EXCEPT ![c] = "store"]
    /\ UNCHANGED <<mpc, perfVars, q, unfinished, nextItem, produced, consumed, ppc, joined>>

\* Second half: store the loaded value plus one.
Store(c) ==
    /\ cpc[c] = "store"
    /\ consumed' = ctmp[c] + 1
    /\ cpc' = [cpc EXCEPT ![c] = "done_task"]
    /\ UNCHANGED <<mpc, perfVars, q, unfinished, nextItem, produced, ppc, ctmp, joined>>

\* `time.sleep(0.01); q.task_done()`, and back to the get.
TaskDone(c) ==
    /\ cpc[c] = "done_task"
    /\ unfinished' = unfinished - 1
    /\ cpc' = [cpc EXCEPT ![c] = "get"]
    /\ UNCHANGED <<mpc, perfVars, q, nextItem, produced, consumed, ppc, ctmp, joined>>

\* `for t in threads: t.join()`: the producer first, then each consumer;
\* after the last join main prints produced and consumed.
JoinBp ==
    /\ mpc = "bpjoin"
    /\ ppc = "exit"
    /\ \E c \in Consumers \ joined :
          /\ cpc[c] = "exit"
          /\ joined' = joined \cup {c}
          /\ mpc' = IF joined' = Consumers THEN "done" ELSE "bpjoin"
    /\ UNCHANGED <<perfVars, q, unfinished, nextItem, produced, consumed, ppc, cpc, ctmp>>

\* main() has returned.
Terminated ==
    /\ mpc = "done"
    /\ UNCHANGED vars

\* The program hangs: main waits in the producer's join while the producer
\* blocks on a full queue that no consumer will ever get from again.
Hung ==
    /\ mpc = "bpjoin"
    /\ ppc = "put"
    /\ Len(q) = MaxSize
    /\ \A c \in Consumers : cpc[c] = "exit"
    /\ UNCHANGED vars

Next ==
    \/ StartThread \/ JoinThread \/ PoolTake \/ PoolCollect
    \/ \E i \in 0..(uStarted - 1) : ThreadWork(i)
    \/ \E i \in pRunning : PoolWork(i)
    \/ StartBp \/ Put \/ JoinBp \/ Terminated \/ Hung
    \/ \E c \in Consumers : Get(c) \/ Timeout(c) \/ Load(c) \/ Store(c) \/ TaskDone(c)

\* Every thread that can run is eventually scheduled.
Fairness ==
    /\ WF_vars(StartThread) /\ WF_vars(JoinThread) /\ WF_vars(PoolTake)
    /\ WF_vars(PoolCollect) /\ WF_vars(StartBp) /\ WF_vars(Put) /\ WF_vars(JoinBp)
    /\ \A i \in TaskIds : WF_vars(ThreadWork(i)) /\ WF_vars(PoolWork(i))
    /\ \A c \in Consumers :
          /\ WF_vars(Get(c)) /\ WF_vars(Timeout(c)) /\ WF_vars(Load(c))
          /\ WF_vars(Store(c)) /\ WF_vars(TaskDone(c))

Spec == Init /\ [][Next]_vars /\ Fairness

\* Properties

TypeOK ==
    /\ mpc \in {"unbounded", "ujoin", "pool", "bpstart", "bpjoin", "done"}
    /\ uJoined <= uStarted /\ uStarted <= tasks
    /\ pRunning \cup pDone \subseteq 0..(pTaken - 1)
    /\ Cardinality(pRunning) <= Workers
    /\ Len(q) <= MaxSize
    /\ produced = nextItem /\ produced <= Items
    /\ unfinished = Len(q) + Cardinality({c \in Consumers : cpc[c] \in {"load", "store", "done_task"}})
    /\ cpc \in [Consumers -> {"new", "get", "load", "store", "done_task", "exit"}]
    /\ joined \subseteq Consumers

\* "Produced: 50, Consumed: 50": main eventually prints, and every value the
\* producer put has been counted by a consumer.
AllConsumed == <>(mpc = "done" /\ consumed = Items)
=============================================================================
