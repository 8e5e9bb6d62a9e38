----------------------------- MODULE WorkerPool -----------------------------
(***************************************************************************)
(* The manual worker pool of 06_concurrency/09_worker_pools/main.py        *)
(* (approach 2): main() starts the worker threads, puts jobs (j, j) for    *)
(* j in 1..NumJobs into an unbounded queue.Queue, then one SENTINEL per   *)
(* worker, joins the threads and finally collects the results queue      *)
(* with `while not results.empty(): results.get()`. A worker loops on    *)
(* jobs.get(), leaves on SENTINEL and puts (jid, val * val) otherwise.   *)
(***************************************************************************)
EXTENDS Naturals, Sequences, FiniteSets

CONSTANTS Workers, NumJobs

SENTINEL == 0   \* None; job ids start at 1

VARIABLES
    jobs,       \* the jobs queue
    results,    \* the results queue
    next,       \* loop variable of "Send jobs"
    sentinels,  \* how many SENTINELs main() has put
    mainPc,     \* where main() is
    wpc,        \* wpc[w]: where worker w is
    item,       \* item[w]: the (jid, val) worker w is processing
    collected   \* what "Collect results" has taken from results

vars == <<jobs, results, next, sentinels, mainPc, wpc, item, collected>>

Jobs == 1..NumJobs

Init ==
    /\ jobs = <<>>
    /\ results = <<>>
    /\ next = 1
    /\ sentinels = 0
    /\ mainPc = "jobs"
    /\ wpc = [w \in Workers |-> "get"]
    /\ item = [w \in Workers |-> <<0, 0>>]
    /\ collected = {}

\* Mutant: one job too many, range(1, num_jobs + 2).
PutJobPastEnd ==
    /\ mainPc = "jobs"
    /\ jobs' = Append(jobs, <<next, next>>)
    /\ next' = next + 1
    /\ mainPc' = IF next = NumJobs + 1 THEN "sentinels" ELSE "jobs"
    /\ UNCHANGED <<results, sentinels, wpc, item, collected>>

\* for j in range(1, num_jobs + 1): jobs.put((j, j))
PutJob ==
    /\ mainPc = "jobs"
    /\ jobs' = Append(jobs, <<next, next>>)
    /\ next' = next + 1
    /\ mainPc' = IF next = NumJobs THEN "sentinels" ELSE "jobs"
    /\ UNCHANGED <<results, sentinels, wpc, item, collected>>

\* Mutant: one SENTINEL fewer than there are workers.
PutSentinelOneShort ==
    /\ mainPc = "sentinels"
    /\ jobs' = Append(jobs, <<SENTINEL, SENTINEL>>)
    /\ sentinels' = sentinels + 1
    /\ mainPc' = IF sentinels + 1 >= Cardinality(Workers) - 1 THEN "join" ELSE "sentinels"
    /\ UNCHANGED <<results, next, wpc, item, collected>>

\* for _ in range(num_workers): jobs.put(SENTINEL)
PutSentinel ==
    /\ mainPc = "sentinels"
    /\ jobs' = Append(jobs, <<SENTINEL, SENTINEL>>)
    /\ sentinels' = sentinels + 1
    /\ mainPc' = IF sentinels + 1 = Cardinality(Workers) THEN "join" ELSE "sentinels"
    /\ UNCHANGED <<results, next, wpc, item, collected>>

\* Mutant: collecting without joining the threads first.
JoinThreadsSkipped ==
    /\ mainPc = "join"
    /\ mainPc' = "collect"
    /\ UNCHANGED <<jobs, results, next, sentinels, wpc, item, collected>>

\* for t in threads: t.join()
JoinThreads ==
    /\ mainPc = "join"
    /\ \A w \in Workers : wpc[w] = "exited"
    /\ mainPc' = "collect"
    /\ UNCHANGED <<jobs, results, next, sentinels, wpc, item, collected>>

\* while not results.empty(): jid, output = results.get()
Collect ==
    /\ mainPc = "collect"
    /\ \/ /\ results # <<>>
          /\ collected' = collected \cup {Head(results)}
          /\ results' = Tail(results)
          /\ UNCHANGED mainPc
       \/ /\ results = <<>>
          /\ mainPc' = "done"
          /\ UNCHANGED <<results, collected>>
    /\ UNCHANGED <<jobs, next, sentinels, wpc, item>>

\* item = jobs.get(); if item is SENTINEL: break
WorkerGet(w) ==
    /\ wpc[w] = "get"
    /\ jobs # <<>>
    /\ jobs' = Tail(jobs)
    /\ IF Head(jobs)[1] = SENTINEL
       THEN /\ wpc' = [wpc EXCEPT ![w] = "exited"]
            /\ UNCHANGED item
       ELSE /\ wpc' = [wpc EXCEPT ![w] = "work"]
            /\ item' = [item EXCEPT ![w] = Head(jobs)]
    /\ UNCHANGED <<results, next, sentinels, mainPc, collected>>

\* time.sleep(0.05); results.put((jid, val * val))
WorkerPut(w) ==
    /\ wpc[w] = "work"
    /\ results' = Append(results, <<item[w][1], item[w][2] * item[w][2]>>)
    /\ wpc' = [wpc EXCEPT ![w] = "get"]
    /\ UNCHANGED <<jobs, next, sentinels, mainPc, item, collected>>

Terminated ==
    /\ mainPc = "done"
    /\ UNCHANGED vars

Next ==
    \/ PutJob \/ PutSentinel \/ JoinThreads \/ Collect
    \/ \E w \in Workers : WorkerGet(w) \/ WorkerPut(w)
    \/ Terminated

\* Every thread that can run is eventually scheduled.
Fairness ==
    /\ WF_vars(PutJob) /\ WF_vars(PutSentinel)
    /\ WF_vars(JoinThreads) /\ WF_vars(Collect)
    /\ \A w \in Workers : WF_vars(WorkerGet(w)) /\ WF_vars(WorkerPut(w))

Spec == Init /\ [][Next]_vars /\ Fairness

\* Properties

TypeOK ==
    /\ \A i \in DOMAIN jobs : jobs[i] \in ({<<j, j>> : j \in Jobs} \cup {<<SENTINEL, SENTINEL>>})
    /\ \A i \in DOMAIN results : results[i] \in {<<j, j * j>> : j \in Jobs}
    /\ mainPc \in {"jobs", "sentinels", "join", "collect", "done"}
    /\ wpc \in [Workers -> {"get", "work", "exited"}]

\* When main() prints "all done", the results it collected are the square
\* of every job: no result is still on its way into results when the
\* `results.empty()` loop ends.
AllResultsCollected ==
    mainPc = "done" => collected = {<<j, j * j>> : j \in Jobs}

\* Every worker leaves its loop on a SENTINEL and main() finishes.
PoolTerminates ==
    <>(mainPc = "done" /\ \A w \in Workers : wpc[w] = "exited")
=============================================================================
