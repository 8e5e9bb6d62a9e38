------------------------------ MODULE JobQueue ------------------------------
(***************************************************************************)
(* The job queue of 11_system_design_in_go/03_job_queue_worker_mini/     *)
(* main.py: main() starts the worker threads, puts NumJobs jobs into a    *)
(* queue.Queue(maxsize=QueueSize), waits in job_queue.join(), sets the    *)
(* shutdown Event and joins the threads. A worker loops on               *)
(* get(timeout=0.5); on queue.Empty it leaves when the event is set, and *)
(* after each job it calls task_done().                                   *)
(* queue.Queue keeps unfinished_tasks: put() adds one, task_done() takes *)
(* one away, join() returns when it is zero.                              *)
(***************************************************************************)
EXTENDS Naturals, Sequences, FiniteSets

CONSTANTS Workers, NumJobs, QueueSize

VARIABLES
    queue,       \* the items of job_queue, oldest first
    unfinished,  \* job_queue.unfinished_tasks
    shutdown,    \* shutdown_event.is_set()
    next,        \* the loop variable i of the producer loop
    mainPc,      \* where main() is
    wpc,         \* wpc[w]: where worker w is
    job,         \* job[w]: the job worker w holds, 0 for none
    completed    \* the jobs whose "completed" line was printed

vars == <<queue, unfinished, shutdown, next, mainPc, wpc, job, completed>>

Jobs == 1..NumJobs

Init ==
    /\ queue = <<>>
    /\ unfinished = 0
    /\ shutdown = FALSE
    /\ next = 1
    /\ mainPc = "produce"
    /\ wpc = [w \in Workers |-> "get"]
    /\ job = [w \in Workers |-> 0]
    /\ completed = {}

\* Mutant: a put that never blocks (the maxsize bound lost).
PutUnbounded ==
    /\ mainPc = "produce"
    /\ queue' = Append(queue, next)
    /\ unfinished' = unfinished + 1
    /\ next' = next + 1
    /\ mainPc' = IF next = NumJobs THEN "join" ELSE "produce"
    /\ UNCHANGED <<shutdown, wpc, job, completed>>

\* job_queue.put(job): blocks while the queue is full; the loop ends after
\* job NumJobs.
Put ==
    /\ mainPc = "produce"
    /\ Len(queue) < QueueSize
    /\ queue' = Append(queue, next)
    /\ unfinished' = unfinished + 1
    /\ next' = next + 1
    /\ mainPc' = IF next = NumJobs THEN "join" ELSE "produce"
    /\ UNCHANGED <<shutdown, wpc, job, completed>>

\* Mutant: waiting for an empty queue instead of join().
JoinQueueEmpty ==
    /\ mainPc = "join"
    /\ queue = <<>>
    /\ mainPc' = "set"
    /\ UNCHANGED <<queue, unfinished, shutdown, next, wpc, job, completed>>

\* job_queue.join(): returns once unfinished_tasks is zero.
Join ==
    /\ mainPc = "join"
    /\ unfinished = 0
    /\ mainPc' = "set"
    /\ UNCHANGED <<queue, unfinished, shutdown, next, wpc, job, completed>>

\* shutdown_event.set()
SetShutdown ==
    /\ mainPc = "set"
    /\ shutdown' = TRUE
    /\ mainPc' = "joinThreads"
    /\ UNCHANGED <<queue, unfinished, next, wpc, job, completed>>

\* for t in threads: t.join()
JoinThreads ==
    /\ mainPc = "joinThreads"
    /\ \A w \in Workers : wpc[w] = "exited"
    /\ mainPc' = "done"
    /\ UNCHANGED <<queue, unfinished, shutdown, next, wpc, job, completed>>

\* job_queue.get(timeout=0.5) returning an item.
WorkerGet(w) ==
    /\ wpc[w] = "get"
    /\ queue # <<>>
    /\ job' = [job EXCEPT ![w] = Head(queue)]
    /\ queue' = Tail(queue)
    /\ wpc' = [wpc EXCEPT ![w] = "work"]
    /\ UNCHANGED <<unfinished, shutdown, next, mainPc, completed>>

\* job_queue.get(timeout=0.5) raising queue.Empty: the queue stayed empty
\* for the whole timeout.
WorkerTimeout(w) ==
    /\ wpc[w] = "get"
    /\ queue = <<>>
    /\ wpc' = [wpc EXCEPT ![w] = "empty"]
    /\ UNCHANGED <<queue, unfinished, shutdown, next, mainPc, job, completed>>

\* Mutant: the except branch without its break.
WorkerCheckNoBreak(w) ==
    /\ wpc[w] = "empty"
    /\ wpc' = [wpc EXCEPT ![w] = "get"]
    /\ UNCHANGED <<queue, unfinished, shutdown, next, mainPc, job, completed>>

\* The except branch: break when the event is set, else continue.
WorkerCheck(w) ==
    /\ wpc[w] = "empty"
    /\ wpc' = [wpc EXCEPT ![w] = IF shutdown THEN "exited" ELSE "get"]
    /\ UNCHANGED <<queue, unfinished, shutdown, next, mainPc, job, completed>>

\* The job is processed (sleep, print "completed"), then task_done().
WorkerFinish(w) ==
    /\ wpc[w] = "work"
    /\ completed' = completed \cup {job[w]}
    /\ unfinished' = unfinished - 1
    /\ job' = [job EXCEPT ![w] = 0]
    /\ wpc' = [wpc EXCEPT ![w] = "get"]
    /\ UNCHANGED <<queue, shutdown, next, mainPc>>

\* The program has exited.
Terminated ==
    /\ mainPc = "done"
    /\ UNCHANGED vars

Next ==
    \/ Put \/ Join \/ SetShutdown \/ JoinThreads
    \/ \E w \in Workers :
          WorkerGet(w) \/ WorkerTimeout(w) \/ WorkerCheck(w) \/ WorkerFinish(w)
    \/ Terminated

\* Every thread keeps being scheduled while it can run.
Fairness ==
    /\ WF_vars(Put) /\ WF_vars(Join) /\ WF_vars(SetShutdown) /\ WF_vars(JoinThreads)
    /\ \A w \in Workers :
          /\ WF_vars(WorkerGet(w)) /\ WF_vars(WorkerTimeout(w))
          /\ WF_vars(WorkerCheck(w)) /\ WF_vars(WorkerFinish(w))

Spec == Init /\ [][Next]_vars /\ Fairness

\* Properties

TypeOK ==
    /\ queue \in Seq(Jobs) /\ Len(queue) <= QueueSize
    /\ unfinished \in 0..NumJobs
    /\ shutdown \in BOOLEAN
    /\ next \in 1..(NumJobs + 1)
    /\ mainPc \in {"produce", "join", "set", "joinThreads", "done"}
    /\ wpc \in [Workers -> {"get", "empty", "work", "exited"}]
    /\ job \in [Workers -> Jobs \cup {0}]
    /\ completed \subseteq Jobs

\* When job_queue.join() returns in main(), every job has been processed,
\* the ones still inside a worker included; so "all jobs processed" is
\* printed truthfully and the shutdown signal comes after the last job.
JoinMeansAllDone ==
    mainPc \in {"set", "joinThreads", "done"} => completed = Jobs

\* The program ends: every job is completed, every worker leaves its loop
\* after the shutdown event, and main() returns from the thread joins.
AllJobsDoneAndWorkersExit ==
    <>(mainPc = "done" /\ completed = Jobs)
=============================================================================
