-------------------------- MODULE BufferedChannels --------------------------
(***************************************************************************)
(* 06_concurrency/03_buffered_channels/main.py, its four examples in the  *)
(* order main() runs them:                                                *)
(*   1. three put_nowait()s into a queue.Queue(maxsize=3), three get()s;  *)
(*   2. a producer thread putting 1..5 and a SENTINEL into a              *)
(*      queue.Queue(maxsize=5), main getting until the SENTINEL;          *)
(*   3. a do_work thread putting True into a queue.Queue(maxsize=1) that  *)
(*      main get()s;                                                      *)
(*   4. five worker threads that each run between sem.acquire() and      *)
(*      sem.release() of a threading.Semaphore(2), joined by main.       *)
(* put() blocks on a full queue, get() on an empty one.                   *)
(***************************************************************************)
EXTENDS Naturals, Sequences, FiniteSets

CONSTANTS
    Jobs,        \* the range(1, 6) of the producer
    JobsSize,    \* maxsize of `jobs`
    Workers,     \* the worker threads of example 4
    SemValue,    \* the value of threading.Semaphore(2)
    Sentinel     \* SENTINEL = None

VARIABLES
    mpc,        \* main: "ex1", "ex2", "ex3", "ex4", "join" or "done"
    got,        \* the values main has taken out of the current queue
    jobs,       \* the `jobs` queue
    ppc,        \* the producer: 0 before it starts, then the next value to put,
                \* Jobs + 1 for the SENTINEL, Jobs + 2 once it has ended
    done,       \* the `done` queue of example 3
    dpc,        \* do_work: "none", "run" or "end"
    sem,        \* the semaphore's counter
    wpc         \* wpc[w]: "none", "acquire", "run" or "end"

vars == <<mpc, got, jobs, ppc, done, dpc, sem, wpc>>

Init ==
    /\ mpc = "ex1"
    /\ got = <<>>
    /\ jobs = <<>>
    /\ ppc = 0
    /\ done = <<>>
    /\ dpc = "none"
    /\ sem = SemValue
    /\ wpc = [w \in Workers |-> "none"]

\* Example 1: q.put_nowait("a"), ("b"), ("c") into the empty queue of
\* maxsize 3, none of which meets queue.Full, and the three get()s that
\* empty it again; then the producer thread of example 2 is started.
Example1 ==
    /\ mpc = "ex1"
    /\ ppc' = 1
    /\ mpc' = "ex2"
    /\ UNCHANGED <<got, jobs, done, dpc, sem, wpc>>

\* Mutant: the producer ends without putting the SENTINEL.
ProduceNoSentinel ==
    /\ ppc \in 1..Jobs + 1
    /\ Len(jobs) < JobsSize
    /\ jobs' = IF ppc > Jobs THEN jobs ELSE Append(jobs, ppc)
    /\ ppc' = ppc + 1
    /\ UNCHANGED <<mpc, got, done, dpc, sem, wpc>>

\* producer(): jobs.put(i) for i in 1..5, then jobs.put(SENTINEL); a put
\* blocks while the queue holds maxsize items.
Produce ==
    /\ ppc \in 1..Jobs + 1
    /\ Len(jobs) < JobsSize
    /\ jobs' = Append(jobs, IF ppc > Jobs THEN Sentinel ELSE ppc)
    /\ ppc' = ppc + 1
    /\ UNCHANGED <<mpc, got, done, dpc, sem, wpc>>

Last(s) == s[Len(s)]

\* Mutant: a LIFO queue, the get taking the newest item.
GetNewest ==
    /\ got' = IF Last(jobs) = Sentinel THEN got ELSE Append(got, Last(jobs))
    /\ jobs' = SubSeq(jobs, 1, Len(jobs) - 1)
    /\ mpc' = IF Last(jobs) = Sentinel THEN "ex3" ELSE "ex2"

\* jobs.get() takes the oldest item.
GetOldest ==
    /\ got' = IF Head(jobs) = Sentinel THEN got ELSE Append(got, Head(jobs))
    /\ jobs' = Tail(jobs)
    /\ mpc' = IF Head(jobs) = Sentinel THEN "ex3" ELSE "ex2"

\* Example 2: `j = jobs.get()`, a break on the SENTINEL; the break also
\* starts example 3's do_work thread.
Consume ==
    /\ mpc = "ex2"
    /\ jobs # <<>>
    /\ GetOldest
    /\ dpc' = IF mpc' = "ex3" THEN "run" ELSE dpc
    /\ UNCHANGED <<ppc, done, sem, wpc>>

\* do_work(): done.put(True).
DoWork ==
    /\ dpc = "run"
    /\ Len(done) < 1
    /\ done' = Append(done, TRUE)
    /\ dpc' = "end"
    /\ UNCHANGED <<mpc, got, jobs, ppc, sem, wpc>>

\* Example 3: done.get(); then example 4 starts the five workers.
ReceiveDone ==
    /\ mpc = "ex3"
    /\ done # <<>>
    /\ done' = Tail(done)
    /\ wpc' = [w \in Workers |-> "acquire"]
    /\ mpc' = "join"
    /\ UNCHANGED <<got, jobs, ppc, dpc, sem>>

\* sem.acquire(): blocks while the counter is 0.
Acquire(w) ==
    /\ wpc[w] = "acquire"
    /\ sem > 0
    /\ sem' = sem - 1
    /\ wpc' = [wpc EXCEPT ![w] = "run"]
    /\ UNCHANGED <<mpc, got, jobs, ppc, done, dpc>>

\* The print, then sem.release() in the finally.
Release(w) ==
    /\ wpc[w] = "run"
    /\ sem' = sem + 1
    /\ wpc' = [wpc EXCEPT ![w] = "end"]
    /\ UNCHANGED <<mpc, got, jobs, ppc, done, dpc>>

\* `for t in threads: t.join()`.
JoinWorkers ==
    /\ mpc = "join"
    /\ \A w \in Workers : wpc[w] = "end"
    /\ mpc' = "done"
    /\ UNCHANGED <<got, jobs, ppc, done, dpc, sem, wpc>>

Terminated ==
    /\ mpc = "done"
    /\ UNCHANGED vars

Next ==
    \/ Example1 \/ Produce \/ Consume \/ DoWork \/ ReceiveDone \/ JoinWorkers
    \/ Terminated
    \/ \E w \in Workers : Acquire(w) \/ Release(w)

\* Every thread that can run is eventually scheduled.
Fairness ==
    /\ WF_vars(Example1) /\ WF_vars(Produce) /\ WF_vars(Consume)
    /\ WF_vars(DoWork) /\ WF_vars(ReceiveDone) /\ WF_vars(JoinWorkers)
    /\ \A w \in Workers : WF_vars(Acquire(w)) /\ WF_vars(Release(w))

Spec == Init /\ [][Next]_vars /\ Fairness

\* Properties

TypeOK ==
    /\ mpc \in {"ex1", "ex2", "ex3", "join", "done"}
    /\ got \in Seq(1..Jobs)
    /\ Len(jobs) <= JobsSize
    /\ ppc \in 0..Jobs + 2
    /\ Len(done) <= 1
    /\ dpc \in {"none", "run", "end"}
    /\ sem \in 0..SemValue
    /\ wpc \in [Workers -> {"none", "acquire", "run", "end"}]

\* Example 2: main consumes exactly 1, 2, .., 5 in the producer's order,
\* whatever the interleaving of the producer's blocking puts and main's
\* gets, and has them all once it breaks on the SENTINEL.
ConsumedInOrder ==
    /\ got = [i \in 1..Len(got) |-> i]
    /\ mpc \notin {"ex1", "ex2"} => Len(got) = Jobs

\* main() returns: the SENTINEL ends example 2, do_work's put ends
\* example 3, and the semaphore lets every worker through to the joins.
MainReturns == <>(mpc = "done")
=============================================================================
