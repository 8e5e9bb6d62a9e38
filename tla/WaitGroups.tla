----------------------------- MODULE WaitGroups -----------------------------
(***************************************************************************)
(* 06_concurrency/07_waitgroups/main.py. Example 1 starts Workers threads *)
(* running worker (print, sleep, print) and joins them in order. Example *)
(* 2 starts Workers threads, each putting its n * n on the results queue, *)
(* joins them all, then prints `while not results.empty()`. Example 3     *)
(* submits Tasks printing lambdas to a ThreadPoolExecutor(max_workers=3), *)
(* waits for the futures and leaves the with-block (shutdown(wait=True)); *)
(* with no more tasks than workers, every submitted task may run at once. *)
(***************************************************************************)
EXTENDS Naturals, Sequences, FiniteSets

CONSTANTS
    Workers,  \* range(1, 6) of examples 1 and 2
    Tasks     \* range(3) of example 3

VARIABLES
    ex,        \* the example main is in, 4 when main has returned
    started,   \* threads started (examples 1, 2) or tasks submitted (3)
    joined,    \* threads joined
    th,        \* th[i]: "none", "new", "slept" (worker's sleep done), "done"
    results,   \* example 2's results queue
    printed    \* the results main has printed, in order

vars == <<ex, started, joined, th, results, printed>>

Size == IF ex = 3 THEN Tasks ELSE Workers

Slots == IF Workers > Tasks THEN Workers ELSE Tasks

NoThreads == [i \in 1..Slots |-> "none"]

Init ==
    /\ ex = 1
    /\ started = 0
    /\ joined = 0
    /\ th = NoThreads
    /\ results = <<>>
    /\ printed = <<>>

\* Thread(...).start(), or executor.submit: the next thread or task.
Start ==
    /\ ex \in 1..3
    /\ started < Size
    /\ th' = [th EXCEPT ![started + 1] = "new"]
    /\ started' = started + 1
    /\ UNCHANGED <<ex, joined, results, printed>>

\* worker(): the first print and time.sleep(0.05).
Sleep(i) ==
    /\ ex = 1
    /\ th[i] = "new"
    /\ th' = [th EXCEPT ![i] = "slept"]
    /\ UNCHANGED <<ex, started, joined, results, printed>>

\* The rest of a thread or task: worker's last print, task's
\* results.put(n * n), the lambda's print.
Finish(i) ==
    /\ ex \in 1..3
    /\ th[i] = IF ex = 1 THEN "slept" ELSE "new"
    /\ th' = [th EXCEPT ![i] = "done"]
    /\ results' = IF ex = 2 THEN Append(results, i * i) ELSE results
    /\ UNCHANGED <<ex, started, joined, printed>>

\* Examples 1 and 2, after the start loop: t.join() on the next thread.
Join ==
    /\ ex \in {1, 2}
    /\ started = Workers
    /\ joined < Workers
    /\ th[joined + 1] = "done"
    /\ joined' = joined + 1
    /\ UNCHANGED <<ex, started, th, results, printed>>

\* Example 2's `while not results.empty(): print(results.get())`.
Drain ==
    /\ ex = 2
    /\ joined = Workers
    /\ results # <<>>
    /\ printed' = Append(printed, Head(results))
    /\ results' = Tail(results)
    /\ UNCHANGED <<ex, started, joined, th>>

\* The end of an example: the joins done and, in example 2, the queue
\* found empty; in example 3 wait(futures) and the with-block's shutdown
\* return once every task is done.
NextExample ==
    /\ \/ ex = 1 /\ joined = Workers
       \/ ex = 2 /\ joined = Workers /\ results = <<>>
       \/ ex = 3 /\ started = Tasks /\ \A i \in 1..Tasks : th[i] = "done"
    /\ ex' = ex + 1
    /\ started' = 0
    /\ joined' = 0
    /\ th' = NoThreads
    /\ UNCHANGED <<results, printed>>

\* main has returned.
Terminated ==
    /\ ex = 4
    /\ UNCHANGED vars

Next ==
    \/ Start \/ Join \/ Drain \/ NextExample \/ Terminated
    \/ \E i \in 1..Slots : Sleep(i) \/ Finish(i)

Spec == Init /\ [][Next]_vars

\* Properties

\* The type invariant, with what the joins guarantee example 2's drain:
\* once main has moved on, it has printed every square, once each.
TypeOK ==
    /\ ex \in 1..4
    /\ started \in 0..Slots /\ joined \in 0..started
    /\ th \in [1..Slots -> {"none", "new", "slept", "done"}]
    /\ Len(printed) + Len(results) <= Workers
    /\ ex > 2 => {printed[k] : k \in 1..Len(printed)} = {i * i : i \in 1..Workers}
=============================================================================
