----------------------------- MODULE Goroutines -----------------------------
(***************************************************************************)
(* 06_concurrency/01_goroutines_vs_threads/main.py. main() runs three    *)
(* examples of the same shape: a loop that creates and starts threads,    *)
(* then a loop that joins them in the order they were started. Example 1 *)
(* starts Workers threads running work (print, sleep, print), example 2  *)
(* one anonymous thread that prints, example 3 Spawned threads that      *)
(* compute n * n (10,000 in the code, a few here: the threads share       *)
(* nothing). Each thread runs from its start, concurrently with main.    *)
(***************************************************************************)
EXTENDS Naturals

CONSTANTS
    Workers,  \* range(1, 6): the threads of example 1
    Spawned   \* range(10_000): the threads of example 3

VARIABLES
    ex,       \* the example main is in, 4 when main has returned
    started,  \* threads main has started in this example
    joined,   \* threads main has joined in this example
    th        \* th[i]: "none", "new" (started), "slept" (work's sleep done), "done"

vars == <<ex, started, joined, th>>

\* The threads each example starts.
Size(e) == CASE e = 1 -> Workers [] e = 2 -> 1 [] OTHER -> Spawned

MaxThreads == IF Workers > Spawned THEN Workers ELSE Spawned

NoThreads == [i \in 1..MaxThreads |-> "none"]

Init ==
    /\ ex = 1
    /\ started = 0
    /\ joined = 0
    /\ th = NoThreads

\* The start loop: Thread(...) and t.start().
Start ==
    /\ ex \in 1..3
    /\ started < Size(ex)
    /\ th' = [th EXCEPT ![started + 1] = "new"]
    /\ started' = started + 1
    /\ UNCHANGED <<ex, joined>>

\* work(): print "started" and time.sleep(0.1).
Sleep(i) ==
    /\ ex = 1
    /\ th[i] = "new"
    /\ th' = [th EXCEPT ![i] = "slept"]
    /\ UNCHANGED <<ex, started, joined>>

\* The end of a thread's target: work's second print, the lambda's print
\* or n * n.
Finish(i) ==
    /\ th[i] = IF ex = 1 THEN "slept" ELSE "new"
    /\ th' = [th EXCEPT ![i] = "done"]
    /\ UNCHANGED <<ex, started, joined>>

\* The join loop, after the start loop: t.join() on the next thread.
Join ==
    /\ ex \in 1..3
    /\ started = Size(ex)
    /\ joined < Size(ex)
    /\ th[joined + 1] = "done"
    /\ joined' = joined + 1
    /\ UNCHANGED <<ex, started, th>>

\* The print after the joins, and on to the next example.
NextExample ==
    /\ ex \in 1..3
    /\ joined = Size(ex)
    /\ ex' = ex + 1
    /\ started' = 0
    /\ joined' = 0
    /\ th' = NoThreads

\* main has returned.
Terminated ==
    /\ ex = 4
    /\ UNCHANGED vars

Next ==
    \/ Start \/ Join \/ NextExample \/ Terminated
    \/ \E i \in 1..MaxThreads : Sleep(i) \/ Finish(i)

Spec == Init /\ [][Next]_vars

\* Properties

\* The type invariant, with the join loop's promise: every thread main has
\* joined has finished.
TypeOK ==
    /\ ex \in 1..4
    /\ started \in 0..MaxThreads /\ joined \in 0..started
    /\ th \in [1..MaxThreads -> {"none", "new", "slept", "done"}]
    /\ \A i \in 1..joined : th[i] = "done"
=============================================================================
