---------------------------- MODULE AsyncSelect ----------------------------
(***************************************************************************)
(* 06_concurrency/05_select/main.py: four asyncio examples run in turn by *)
(* main on one event loop.                                                 *)
(*   1. as_completed over task1 (sleep 0.05) and task2 (sleep 0.10);      *)
(*   2. wait_for(slow_work(), timeout=0.1) with slow_work sleeping 0.5;   *)
(*   3. get_nowait and put_nowait on an asyncio.Queue(maxsize=1);         *)
(*   4. a producer task putting 1, 2, ... on an unbounded queue with a    *)
(*      sleep(0) after each put, main taking three values, then           *)
(*      task.cancel() and await task.                                     *)
(* Time is in ticks of 50 ms. A timer fires at or after its deadline, up  *)
(* to Late ticks after, and the loop runs due timers earliest deadline    *)
(* first. Example 4 runs on the loop's FIFO ready queue: the task at its  *)
(* head runs until it awaits something that is not ready.                 *)
(***************************************************************************)
EXTENDS Naturals, Sequences, FiniteSets

CONSTANTS
    Late,      \* how many ticks late a timer may fire
    Wanted     \* values main takes from results before cancelling (3)

VARIABLES
    part,      \* the example main is in, 5 once main has returned
    now,       \* loop.time() in ticks
    timers,    \* pending sleeps: a set of [task, at]
    printed,   \* main's received lines, in order
    q,         \* example 3's Queue(maxsize=1)
    ready,     \* example 4's ready queue, its head running
    mpc,       \* main in example 4: "get", "blockedGet", "join", "blockedJoin", "done"
    ppc,       \* the producer: "run", "done"
    i,         \* the producer's i
    results,   \* example 4's queue
    cancelled  \* task.cancel() has been called

vars == <<part, now, timers, printed, q, ready, mpc, ppc, i, results, cancelled>>

\* The lines examples 1 to 3 print before example 4.
Examples123 == 6
Expected123 == <<"one", "two", "timed out", "nothing ready", "queue full", 42>>

\* Example 3's maxsize.
MaxSize == 1

\* What each sleeping coroutine returns when its timer fires.
Result == [t1 |-> "one", t2 |-> "two", slow |-> "finally", timeout |-> "timed out"]

\* The timer the loop runs next: the one with the earliest deadline.
Earliest == CHOOSE x \in timers : \A y \in timers : x.at <= y.at

Init ==
    /\ part = 1
    /\ now = 0
    /\ timers = {[task |-> "t1", at |-> 1], [task |-> "t2", at |-> 2]}
    /\ printed = <<>>
    /\ q = <<>>
    /\ ready = <<>>
    /\ mpc = "get"
    /\ ppc = "run"
    /\ i = 1
    /\ results = <<>>
    /\ cancelled = FALSE

\* Examples 1 and 2: the loop wakes up e ticks after the earliest deadline
\* and runs that timer. In example 1, as_completed hands main each task's
\* result as it completes; the loop goes on to example 2 after both. In
\* example 2 the first timer decides: the timeout cancels slow_work, or
\* slow_work's result is returned and the timeout is cancelled.
FireTimer(e) ==
    /\ part \in {1, 2}
    /\ timers # {}
    /\ LET x == Earliest
           t == IF now > x.at + e THEN now ELSE x.at + e
       IN /\ now' = t
          /\ printed' = Append(printed, Result[x.task])
          /\ CASE part = 1 /\ timers # {x} ->
                    timers' = timers \ {x} /\ UNCHANGED part
                [] part = 1 ->
                    /\ timers' = {[task |-> "slow", at |-> t + 10], [task |-> "timeout", at |-> t + 2]}
                    /\ part' = 2
                [] OTHER ->
                    timers' = {} /\ part' = 3
    /\ UNCHANGED <<q, ready, mpc, ppc, i, results, cancelled>>

\* Example 3: get_nowait on the empty queue raises QueueEmpty, put(42)
\* does not wait, put_nowait(99) raises QueueFull, get returns 42. Then
\* main creates the producer task and goes on running.
NonBlocking ==
    /\ part = 3
    /\ LET got == IF q = <<>> THEN "nothing ready" ELSE q[1]
           q1 == Append(q, 42)
           put == IF Len(q1) < MaxSize THEN "sent 99" ELSE "queue full"
       IN printed' = printed \o <<got, put, q1[1]>>
    /\ q' = <<>>
    /\ part' = 4
    /\ ready' = <<"main", "prod">>
    /\ UNCHANGED <<now, timers, mpc, ppc, i, results, cancelled>>

\* Example 4, main at the head of the ready queue. get() returns at once
\* from a non-empty queue, else main waits as a getter and leaves the
\* queue. After the Wanted-th value main calls task.cancel() and awaits
\* the task, which returns at once only if the task is already done.
RunMain ==
    /\ part = 4
    /\ ready # <<>> /\ Head(ready) = "main"
    /\ \/ /\ mpc = "get" /\ results # <<>>
          /\ printed' = Append(printed, Head(results))
          /\ results' = Tail(results)
          /\ IF Len(printed) + 1 = Examples123 + Wanted
             THEN cancelled' = TRUE /\ mpc' = "join"
             ELSE UNCHANGED <<cancelled, mpc>>
          /\ UNCHANGED <<ready, part>>
       \/ /\ mpc = "get" /\ results = <<>>
          /\ mpc' = "blockedGet" /\ ready' = Tail(ready)
          /\ UNCHANGED <<printed, results, cancelled, part>>
       \/ /\ mpc = "join" /\ ppc # "done"
          /\ mpc' = "blockedJoin" /\ ready' = Tail(ready)
          /\ UNCHANGED <<printed, results, cancelled, part>>
       \/ /\ mpc = "join" /\ ppc = "done"
          /\ mpc' = "done" /\ ready' = Tail(ready) /\ part' = 5
          /\ UNCHANGED <<printed, results, cancelled>>
    /\ UNCHANGED <<now, timers, q, ppc, i>>

\* The main task woken by a step of the producer, if it waits on it.
Woken(m) == IF mpc = m THEN <<"main">> ELSE <<>>

\* Mutant: the producer without its `await asyncio.sleep(0)`: put on an
\* unbounded queue never waits, so it runs on at the head of the queue.
RunProducerNoYield ==
    /\ part = 4
    /\ ready # <<>> /\ Head(ready) = "prod"
    /\ IF cancelled
       THEN /\ ppc' = "done"
            /\ ready' = Tail(ready) \o Woken("blockedJoin")
            /\ mpc' = IF mpc = "blockedJoin" THEN "join" ELSE mpc
            /\ UNCHANGED <<results, i>>
       ELSE /\ results' = Append(results, i)
            /\ i' = i + 1
            /\ ready' = ready \o Woken("blockedGet")
            /\ mpc' = IF mpc = "blockedGet" THEN "get" ELSE mpc
            /\ UNCHANGED ppc
    /\ UNCHANGED <<part, now, timers, printed, q, cancelled>>

\* Example 4, the producer at the head of the ready queue, from where it
\* resumed to its next sleep(0): put(i) wakes a waiting getter, i += 1,
\* and sleep(0) puts the task back at the end of the ready queue. After
\* task.cancel() it resumes with CancelledError at the sleep, which it
\* catches, prints and returns, waking main's await.
RunProducer ==
    /\ part = 4
    /\ ready # <<>> /\ Head(ready) = "prod"
    /\ IF cancelled
       THEN /\ ppc' = "done"
            /\ ready' = Tail(ready) \o Woken("blockedJoin")
            /\ mpc' = IF mpc = "blockedJoin" THEN "join" ELSE mpc
            /\ UNCHANGED <<results, i>>
       ELSE /\ results' = Append(results, i)
            /\ i' = i + 1
            /\ ready' = Tail(ready) \o Woken("blockedGet") \o <<"prod">>
            /\ mpc' = IF mpc = "blockedGet" THEN "get" ELSE mpc
            /\ UNCHANGED ppc
    /\ UNCHANGED <<part, now, timers, printed, q, cancelled>>

\* asyncio.run(main()) has returned.
Terminated ==
    /\ part = 5
    /\ UNCHANGED vars

Next ==
    \/ \E e \in 0..Late : FireTimer(e)
    \/ NonBlocking \/ RunMain \/ RunProducer \/ Terminated

Spec == Init /\ [][Next]_vars

\* Properties

TypeOK ==
    /\ part \in 1..5
    /\ now \in Nat /\ i \in Nat /\ cancelled \in BOOLEAN
    /\ mpc \in {"get", "blockedGet", "join", "blockedJoin", "done"}
    /\ ppc \in {"run", "done"}
    /\ ready \in Seq({"main", "prod"})

\* What main prints: the tasks in completion order, the timeout, the two
\* non-blocking failures and 42, then 1..Wanted in order. In example 4
\* the producer's sleep(0) after each put sends it to the back of the FIFO
\* ready queue behind the getter its put woke, so it is never more than
\* one value ahead of main; asyncio.run returns only after the cancelled
\* producer has caught CancelledError and returned.
PrintsExpectedLines ==
    /\ Len(results) <= 1
    /\ \A k \in 1..Len(printed) :
          printed[k] = IF k <= Examples123 THEN Expected123[k] ELSE k - Examples123
    /\ part = 5 => ppc = "done" /\ Len(printed) = Examples123 + Wanted
=============================================================================
