---------------------------- MODULE AsyncTimers ----------------------------
(***************************************************************************)
(* 06_concurrency/06_timeouts_and_timers/main.py: main on one asyncio     *)
(* loop runs wait_for(slow_work(), timeout=0.1) with slow_work sleeping   *)
(* 0.2, two one-shot sleeps of 0.1 and 0.05, then a ticker that sleeps    *)
(* 0.08 at a time and stops on the first wake-up at or after a deadline   *)
(* 0.35 after its start. Time is in ticks of 10 ms; a sleep returns up to  *)
(* Late ticks after its delay, never before it.                           *)
(***************************************************************************)
EXTENDS Naturals, Sequences

CONSTANTS
    Late,       \* how many ticks late a sleep may return
    SlowWork,   \* slow_work's sleep (20)
    Timeout,    \* wait_for's timeout (10)
    Interval,   \* the ticker's interval (8)
    Span        \* the ticker's deadline after its start (35)

VARIABLES
    part,       \* 1 wait_for, 2 the one-shot timers, 3 the ticker, 4 returned
    now,        \* loop.time() in ticks
    deadline,   \* the ticker's deadline
    count,      \* the ticker's count
    wakes,      \* the times the ticker's sleeps returned
    printed     \* what main printed, as tags

vars == <<part, now, deadline, count, wakes, printed>>

\* The one-shot sleeps, 0.1 and 0.05.
FirstShot == 10
SecondShot == 5

Init ==
    /\ part = 1
    /\ now = 0
    /\ deadline = 0
    /\ count = 0
    /\ wakes = <<>>
    /\ printed = <<>>

\* wait_for: the timeout timer and slow_work's sleep race; the loop runs
\* the earlier deadline first, so the timeout cancels slow_work unless
\* slow_work is the shorter.
WaitFor(e) ==
    /\ part = 1
    /\ now' = now + (IF Timeout < SlowWork THEN Timeout ELSE SlowWork) + e
    /\ printed' = Append(printed, IF Timeout < SlowWork THEN "timed out" ELSE "received")
    /\ part' = 2
    /\ UNCHANGED <<deadline, count, wakes>>

\* The two one-shot sleeps, then the ticker's start: count = 0 and the
\* deadline from loop.time().
OneShots(e1, e2) ==
    /\ part = 2
    /\ now' = now + FirstShot + e1 + SecondShot + e2
    /\ printed' = printed \o <<"timer fired", "timer fired again">>
    /\ deadline' = now' + Span
    /\ part' = 3
    /\ UNCHANGED <<count, wakes>>

\* One turn of the ticker loop: sleep(interval), read loop.time(), stop at
\* or past the deadline, else count += 1 and print the tick.
TickerTurn(e) ==
    /\ part = 3
    /\ LET t == now + Interval + e IN
       /\ now' = t
       /\ wakes' = Append(wakes, t)
       /\ IF t >= deadline
          THEN /\ printed' = Append(printed, "stopped")
               /\ part' = 4
               /\ UNCHANGED count
          ELSE /\ count' = count + 1
               /\ printed' = Append(printed, "tick")
               /\ UNCHANGED part
    /\ UNCHANGED deadline

\* asyncio.run(main()) has returned.
Terminated ==
    /\ part = 4
    /\ UNCHANGED vars

Next ==
    \/ \E e \in 0..Late : WaitFor(e) \/ TickerTurn(e)
    \/ \E e1, e2 \in 0..Late : OneShots(e1, e2)
    \/ Terminated

Spec == Init /\ [][Next]_vars

\* Properties

\* The type invariant, with what the ticker promises: every printed tick
\* is a wake-up before the deadline, so there are at most Span \div
\* Interval of them (four for the code's values) and one fewer whenever
\* the sleeps run late enough; the stop is the first wake-up past it.
TypeOK ==
    /\ part \in 1..4
    /\ count <= Span \div Interval
    /\ \A k \in 1..Len(wakes) : (wakes[k] < deadline) = (k <= count)
    /\ part = 4 => Len(wakes) = count + 1
=============================================================================
